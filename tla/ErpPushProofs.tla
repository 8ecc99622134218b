---------------------------- MODULE ErpPushProofs ----------------------------
(***************************************************************************)
(* What ErpPush promises for any calls, retries and attempts.  Both bounds *)
(* on the journals in the ERP count: the requests that an announced        *)
(* attempt may still make belong to the mark it has committed, and an      *)
(* answer that is known and not recorded yet belongs to a journal that     *)
(* exists.                                                                 *)
(***************************************************************************)
EXTENDS ErpPush, FiniteSetTheorems, TLAPS

PushRuns == [status : Statuses, id : Ids]
Places == Idle \cup {"lookup", "announce", "dispatch", "post", "record"}

(* The rows of s that are among R.                                         *)
Marked(s, R) == {k \in DOMAIN s : s[k] \in R}

Announced == {run \in PushRuns : run.status = "PUSH_IN_PROGRESS"}
InErp == {Run("PUSHED", "erp")}

(* A run in progress never has an id the ERP could be asked for.           *)
Unnamed == \A k \in DOMAIN runs : runs[k].status = "PUSH_IN_PROGRESS" => runs[k].id = "none"

(* The program counter of a call, and what it goes with.                   *)
CallOK(j) ==
    /\ posts[j] # 0 => pc[j] \in {"post", "record"}
    /\ pc[j] = "record" => outcome[j] # "none"

(* The HTTP requests that announced attempts may still make.               *)
OwedBy(p, n) == {x \in Jobs \X (0..(MaxPosts - 1)) : p[x[1]] \in {"dispatch", "post"} /\ x[2] >= n[x[1]]}

(* The calls that know of a journal in the ERP and have not recorded it.   *)
KnownTo(p, o) == {j \in Jobs : p[j] = "record" /\ o[j] = "erp"}

Budget == copies + Cardinality(OwedBy(pc, posts)) <= MaxPosts * Cardinality(Marked(runs, Announced))

Evidence == Cardinality(Marked(runs, InErp)) + Cardinality(KnownTo(pc, outcome)) <= copies

IInv ==
    /\ TypeOK
    /\ Unnamed
    /\ \A j \in Jobs : CallOK(j)
    /\ Budget
    /\ Evidence

--------------------------------------------------------------------------------
(* Counting rows.                                                          *)

LEMMA MarkedFinite ==
    ASSUME NEW s \in Seq(PushRuns), NEW R
    PROVE  IsFiniteSet(Marked(s, R)) /\ Cardinality(Marked(s, R)) \in Nat
<1>1. IsFiniteSet(1..Len(s)) /\ Marked(s, R) \subseteq 1..Len(s)
  BY FS_Interval DEF Marked
<1>. QED
  BY <1>1, FS_Subset, FS_CardinalityType

LEMMA AppendMarked ==
    ASSUME NEW s \in Seq(PushRuns), NEW row \in PushRuns, NEW R
    PROVE  Cardinality(Marked(Append(s, row), R))
             = Cardinality(Marked(s, R)) + (IF row \in R THEN 1 ELSE 0)
<1> DEFINE t == Append(s, row)
<1>1. /\ DOMAIN s = 1..Len(s) /\ DOMAIN t = 1..(Len(s) + 1) /\ Len(s) \in Nat
      /\ \A k \in 1..Len(s) : t[k] = s[k]
      /\ t[Len(s) + 1] = row
  OBVIOUS
<1>. HIDE DEF t
<1>2. IsFiniteSet(Marked(s, R)) /\ Cardinality(Marked(s, R)) \in Nat
  BY MarkedFinite
<1>3. CASE row \in R
  <2>1. Marked(t, R) = Marked(s, R) \cup {Len(s) + 1}
    BY <1>1, <1>3 DEF Marked
  <2>2. Len(s) + 1 \notin Marked(s, R)
    BY <1>1 DEF Marked
  <2>3. Cardinality(Marked(s, R) \cup {Len(s) + 1}) = Cardinality(Marked(s, R)) + 1
    BY <1>2, <2>2, FS_AddElement
  <2>. QED
    BY <1>3, <2>1, <2>3 DEF t
<1>4. CASE row \notin R
  <2>1. Marked(t, R) = Marked(s, R)
    BY <1>1, <1>4 DEF Marked
  <2>. QED
    BY <1>2, <1>4, <2>1 DEF t
<1>. QED
  BY <1>3, <1>4

(* The runs an outcome leaves behind, one append after the other.          *)
LEMMA AppendedRuns ==
    ASSUME NEW s \in Seq(PushRuns), NEW a \in PushRuns, NEW b \in PushRuns
    PROVE  s \o <<a>> = Append(s, a) /\ s \o <<a, b>> = Append(Append(s, a), b)
OBVIOUS

--------------------------------------------------------------------------------
(* Counting requests and answers.                                          *)

LEMMA OwedFinite ==
    ASSUME NEW p, NEW n
    PROVE  IsFiniteSet(OwedBy(p, n)) /\ Cardinality(OwedBy(p, n)) \in Nat
<1>1. IsFiniteSet(Jobs) /\ IsFiniteSet(0..(MaxPosts - 1))
  BY PushAssumption, FS_Interval
<1>2. IsFiniteSet(Jobs \X (0..(MaxPosts - 1)))
  BY <1>1, FS_Product
<1>3. OwedBy(p, n) \subseteq Jobs \X (0..(MaxPosts - 1))
  BY DEF OwedBy
<1>. QED
  BY <1>2, <1>3, FS_Subset, FS_CardinalityType

LEMMA KnownFinite ==
    ASSUME NEW p, NEW o
    PROVE  IsFiniteSet(KnownTo(p, o)) /\ Cardinality(KnownTo(p, o)) \in Nat
<1>1. KnownTo(p, o) \subseteq Jobs
  BY DEF KnownTo
<1>. QED
  BY <1>1, PushAssumption, FS_Subset, FS_CardinalityType

(* A call that is not about to make a request owes none.                   *)
LEMMA OwedNoMore ==
    ASSUME NEW p, NEW n, NEW q, NEW m, OwedBy(q, m) \subseteq OwedBy(p, n)
    PROVE  Cardinality(OwedBy(q, m)) <= Cardinality(OwedBy(p, n))
BY OwedFinite, FS_Subset

(* A request that has been made is owed no longer.                         *)
LEMMA OwedLess ==
    ASSUME NEW p, NEW n, NEW q, NEW m, NEW x, OwedBy(q, m) \subseteq OwedBy(p, n),
           x \in OwedBy(p, n), x \notin OwedBy(q, m)
    PROVE  Cardinality(OwedBy(q, m)) + 1 <= Cardinality(OwedBy(p, n))
<1>1. OwedBy(q, m) \subseteq OwedBy(p, n) \ {x}
  OBVIOUS
<1>2. /\ IsFiniteSet(OwedBy(p, n) \ {x})
      /\ Cardinality(OwedBy(p, n) \ {x}) = Cardinality(OwedBy(p, n)) - 1
  BY OwedFinite, FS_RemoveElement
<1>3. Cardinality(OwedBy(q, m)) <= Cardinality(OwedBy(p, n) \ {x})
  BY <1>1, <1>2, FS_Subset
<1>. QED
  BY <1>2, <1>3, OwedFinite

(* An attempt that is announced owes MaxPosts requests at most.            *)
LEMMA OwedMore ==
    ASSUME NEW p, NEW n, NEW q, NEW m, NEW j \in Jobs,
           OwedBy(q, m) \subseteq OwedBy(p, n) \cup ({j} \X (0..(MaxPosts - 1)))
    PROVE  Cardinality(OwedBy(q, m)) <= Cardinality(OwedBy(p, n)) + MaxPosts
<1> DEFINE new == {j} \X (0..(MaxPosts - 1))
<1>1. MaxPosts \in Nat \ {0}
  BY PushAssumption
<1>2. IsFiniteSet({j}) /\ Cardinality({j}) = 1
  BY FS_Singleton
<1>3. IsFiniteSet(0..(MaxPosts - 1)) /\ Cardinality(0..(MaxPosts - 1)) = MaxPosts
  BY <1>1, FS_Interval
<1>4. IsFiniteSet(new) /\ Cardinality(new) = MaxPosts
  <2>1. /\ IsFiniteSet(new)
        /\ Cardinality(new) = Cardinality({j}) * Cardinality(0..(MaxPosts - 1))
    BY <1>2, <1>3, FS_Product, Zenon
  <2>. HIDE DEF new
  <2>. QED
    BY <1>1, <1>2, <1>3, <2>1
<1>. HIDE DEF new
<1>5. IsFiniteSet(OwedBy(p, n)) /\ Cardinality(OwedBy(p, n)) \in Nat
  BY OwedFinite
<1>6. /\ IsFiniteSet(OwedBy(p, n) \cup new)
      /\ Cardinality(OwedBy(p, n) \cup new)
           = Cardinality(OwedBy(p, n)) + Cardinality(new) - Cardinality(OwedBy(p, n) \cap new)
  BY <1>4, <1>5, FS_Union
<1>7. Cardinality(OwedBy(p, n) \cap new) \in Nat
  BY <1>5, FS_Intersection, FS_CardinalityType
<1>8. Cardinality(OwedBy(q, m)) <= Cardinality(OwedBy(p, n) \cup new)
  BY <1>6, FS_Subset DEF new
<1>9. Cardinality(OwedBy(q, m)) \in Nat
  BY OwedFinite
<1>. QED
  BY <1>1, <1>4, <1>5, <1>6, <1>7, <1>8, <1>9

LEMMA KnownNoMore ==
    ASSUME NEW p, NEW o, NEW q, NEW u, KnownTo(q, u) \subseteq KnownTo(p, o)
    PROVE  Cardinality(KnownTo(q, u)) <= Cardinality(KnownTo(p, o))
BY KnownFinite, FS_Subset

LEMMA KnownOneMore ==
    ASSUME NEW p, NEW o, NEW q, NEW u, NEW j, KnownTo(q, u) \subseteq KnownTo(p, o) \cup {j}
    PROVE  Cardinality(KnownTo(q, u)) <= Cardinality(KnownTo(p, o)) + 1
<1>1. /\ IsFiniteSet(KnownTo(p, o) \cup {j})
      /\ \/ Cardinality(KnownTo(p, o) \cup {j}) = Cardinality(KnownTo(p, o))
         \/ Cardinality(KnownTo(p, o) \cup {j}) = Cardinality(KnownTo(p, o)) + 1
  BY KnownFinite, FS_AddElement
<1>2. Cardinality(KnownTo(q, u)) <= Cardinality(KnownTo(p, o) \cup {j})
  BY <1>1, FS_Subset
<1>. QED
  BY <1>1, <1>2, KnownFinite

LEMMA KnownOneLess ==
    ASSUME NEW p, NEW o, NEW q, NEW u, NEW j, j \in KnownTo(p, o),
           KnownTo(q, u) \subseteq KnownTo(p, o) \ {j}
    PROVE  Cardinality(KnownTo(q, u)) + 1 <= Cardinality(KnownTo(p, o))
<1>1. /\ IsFiniteSet(KnownTo(p, o) \ {j})
      /\ Cardinality(KnownTo(p, o) \ {j}) = Cardinality(KnownTo(p, o)) - 1
  BY KnownFinite, FS_RemoveElement
<1>2. Cardinality(KnownTo(q, u)) <= Cardinality(KnownTo(p, o) \ {j})
  BY <1>1, FS_Subset
<1>. QED
  BY <1>1, <1>2, KnownFinite

--------------------------------------------------------------------------------
(* What the steps of a call have in common.                                *)

(* The program counters and the variables of the calls.                    *)
ControlOK ==
    /\ pc \in [Jobs -> Places]
    /\ posts \in [Jobs -> 0..(MaxPosts - 1)]
    /\ outcome \in [Jobs -> {"none", "erp", "sim", "HARD", "SOFT"}]
    /\ \A j \in Jobs : CallOK(j)

LEMMA Typing ==
    TypeOK <=>
        /\ runs \in Seq(PushRuns)
        /\ copies \in Nat
        /\ gates \in BOOLEAN
        /\ pc \in [Jobs -> Places]
        /\ posts \in [Jobs -> 0..(MaxPosts - 1)]
        /\ outcome \in [Jobs -> {"none", "erp", "sim", "HARD", "SOFT"}]
        /\ retries \in [Jobs -> 0..MaxRetries]
        /\ told \in [Jobs -> {"none", "PUSHED", "DEAD_LETTER"}]
        /\ crashes \in 0..MaxCrashes
BY Zenon DEF TypeOK, PushRuns, Places

LEMMA ControlTyped == IInv => ControlOK
BY Typing DEF IInv, ControlOK

(* A call that leaves execute_push owes no request and knows of nothing.   *)
LEMMA Left ==
    ASSUME ControlOK, NEW j \in Jobs, NEW where \in Idle, Leave(j, where)
    PROVE  /\ ControlOK'
           /\ OwedBy(pc', posts') \subseteq {x \in OwedBy(pc, posts) : x[1] # j}
           /\ KnownTo(pc', outcome') \subseteq KnownTo(pc, outcome) \ {j}
<1>. USE DEF ControlOK, Leave
<1>1. /\ pc'[j] = where /\ posts'[j] = 0 /\ outcome'[j] = "none"
      /\ \A k \in Jobs \ {j} : pc'[k] = pc[k] /\ posts'[k] = posts[k] /\ outcome'[k] = outcome[k]
  OBVIOUS
<1>2. /\ pc' \in [Jobs -> Places]
      /\ posts' \in [Jobs -> 0..(MaxPosts - 1)]
      /\ outcome' \in [Jobs -> {"none", "erp", "sim", "HARD", "SOFT"}]
  BY PushAssumption DEF Places
<1>3. where \notin {"dispatch", "post", "record"}
  BY DEF Idle
<1>4. \A k \in Jobs : CallOK(k)'
  BY <1>1, <1>3 DEF CallOK
<1>5. OwedBy(pc', posts') \subseteq {x \in OwedBy(pc, posts) : x[1] # j}
  <2>. SUFFICES ASSUME NEW x \in OwedBy(pc', posts') PROVE x \in OwedBy(pc, posts) /\ x[1] # j
    OBVIOUS
  <2>1. /\ x \in Jobs \X (0..(MaxPosts - 1)) /\ x[1] \in Jobs
        /\ pc'[x[1]] \in {"dispatch", "post"} /\ x[2] >= posts'[x[1]]
    BY DEF OwedBy
  <2>2. x[1] # j
    BY <1>1, <1>3, <2>1
  <2>3. pc'[x[1]] = pc[x[1]] /\ posts'[x[1]] = posts[x[1]]
    BY <1>1, <2>1, <2>2
  <2>. QED
    BY <2>1, <2>2, <2>3 DEF OwedBy
<1>6. KnownTo(pc', outcome') \subseteq KnownTo(pc, outcome) \ {j}
  BY <1>1, <1>3 DEF KnownTo
<1>. QED
  BY <1>2, <1>4, <1>5, <1>6

(* A call that has a result makes no further request.                      *)
LEMMA Resulted ==
    ASSUME ControlOK, NEW j \in Jobs, NEW result \in {"erp", "sim", "HARD", "SOFT"},
           pc[j] \in {"dispatch", "post"}, Result(j, result)
    PROVE  /\ ControlOK'
           /\ OwedBy(pc', posts') \subseteq {x \in OwedBy(pc, posts) : x[1] # j}
           /\ KnownTo(pc', outcome') \subseteq KnownTo(pc, outcome) \cup {j}
           /\ result # "erp" => KnownTo(pc', outcome') \subseteq KnownTo(pc, outcome)
<1>. USE DEF ControlOK, Result
<1>1. /\ pc'[j] = "record" /\ outcome'[j] = result /\ posts' = posts
      /\ \A k \in Jobs \ {j} : pc'[k] = pc[k] /\ outcome'[k] = outcome[k]
  OBVIOUS
<1>2. /\ pc' \in [Jobs -> Places]
      /\ posts' \in [Jobs -> 0..(MaxPosts - 1)]
      /\ outcome' \in [Jobs -> {"none", "erp", "sim", "HARD", "SOFT"}]
  BY DEF Places
<1>3. \A k \in Jobs : CallOK(k)'
  BY <1>1 DEF CallOK
<1>4. OwedBy(pc', posts') \subseteq {x \in OwedBy(pc, posts) : x[1] # j}
  <2>. SUFFICES ASSUME NEW x \in OwedBy(pc', posts') PROVE x \in OwedBy(pc, posts) /\ x[1] # j
    OBVIOUS
  <2>1. /\ x \in Jobs \X (0..(MaxPosts - 1)) /\ x[1] \in Jobs
        /\ pc'[x[1]] \in {"dispatch", "post"} /\ x[2] >= posts'[x[1]]
    BY DEF OwedBy
  <2>2. x[1] # j
    BY <1>1, <2>1
  <2>3. pc'[x[1]] = pc[x[1]] /\ posts'[x[1]] = posts[x[1]]
    BY <1>1, <2>1, <2>2
  <2>. QED
    BY <2>1, <2>2, <2>3 DEF OwedBy
<1>5. KnownTo(pc', outcome') \subseteq KnownTo(pc, outcome) \cup {j}
  BY <1>1 DEF KnownTo
<1>6. result # "erp" => KnownTo(pc', outcome') \subseteq KnownTo(pc, outcome)
  BY <1>1 DEF KnownTo
<1>. QED
  BY <1>2, <1>3, <1>4, <1>5, <1>6

(* A call that goes on to the next statement, which is not the first that  *)
(* may make requests.                                                      *)
LEMMA Moved ==
    ASSUME ControlOK, NEW j \in Jobs, NEW where \in {"lookup", "announce", "dispatch", "post"},
           pc' = [pc EXCEPT ![j] = where], UNCHANGED <<posts, outcome>>,
           pc[j] # "record", where = "post" \/ pc[j] # "post"
    PROVE  /\ ControlOK'
           /\ KnownTo(pc', outcome') \subseteq KnownTo(pc, outcome)
           /\ pc[j] = "dispatch" \/ where \notin {"dispatch", "post"} =>
                OwedBy(pc', posts') \subseteq OwedBy(pc, posts)
           /\ OwedBy(pc', posts') \subseteq OwedBy(pc, posts) \cup ({j} \X (0..(MaxPosts - 1)))
<1>. USE DEF ControlOK
<1>1. pc'[j] = where /\ \A k \in Jobs \ {j} : pc'[k] = pc[k]
  OBVIOUS
<1>2. pc' \in [Jobs -> Places]
  BY DEF Places
<1>3. \A k \in Jobs : CallOK(k)'
  BY <1>1 DEF CallOK
<1>4. KnownTo(pc', outcome') \subseteq KnownTo(pc, outcome)
  BY <1>1 DEF KnownTo
<1>5. ASSUME NEW x \in OwedBy(pc', posts'), x[1] # j PROVE x \in OwedBy(pc, posts)
  BY <1>1, <1>5 DEF OwedBy
<1>6. ASSUME pc[j] = "dispatch" \/ where \notin {"dispatch", "post"},
             NEW x \in OwedBy(pc', posts'), x[1] = j
      PROVE  x \in OwedBy(pc, posts)
  BY <1>1, <1>6 DEF OwedBy
<1>7. ASSUME NEW x \in OwedBy(pc', posts'), x[1] = j PROVE x \in {j} \X (0..(MaxPosts - 1))
  BY <1>7 DEF OwedBy
<1>. QED
  BY <1>2, <1>3, <1>4, <1>5, <1>6, <1>7

LEMMA Raised ==
    ASSUME IInv, NEW j \in Jobs, Raise(j)
    PROVE  /\ ControlOK'
           /\ OwedBy(pc', posts') \subseteq {x \in OwedBy(pc, posts) : x[1] # j}
           /\ KnownTo(pc', outcome') \subseteq KnownTo(pc, outcome) \ {j}
           /\ retries' \in [Jobs -> 0..MaxRetries]
           /\ told' = told
<1> DEFINE again == j \in Tasks /\ retries[j] < MaxRetries
<1>1. /\ Leave(j, IF again THEN "queued" ELSE "failed")
      /\ retries' = [retries EXCEPT ![j] = IF again THEN @ + 1 ELSE @]
      /\ told' = told
  BY DEF Raise
<1>2. retries \in [Jobs -> 0..MaxRetries] /\ MaxRetries \in Nat
  BY Typing, PushAssumption DEF IInv
<1>3. retries' \in [Jobs -> 0..MaxRetries]
  BY <1>1, <1>2
<1>4. (IF again THEN "queued" ELSE "failed") \in Idle
  BY DEF Idle
<1>. QED
  BY <1>1, <1>3, <1>4, ControlTyped, Left

LEMMA Returned ==
    ASSUME IInv, NEW j \in Jobs, NEW status \in {"PUSHED", "DEAD_LETTER"}, Return(j, status)
    PROVE  /\ ControlOK'
           /\ OwedBy(pc', posts') \subseteq {x \in OwedBy(pc, posts) : x[1] # j}
           /\ KnownTo(pc', outcome') \subseteq KnownTo(pc, outcome) \ {j}
           /\ told' \in [Jobs -> {"none", "PUSHED", "DEAD_LETTER"}]
           /\ retries' = retries
<1>1. /\ Leave(j, "done") /\ told' = [told EXCEPT ![j] = status] /\ retries' = retries
  BY DEF Return
<1>2. told' \in [Jobs -> {"none", "PUSHED", "DEAD_LETTER"}]
  BY <1>1, Typing DEF IInv
<1>3. "done" \in Idle
  BY DEF Idle
<1>. QED
  BY <1>1, <1>2, <1>3, ControlTyped, Left

(* The parts of the invariant that are not about counting.                 *)
Shape ==
    /\ runs \in Seq(PushRuns)
    /\ Unnamed
    /\ gates \in BOOLEAN
    /\ retries \in [Jobs -> 0..MaxRetries]
    /\ told \in [Jobs -> {"none", "PUSHED", "DEAD_LETTER"}]
    /\ crashes \in 0..MaxCrashes

LEMMA Parts == IInv <=> Shape /\ ControlOK /\ copies \in Nat /\ Budget /\ Evidence
BY Typing, Zenon DEF IInv, Shape, ControlOK

LEMMA PartsAfter == IInv' <=> Shape' /\ ControlOK' /\ (copies \in Nat)' /\ Budget' /\ Evidence'
BY Parts, PTL

(* The bounds, as numbers.                                                 *)
Marks(s) == Cardinality(Marked(s, Announced))
Evident(s) == Cardinality(Marked(s, InErp))
Owed(p, n) == Cardinality(OwedBy(p, n))
Known(p, o) == Cardinality(KnownTo(p, o))

LEMMA Bounds ==
    ASSUME IInv
    PROVE  /\ Shape /\ ControlOK
           /\ copies \in Nat /\ MaxPosts * Marks(runs) \in Nat
           /\ copies + Owed(pc, posts) <= MaxPosts * Marks(runs)
           /\ Evident(runs) + Known(pc, outcome) <= copies
           /\ Marks(runs) \in Nat /\ Evident(runs) \in Nat
           /\ Owed(pc, posts) \in Nat /\ Known(pc, outcome) \in Nat
<1>1. Shape /\ ControlOK /\ copies \in Nat /\ Budget /\ Evidence
  BY Parts
<1>2. /\ Marks(runs) \in Nat /\ Evident(runs) \in Nat
      /\ Owed(pc, posts) \in Nat /\ Known(pc, outcome) \in Nat
  BY <1>1, MarkedFinite, OwedFinite, KnownFinite DEF Shape, Marks, Evident, Owed, Known
<1>3. MaxPosts * Marks(runs) \in Nat
  BY <1>2, PushAssumption
<1>. QED
  BY <1>1, <1>2, <1>3 DEF Budget, Evidence, Marks, Evident, Owed, Known

LEMMA OwedKnownAfter == Owed(pc', posts') \in Nat /\ Known(pc', outcome') \in Nat
BY OwedFinite, KnownFinite DEF Owed, Known

LEMMA BoundsAfter ==
    ASSUME Shape', ControlOK', copies' \in Nat,
           copies' + Owed(pc', posts') <= MaxPosts * Marks(runs'),
           Evident(runs') + Known(pc', outcome') <= copies'
    PROVE  IInv'
<1>1. Budget' /\ Evidence'
  BY DEF Budget, Evidence, Marks, Evident, Owed, Known
<1>. QED
  BY <1>1, PartsAfter

(* A step that makes no request and records no answer.                     *)
LEMMA QuietStep ==
    ASSUME IInv, Shape', ControlOK', copies' = copies,
           Marks(runs') = Marks(runs), Evident(runs') = Evident(runs),
           OwedBy(pc', posts') \subseteq OwedBy(pc, posts),
           KnownTo(pc', outcome') \subseteq KnownTo(pc, outcome)
    PROVE  IInv'
<1>1. Owed(pc', posts') <= Owed(pc, posts) /\ Known(pc', outcome') <= Known(pc, outcome)
  BY OwedNoMore, KnownNoMore DEF Owed, Known
<1>2. copies' + Owed(pc', posts') <= MaxPosts * Marks(runs')
  BY <1>1, Bounds, OwedKnownAfter
<1>3. Evident(runs) + Known(pc', outcome') <= copies
  BY <1>1, Bounds, OwedKnownAfter
<1>. QED
  BY <1>2, <1>3, Bounds, BoundsAfter

(* A step that makes one request, which the attempt still owed.            *)
LEMMA RequestStep ==
    ASSUME IInv, Shape', ControlOK', NEW j \in Jobs, pc[j] = "post",
           NEW x, x \in OwedBy(pc, posts), x \notin OwedBy(pc', posts'),
           runs' = runs,
           OwedBy(pc', posts') \subseteq OwedBy(pc, posts),
           \/ copies' \in {copies, copies + 1} /\ KnownTo(pc', outcome') \subseteq KnownTo(pc, outcome)
           \/ copies' = copies + 1 /\ KnownTo(pc', outcome') \subseteq KnownTo(pc, outcome) \cup {j}
    PROVE  IInv'
<1>1. Owed(pc', posts') + 1 <= Owed(pc, posts)
  BY OwedLess DEF Owed
<1>2. \/ copies' \in {copies, copies + 1} /\ Known(pc', outcome') <= Known(pc, outcome)
      \/ copies' = copies + 1 /\ Known(pc', outcome') <= Known(pc, outcome) + 1
  BY KnownNoMore, KnownOneMore DEF Known
<1>3. copies' \in Nat /\ copies' <= copies + 1
  BY <1>2, Bounds
<1>4. copies + 1 + Owed(pc', posts') <= MaxPosts * Marks(runs)
  BY <1>1, Bounds, OwedKnownAfter
<1>5. copies' + Owed(pc', posts') <= MaxPosts * Marks(runs')
  BY <1>3, <1>4, Bounds, OwedKnownAfter
<1>6. Evident(runs') + Known(pc', outcome') <= copies'
  BY <1>2, Bounds, OwedKnownAfter
<1>. QED
  BY <1>3, <1>5, <1>6, BoundsAfter

(* The next request is among those the attempt owes.                       *)
LEMMA NextIsOwed ==
    ASSUME ControlOK, NEW j \in Jobs, pc[j] = "post"
    PROVE  <<j, posts[j]>> \in OwedBy(pc, posts)
BY DEF ControlOK, OwedBy

--------------------------------------------------------------------------------
(* The actions.                                                            *)

LEMMA GatesStep ==
    ASSUME IInv, NEW j \in Jobs, run_all_push_gates(j)
    PROVE  IInv'
<1>. USE DEF run_all_push_gates
<1>1. Shape /\ ControlOK
  BY Parts
<1>2. CASE gates
  <2>1. pc' = [pc EXCEPT ![j] = "lookup"] /\ UNCHANGED <<posts, outcome, retries, told>>
    BY <1>2
  <2>2. /\ ControlOK' /\ KnownTo(pc', outcome') \subseteq KnownTo(pc, outcome)
        /\ OwedBy(pc', posts') \subseteq OwedBy(pc, posts)
    BY <1>1, <2>1, Moved
  <2>3. Shape'
    BY <1>1, <2>1 DEF Shape, Unnamed
  <2>. QED
    BY <2>2, <2>3, QuietStep
<1>3. CASE ~gates
  <2>1. Raise(j)
    BY <1>3
  <2>2. /\ ControlOK'
        /\ OwedBy(pc', posts') \subseteq OwedBy(pc, posts)
        /\ KnownTo(pc', outcome') \subseteq KnownTo(pc, outcome)
        /\ retries' \in [Jobs -> 0..MaxRetries] /\ told' = told
    BY <2>1, Raised
  <2>3. Shape'
    BY <1>1, <2>2 DEF Shape, Unnamed
  <2>. QED
    BY <2>2, <2>3, QuietStep
<1>. QED
  BY <1>1, <1>2, <1>3 DEF Shape

(* The youngest run is one of the table's, and has no id while in          *)
(* progress: there is never anything to poll for.                          *)
LEMMA NothingToPoll == IInv => ~Pollable(Latest)
<1>. SUFFICES ASSUME IInv PROVE ~Pollable(Latest)
  OBVIOUS
<1>1. runs \in Seq(PushRuns) /\ Unnamed
  BY Parts DEF Shape
<1>2. CASE runs = <<>>
  BY <1>2 DEF Latest, NoRun, Run, Pollable
<1>3. CASE runs # <<>>
  <2>1. Len(runs) \in DOMAIN runs
    BY <1>1, <1>3
  <2>. QED
    BY <1>1, <1>3, <2>1 DEF Latest, Pollable, Unnamed
<1>. QED
  BY <1>2, <1>3

LEMMA LookupStep ==
    ASSUME IInv, NEW j \in Jobs, Lookup(j)
    PROVE  IInv'
<1>. USE DEF Lookup
<1>1. Shape /\ ControlOK /\ ~Pollable(Latest)
  BY Parts, NothingToPoll
<1>2. CASE Latest.status = "PUSHED"
  <2>1. runs' = runs /\ Return(j, "PUSHED")
    BY <1>1, <1>2
  <2>2. /\ ControlOK'
        /\ OwedBy(pc', posts') \subseteq OwedBy(pc, posts)
        /\ KnownTo(pc', outcome') \subseteq KnownTo(pc, outcome)
        /\ told' \in [Jobs -> {"none", "PUSHED", "DEAD_LETTER"}] /\ retries' = retries
    BY <2>1, Returned
  <2>3. Shape'
    BY <1>1, <2>1, <2>2 DEF Shape, Unnamed
  <2>. QED
    BY <2>1, <2>2, <2>3, QuietStep
<1>3. CASE Latest.status # "PUSHED"
  <2>1. pc' = [pc EXCEPT ![j] = "announce"] /\ UNCHANGED <<runs, posts, outcome, retries, told>>
    BY <1>1, <1>3
  <2>2. /\ ControlOK' /\ KnownTo(pc', outcome') \subseteq KnownTo(pc, outcome)
        /\ OwedBy(pc', posts') \subseteq OwedBy(pc, posts)
    BY <1>1, <2>1, Moved
  <2>3. Shape'
    BY <1>1, <2>1 DEF Shape, Unnamed
  <2>. QED
    BY <2>1, <2>2, <2>3, QuietStep
<1>. QED
  BY <1>2, <1>3

(* A row is appended to the runs.                                          *)
LEMMA AppendRun ==
    ASSUME NEW s \in Seq(PushRuns), NEW row \in PushRuns,
           \A k \in DOMAIN s : s[k].status = "PUSH_IN_PROGRESS" => s[k].id = "none",
           row.status = "PUSH_IN_PROGRESS" => row.id = "none"
    PROVE  /\ Append(s, row) \in Seq(PushRuns)
           /\ \A k \in DOMAIN Append(s, row) :
                Append(s, row)[k].status = "PUSH_IN_PROGRESS" => Append(s, row)[k].id = "none"
<1> DEFINE t == Append(s, row)
<1>1. /\ t \in Seq(PushRuns)
      /\ DOMAIN s = 1..Len(s) /\ DOMAIN t = 1..(Len(s) + 1) /\ Len(s) \in Nat
      /\ \A k \in 1..Len(s) : t[k] = s[k]
      /\ t[Len(s) + 1] = row
  OBVIOUS
<1>. HIDE DEF t
<1>2. \A k \in DOMAIN t : t[k].status = "PUSH_IN_PROGRESS" => t[k].id = "none"
  BY <1>1
<1>. QED
  BY <1>1, <1>2 DEF t

(* The mark pays for the requests of its attempt.                          *)
LEMMA AnnounceStep ==
    ASSUME IInv, NEW j \in Jobs, Announce(j)
    PROVE  IInv'
<1>. USE DEF Announce
<1> DEFINE row == Run("PUSH_IN_PROGRESS", "none")
<1>1. Shape /\ ControlOK /\ runs \in Seq(PushRuns)
  BY Parts DEF Shape
<1>2. row \in PushRuns /\ row \in Announced /\ row \notin InErp /\ row.id = "none"
  BY DEF Run, PushRuns, Statuses, Ids, Announced, InErp
<1>3. runs' = Append(runs, row)
  OBVIOUS
<1>. HIDE DEF row
<1>4. Marks(runs') = Marks(runs) + 1 /\ Evident(runs') = Evident(runs) + 0
  BY <1>1, <1>2, <1>3, AppendMarked DEF Marks, Evident
<1>5. /\ ControlOK' /\ KnownTo(pc', outcome') \subseteq KnownTo(pc, outcome)
      /\ OwedBy(pc', posts') \subseteq OwedBy(pc, posts) \cup ({j} \X (0..(MaxPosts - 1)))
  BY <1>1, Moved
<1>6. Owed(pc', posts') <= Owed(pc, posts) + MaxPosts /\ Known(pc', outcome') <= Known(pc, outcome)
  BY <1>5, OwedMore, KnownNoMore DEF Owed, Known
<1>7. Shape'
  BY <1>1, <1>2, <1>3, AppendRun DEF Shape, Unnamed
<1>8. MaxPosts * Marks(runs') = MaxPosts * Marks(runs) + MaxPosts
  BY <1>4, Bounds, PushAssumption
<1>9. copies + Owed(pc', posts') <= MaxPosts * Marks(runs')
  <2> DEFINE p == MaxPosts * Marks(runs)
  <2>1. p \in Nat /\ copies \in Nat /\ copies + Owed(pc, posts) <= p /\ Owed(pc, posts) \in Nat
    BY Bounds
  <2>2. Owed(pc', posts') \in Nat /\ MaxPosts \in Nat
    BY OwedKnownAfter, PushAssumption
  <2>3. MaxPosts * Marks(runs') = p + MaxPosts
    BY <1>8
  <2>. HIDE DEF p
  <2>4. copies + Owed(pc', posts') <= p + MaxPosts
    BY <1>6, <2>1, <2>2
  <2>. QED
    BY <2>3, <2>4
<1>10. Evident(runs') + Known(pc', outcome') <= copies
  BY <1>4, <1>6, Bounds, OwedKnownAfter
<1>. QED
  BY <1>5, <1>7, <1>9, <1>10, Bounds, BoundsAfter

(* The connection is found or not, or the push is simulated: no request.   *)
LEMMA DispatchStep ==
    ASSUME IInv, NEW j \in Jobs,
           Dispatch(j) \/ Simulate(j) \/ DispatchRaises(j) \/ DispatchRefuses(j)
    PROVE  IInv'
<1>1. Shape /\ ControlOK
  BY Parts
<1>2. pc[j] = "dispatch" /\ UNCHANGED <<runs, copies, gates, crashes>>
  BY DEF Dispatch, Simulate, DispatchRaises, DispatchRefuses
<1>3. /\ ControlOK'
      /\ OwedBy(pc', posts') \subseteq OwedBy(pc, posts)
      /\ KnownTo(pc', outcome') \subseteq KnownTo(pc, outcome)
      /\ retries' \in [Jobs -> 0..MaxRetries] /\ told' = told
  <2>1. CASE Dispatch(j)
    <3>1. pc' = [pc EXCEPT ![j] = "post"] /\ UNCHANGED <<posts, outcome, retries, told>>
      BY <2>1 DEF Dispatch
    <3>. QED
      BY <1>1, <1>2, <3>1, Moved DEF Shape
  <2>2. CASE Simulate(j) \/ DispatchRefuses(j)
    <3>1. PICK result \in {"sim", "HARD"} : Result(j, result)
      BY <2>2 DEF Simulate, DispatchRefuses
    <3>2. UNCHANGED <<retries, told>>
      BY <3>1 DEF Result
    <3>. QED
      BY <1>1, <1>2, <3>1, <3>2, Resulted DEF Shape
  <2>3. CASE DispatchRaises(j)
    BY <2>3, Raised DEF DispatchRaises
  <2>. QED
    BY <2>1, <2>2, <2>3
<1>4. Shape'
  BY <1>1, <1>2, <1>3 DEF Shape, Unnamed
<1>. QED
  BY <1>2, <1>3, <1>4, QuietStep

(* The attempt ends with a request: it succeeds, fails or raises.          *)
LEMMA LastRequestStep ==
    ASSUME IInv, NEW j \in Jobs, pc[j] = "post", UNCHANGED <<runs, gates, crashes>>,
           \/ \E created \in BOOLEAN, result \in {"SOFT", "HARD"} : Created(created) /\ Result(j, result)
           \/ Created(TRUE) /\ Result(j, "erp")
           \/ \E created \in BOOLEAN : Created(created) /\ Raise(j)
    PROVE  IInv'
<1>1. Shape /\ ControlOK
  BY Parts
<1>2. <<j, posts[j]>> \in OwedBy(pc, posts)
  BY <1>1, NextIsOwed
<1>3. copies' \in {copies, copies + 1}
  BY DEF Created
<1>4. CASE \E result \in {"SOFT", "HARD"} : Result(j, result)
  <2>1. PICK result \in {"SOFT", "HARD"} : Result(j, result)
    BY <1>4
  <2>2. /\ ControlOK'
        /\ OwedBy(pc', posts') \subseteq {x \in OwedBy(pc, posts) : x[1] # j}
        /\ KnownTo(pc', outcome') \subseteq KnownTo(pc, outcome)
    BY <1>1, <2>1, Resulted
  <2>3. Shape'
    BY <1>1, <2>1 DEF Shape, Unnamed, Result
  <2>. QED
    BY <1>2, <1>3, <2>2, <2>3, RequestStep
<1>5. CASE Created(TRUE) /\ Result(j, "erp")
  <2>1. /\ ControlOK'
        /\ OwedBy(pc', posts') \subseteq {x \in OwedBy(pc, posts) : x[1] # j}
        /\ KnownTo(pc', outcome') \subseteq KnownTo(pc, outcome) \cup {j}
    BY <1>1, <1>5, Resulted
  <2>2. Shape'
    BY <1>1, <1>5 DEF Shape, Unnamed, Result
  <2>3. copies' = copies + 1
    BY <1>5 DEF Created
  <2>. QED
    BY <1>2, <2>1, <2>2, <2>3, RequestStep
<1>6. CASE Raise(j)
  <2>1. /\ ControlOK'
        /\ OwedBy(pc', posts') \subseteq {x \in OwedBy(pc, posts) : x[1] # j}
        /\ KnownTo(pc', outcome') \subseteq KnownTo(pc, outcome)
        /\ retries' \in [Jobs -> 0..MaxRetries] /\ told' = told
    BY <1>6, Raised
  <2>2. Shape'
    BY <1>1, <2>1 DEF Shape, Unnamed
  <2>. QED
    BY <1>2, <1>3, <2>1, <2>2, RequestStep
<1>. QED
  BY <1>4, <1>5, <1>6

(* with_backoff goes on to the next of its requests.                       *)
LEMMA RepeatedStep ==
    ASSUME IInv, NEW j \in Jobs, NEW created \in BOOLEAN, RetryableStatus(j, created),
           posts[j] + 1 < MaxPosts
    PROVE  IInv'
<1>. USE DEF RetryableStatus
<1>1. Shape /\ ControlOK /\ MaxPosts \in Nat
  BY Parts, PushAssumption
<1>2. <<j, posts[j]>> \in OwedBy(pc, posts)
  BY <1>1, NextIsOwed
<1>3. copies' \in {copies, copies + 1}
  BY DEF Created
<1>4. /\ posts' = [posts EXCEPT ![j] = posts[j] + 1]
      /\ UNCHANGED <<runs, gates, crashes, pc, outcome, retries, told>>
  OBVIOUS
<1>5. posts[j] \in 0..(MaxPosts - 1) /\ posts[j] + 1 \in 0..(MaxPosts - 1)
  BY <1>1 DEF ControlOK
<1>6. posts'[j] = posts[j] + 1 /\ \A k \in Jobs \ {j} : posts'[k] = posts[k]
  BY <1>1, <1>4 DEF ControlOK
<1>7. ControlOK'
  BY <1>1, <1>4, <1>5, <1>6 DEF ControlOK, CallOK
<1>8. Shape'
  BY <1>1, <1>4 DEF Shape, Unnamed
<1>9. OwedBy(pc', posts') \subseteq OwedBy(pc, posts)
  <2>. SUFFICES ASSUME NEW x \in OwedBy(pc', posts') PROVE x \in OwedBy(pc, posts)
    OBVIOUS
  <2>1. /\ x \in Jobs \X (0..(MaxPosts - 1)) /\ x[1] \in Jobs /\ x[2] \in 0..(MaxPosts - 1)
        /\ pc[x[1]] \in {"dispatch", "post"} /\ x[2] >= posts'[x[1]]
    BY <1>4 DEF OwedBy
  <2>2. x[2] >= posts[x[1]]
    <3>1. CASE x[1] = j
      BY <1>5, <1>6, <2>1, <3>1
    <3>2. CASE x[1] # j
      BY <1>6, <2>1, <3>2
    <3>. QED
      BY <3>1, <3>2
  <2>. QED
    BY <2>1, <2>2 DEF OwedBy
<1>10. <<j, posts[j]>> \notin OwedBy(pc', posts')
  BY <1>5, <1>6 DEF OwedBy
<1>11. KnownTo(pc', outcome') \subseteq KnownTo(pc, outcome)
  BY <1>4 DEF KnownTo
<1>. QED
  BY <1>2, <1>3, <1>4, <1>7, <1>8, <1>9, <1>10, <1>11, RequestStep

LEMMA PostStep ==
    ASSUME IInv, NEW j \in Jobs,
           \/ \E created \in BOOLEAN :
                \/ RequestError(j, created)
                \/ RetryableStatus(j, created)
                \/ PostRaises(j, created)
                \/ Rejected(j, created)
           \/ Accepted(j)
    PROVE  IInv'
<1>1. ASSUME NEW created \in BOOLEAN, RequestError(j, created) PROVE IInv'
  BY <1>1, LastRequestStep DEF RequestError
<1>2. ASSUME NEW created \in BOOLEAN, RetryableStatus(j, created) PROVE IInv'
  <2>1. CASE posts[j] + 1 < MaxPosts
    BY <1>2, <2>1, RepeatedStep
  <2>2. CASE ~(posts[j] + 1 < MaxPosts)
    BY <1>2, <2>2, LastRequestStep DEF RetryableStatus
  <2>. QED
    BY <2>1, <2>2
<1>3. ASSUME NEW created \in BOOLEAN, PostRaises(j, created) PROVE IInv'
  BY <1>3, LastRequestStep DEF PostRaises
<1>4. ASSUME NEW created \in BOOLEAN, Rejected(j, created) PROVE IInv'
  BY <1>4, LastRequestStep DEF Rejected
<1>5. CASE Accepted(j)
  BY <1>5, LastRequestStep DEF Accepted
<1>. QED
  BY <1>1, <1>2, <1>3, <1>4, <1>5

(* The answer that was known is recorded: it moves from one count to the   *)
(* other.                                                                  *)
LEMMA RecordStep ==
    ASSUME IInv, NEW j \in Jobs, Record(j)
    PROVE  IInv'
<1>. USE DEF Record
<1>1. Shape /\ ControlOK /\ runs \in Seq(PushRuns) /\ Unnamed
  BY Parts DEF Shape
<1>2. pc[j] = "record" /\ outcome[j] \in {"erp", "sim", "HARD", "SOFT"}
  BY <1>1 DEF ControlOK, CallOK
<1>3. /\ UNCHANGED <<copies, gates, crashes>>
      /\ ControlOK'
      /\ OwedBy(pc', posts') \subseteq OwedBy(pc, posts)
      /\ KnownTo(pc', outcome') \subseteq KnownTo(pc, outcome) \ {j}
      /\ retries' \in [Jobs -> 0..MaxRetries]
      /\ told' \in [Jobs -> {"none", "PUSHED", "DEAD_LETTER"}]
  <2>1. Raise(j) \/ Return(j, "DEAD_LETTER") \/ Return(j, "PUSHED")
    BY <1>2
  <2>. QED
    BY <1>1, <2>1, Raised, Returned DEF Shape
<1> DEFINE pushed == Run("PUSHED", outcome[j])
           failed == Run("PUSH_FAILED", "none")
           dead == Run("DEAD_LETTER", "none")
<1>4. /\ failed \in PushRuns /\ failed \notin Announced /\ failed \notin InErp
      /\ failed.status # "PUSH_IN_PROGRESS"
  BY DEF Run, PushRuns, Statuses, Ids, Announced, InErp
<1>5. /\ dead \in PushRuns /\ dead \notin Announced /\ dead \notin InErp
      /\ dead.status # "PUSH_IN_PROGRESS"
  BY DEF Run, PushRuns, Statuses, Ids, Announced, InErp
<1>6. ASSUME outcome[j] \in {"erp", "sim"}
      PROVE  /\ pushed \in PushRuns /\ pushed \notin Announced
             /\ pushed \in InErp <=> outcome[j] = "erp"
             /\ pushed.status # "PUSH_IN_PROGRESS"
  BY <1>6 DEF Run, PushRuns, Statuses, Ids, Announced, InErp
<1>7. /\ outcome[j] \in {"erp", "sim"} => runs' = runs \o <<pushed>>
      /\ outcome[j] = "HARD" => runs' = runs \o <<failed, dead>>
      /\ outcome[j] = "SOFT" => runs' = runs \o <<failed>>
  BY DEF RunsOf
<1>. HIDE DEF pushed, failed, dead
<1>8. CASE outcome[j] \in {"erp", "sim"}
  <2>1. runs' = Append(runs, pushed)
    BY <1>1, <1>6, <1>7, <1>8, AppendedRuns
  <2>2. /\ Marks(runs') = Marks(runs) + 0
        /\ Evident(runs') = Evident(runs) + IF outcome[j] = "erp" THEN 1 ELSE 0
    BY <1>1, <1>6, <1>8, <2>1, AppendMarked DEF Marks, Evident
  <2>3. Shape'
    <3>1. runs' \in Seq(PushRuns) /\ Unnamed'
      BY <1>1, <1>6, <1>8, <2>1, AppendRun DEF Unnamed
    <3>. QED
      BY <1>1, <1>3, <3>1 DEF Shape
  <2>4. CASE outcome[j] = "erp"
    <3>1. j \in KnownTo(pc, outcome)
      BY <1>2, <2>4 DEF KnownTo
    <3>2. Known(pc', outcome') + 1 <= Known(pc, outcome) /\ Owed(pc', posts') <= Owed(pc, posts)
      BY <1>3, <3>1, KnownOneLess, OwedNoMore DEF Known, Owed
    <3>3. Marks(runs') = Marks(runs) /\ Evident(runs') = Evident(runs) + 1
      BY <2>2, <2>4, Bounds
    <3>4. copies + Owed(pc', posts') <= MaxPosts * Marks(runs)
      BY <3>2, Bounds, OwedKnownAfter
    <3>5. Evident(runs') + Known(pc', outcome') <= copies
      BY <3>2, <3>3, Bounds, OwedKnownAfter
    <3>. QED
      BY <1>3, <2>3, <3>3, <3>4, <3>5, Bounds, BoundsAfter
  <2>5. CASE outcome[j] # "erp"
    <3>1. Marks(runs') = Marks(runs) /\ Evident(runs') = Evident(runs)
      BY <2>2, <2>5, Bounds
    <3>. QED
      BY <1>3, <2>3, <3>1, QuietStep
  <2>. QED
    BY <2>4, <2>5
<1>9. CASE outcome[j] \in {"HARD", "SOFT"}
  <2> DEFINE first == Append(runs, failed)
  <2>1. runs' = first \/ runs' = Append(first, dead)
    BY <1>1, <1>4, <1>5, <1>7, <1>9, AppendedRuns
  <2>2. /\ first \in Seq(PushRuns)
        /\ \A k \in DOMAIN first : first[k].status = "PUSH_IN_PROGRESS" => first[k].id = "none"
    BY <1>1, <1>4, AppendRun DEF Unnamed
  <2>3. Marks(first) = Marks(runs) /\ Evident(first) = Evident(runs)
    <3>1. Marks(first) = Marks(runs) + 0 /\ Evident(first) = Evident(runs) + 0
      BY <1>1, <1>4, AppendMarked DEF Marks, Evident
    <3>. QED
      BY <3>1, Bounds
  <2>. HIDE DEF first
  <2>4. /\ Append(first, dead) \in Seq(PushRuns)
        /\ \A k \in DOMAIN Append(first, dead) :
             Append(first, dead)[k].status = "PUSH_IN_PROGRESS" => Append(first, dead)[k].id = "none"
    BY <1>5, <2>2, AppendRun
  <2>5. Marks(Append(first, dead)) = Marks(runs) /\ Evident(Append(first, dead)) = Evident(runs)
    <3>1. /\ Marks(Append(first, dead)) = Marks(first) + 0
          /\ Evident(Append(first, dead)) = Evident(first) + 0
      BY <1>5, <2>2, AppendMarked DEF Marks, Evident
    <3>. QED
      BY <2>3, <3>1, Bounds
  <2>6. runs' \in Seq(PushRuns) /\ Unnamed'
    BY <2>1, <2>2, <2>4 DEF Unnamed
  <2>7. Shape'
    BY <1>1, <1>3, <2>6 DEF Shape
  <2>8. Marks(runs') = Marks(runs) /\ Evident(runs') = Evident(runs)
    BY <2>1, <2>3, <2>5
  <2>. QED
    BY <1>3, <2>7, <2>8, QuietStep
<1>. QED
  BY <1>2, <1>8, <1>9

LEMMA CrashStep ==
    ASSUME IInv, NEW j \in Jobs, Crash(j)
    PROVE  IInv'
<1>. USE DEF Crash
<1>1. Shape /\ ControlOK
  BY Parts
<1>2. (IF j \in Tasks THEN "queued" ELSE "failed") \in Idle
  BY DEF Idle
<1>3. /\ ControlOK'
      /\ OwedBy(pc', posts') \subseteq OwedBy(pc, posts)
      /\ KnownTo(pc', outcome') \subseteq KnownTo(pc, outcome)
  BY <1>1, <1>2, Left
<1>4. Shape'
  BY <1>1, PushAssumption DEF Shape, Unnamed
<1>. QED
  BY <1>3, <1>4, QuietStep

LEMMA IdleStep ==
    ASSUME IInv, GatesChange \/ Finished \/ UNCHANGED vars
    PROVE  IInv'
<1>1. Shape /\ ControlOK
  BY Parts
<1>2. UNCHANGED <<runs, copies, pc, posts, outcome, retries, told, crashes>> /\ gates' \in BOOLEAN
  BY <1>1 DEF GatesChange, Finished, vars, Shape
<1>3. Shape' /\ ControlOK'
  BY <1>1, <1>2 DEF Shape, Unnamed, ControlOK, CallOK
<1>4. /\ OwedBy(pc', posts') \subseteq OwedBy(pc, posts)
      /\ KnownTo(pc', outcome') \subseteq KnownTo(pc, outcome)
      /\ Marks(runs') = Marks(runs) /\ Evident(runs') = Evident(runs)
  BY <1>2
<1>. QED
  BY <1>2, <1>3, <1>4, QuietStep

--------------------------------------------------------------------------------
LEMMA InitIInv == Init => IInv
<1>. SUFFICES ASSUME Init PROVE IInv
  OBVIOUS
<1>. USE DEF Init
<1>1. Shape
  BY PushAssumption DEF Shape, Unnamed
<1>2. ControlOK
  BY PushAssumption DEF ControlOK, CallOK, Places, Idle
<1>3. OwedBy(pc, posts) = {} /\ KnownTo(pc, outcome) = {}
  <2>1. \A j \in Jobs : pc[j] = "queued"
    OBVIOUS
  <2>. QED
    BY <2>1 DEF OwedBy, KnownTo
<1>4. Marked(runs, Announced) = {} /\ Marked(runs, InErp) = {}
  BY DEF Marked
<1>5. Budget /\ Evidence
  <2>1. Cardinality({}) = 0 /\ copies = 0 /\ MaxPosts \in Nat
    BY FS_EmptySet, PushAssumption
  <2>2. 0 + 0 <= MaxPosts * 0 /\ 0 + 0 <= 0
    BY <2>1
  <2>. QED
    BY <1>3, <1>4, <2>1, <2>2, Zenon DEF Budget, Evidence
<1>. QED
  BY <1>1, <1>2, <1>5, Parts

LEMMA StepIInv == IInv /\ [Next]_vars => IInv'
<1>. SUFFICES ASSUME IInv, [Next]_vars PROVE IInv'
  OBVIOUS
<1>1. ASSUME NEW j \in Jobs, Step(j) PROVE IInv'
  BY <1>1, GatesStep, LookupStep, AnnounceStep, DispatchStep, PostStep, RecordStep DEF Step
<1>. QED
  BY <1>1, CrashStep, IdleStep DEF Next

(* The invariant above holds for any calls, retries, posts and crashes.    *)
THEOREM PushInvariant == Spec => []IInv
<1>1. Init => IInv
  BY InitIInv
<1>2. IInv /\ [Next]_vars => IInv'
  BY StepIInv
<1>. QED
  BY <1>1, <1>2, PTL DEF Spec

(* Every variable has its type; a task is retried MaxRetries times at      *)
(* most, and a journal sent MaxPosts times in one attempt                  *)
(* (push_journal_task, with_backoff).                                      *)
THEOREM PushTypeOK == Spec => []TypeOK
<1>1. IInv => TypeOK
  BY DEF IInv
<1>. QED
  BY <1>1, PushInvariant, PTL

(* The ERP holds no journal beyond what committed marks announce           *)
(* (execute_push, with_backoff).                                           *)
THEOREM PushCopiesAreAnnounced == Spec => []CopiesAreAnnounced
<1>1. IInv => CopiesAreAnnounced
  <2>. SUFFICES ASSUME IInv PROVE CopiesAreAnnounced
    OBVIOUS
  <2>1. runs \in Seq(PushRuns)
    BY Parts DEF Shape
  <2>2. Rows({"PUSH_IN_PROGRESS"}) = Marked(runs, Announced)
    BY <2>1 DEF Rows, Marked, Announced
  <2>3. Attempts = Marks(runs)
    BY <2>2 DEF Attempts, Marks
  <2>4. copies <= MaxPosts * Marks(runs)
    BY Bounds
  <2>. QED
    BY <2>3, <2>4 DEF CopiesAreAnnounced
<1>. QED
  BY <1>1, PushInvariant, PTL

(* Every run PUSHED with an id of the ERP stands for a journal of its own  *)
(* there (execute_push).                                                   *)
THEOREM PushPushedRunsAreInErp == Spec => []PushedRunsAreInErp
<1>1. IInv => PushedRunsAreInErp
  <2>. SUFFICES ASSUME IInv PROVE PushedRunsAreInErp
    OBVIOUS
  <2>1. runs \in Seq(PushRuns)
    BY Parts DEF Shape
  <2>2. {k \in Rows({"PUSHED"}) : runs[k].id = "erp"} = Marked(runs, InErp)
    <3>1. ASSUME NEW k \in DOMAIN runs
          PROVE  runs[k].status = "PUSHED" /\ runs[k].id = "erp" <=> runs[k] = Run("PUSHED", "erp")
      <4>1. runs[k] \in PushRuns
        BY <2>1
      <4>2. runs[k] = [status |-> runs[k].status, id |-> runs[k].id]
        BY <4>1 DEF PushRuns
      <4>. QED
        BY <4>2 DEF Run
    <3>. QED
      BY <3>1 DEF Rows, Marked, InErp
  <2>3. Evident(runs) <= copies
    BY Bounds
  <2>. QED
    BY <2>2, <2>3 DEF PushedRunsAreInErp, Evident
<1>. QED
  BY <1>1, PushInvariant, PTL

(* A call that is at the gates or at the lookup, once the push is over,    *)
(* finds the run that says so.                                             *)
LEMMA SettledStep ==
    ASSUME IInv, Settled, [Next]_vars
    PROVE  copies' = copies /\ Settled'
<1>1. pc \in [Jobs -> Places] /\ \A j \in Jobs : pc[j] \in Idle \cup {"lookup"}
  BY Parts DEF ControlOK, Settled
<1>2. ASSUME UNCHANGED <<runs, copies>>, NEW j \in Jobs, NEW where \in Idle \cup {"lookup"},
             pc' = [pc EXCEPT ![j] = where]
      PROVE  copies' = copies /\ Settled'
  BY <1>1, <1>2 DEF Settled, Latest
<1>3. ASSUME UNCHANGED <<runs, copies, pc>> PROVE copies' = copies /\ Settled'
  BY <1>3 DEF Settled, Latest
<1>4. ASSUME NEW j \in Jobs, Step(j) PROVE copies' = copies /\ Settled'
  <2>1. pc[j] \notin {"announce", "dispatch", "post", "record"}
    BY <1>1 DEF Idle
  <2>2. run_all_push_gates(j) \/ Lookup(j)
    BY <1>4, <2>1 DEF Step, Announce, Dispatch, Simulate, DispatchRaises, DispatchRefuses,
       RequestError, RetryableStatus, PostRaises, Rejected, Accepted, Record
  <2>3. CASE run_all_push_gates(j)
    <3>1. /\ UNCHANGED <<runs, copies>>
          /\ \E where \in Idle \cup {"lookup"} : pc' = [pc EXCEPT ![j] = where]
      BY <2>3 DEF run_all_push_gates, Raise, Leave, Idle
    <3>. QED
      BY <1>2, <3>1
  <2>4. CASE Lookup(j)
    <3>1. Latest.status = "PUSHED" /\ ~Pollable(Latest)
      BY DEF Settled, Pollable
    <3>2. runs' = runs /\ copies' = copies /\ pc' = [pc EXCEPT ![j] = "done"]
      BY <2>4, <3>1 DEF Lookup, Return, Leave
    <3>. QED
      BY <1>2, <3>2 DEF Idle
  <2>. QED
    BY <2>2, <2>3, <2>4
<1>5. ASSUME NEW j \in Jobs, Crash(j) PROVE copies' = copies /\ Settled'
  <2>1. /\ UNCHANGED <<runs, copies>>
        /\ \E where \in Idle \cup {"lookup"} : pc' = [pc EXCEPT ![j] = where]
    BY <1>5 DEF Crash, Leave, Idle
  <2>. QED
    BY <1>2, <2>1
<1>6. CASE GatesChange \/ Finished \/ UNCHANGED vars
  BY <1>3, <1>6 DEF GatesChange, Finished, vars
<1>. QED
  BY <1>4, <1>5, <1>6 DEF Next

(* Once the push is over it stays over, and the ERP is not called again    *)
(* (the lookup of execute_push).                                           *)
THEOREM PushSettledIsFinal == Spec => SettledIsFinal
<1> DEFINE Final == Settled => copies' = copies /\ Settled'
<1>1. IInv /\ [Next]_vars => [Final]_vars
  BY SettledStep
<1>2. SettledIsFinal <=> [][Final]_vars
  BY DEF SettledIsFinal
<1>. HIDE DEF Final
<1>. QED
  BY <1>1, <1>2, PushInvariant, PTL DEF Spec

================================================================================
