-------------------------- MODULE GovReports_proofs --------------------------
(* Theorems about GovReports, for every queue, pool and set of reports *)
EXTENDS GovReports, FiniteSetTheorems, TLAPS

-----------------------------------------------------------------------------
(* The inductive invariant *)

\* The memberships of the type invariant.
Types ==
  /\ status \in [Report -> Status] /\ version \in [Report -> Nat] /\ artifact \subseteq Report
  /\ pc \in [Request -> Step]
  /\ conn \in [Request -> Conn \cup {Nobody}] /\ holder \in [Conn -> Request \cup {Nobody}]
  /\ home \in [Report -> Conn \cup {Nobody}] /\ pending \in [Request -> SUBSET Write]
  /\ broken \subseteq Request
  /\ reviewing \subseteq Report /\ seen \in [Report -> SUBSET Report]
  /\ raced \cup astray \subseteq Report /\ crossed \in BOOLEAN
  /\ queue \in Seq(Report) /\ running \in Nat

Jobs    == {r \in Report : pc[r] \in JobStep}
Waiting == {r \in Report : pc[r] = "waiting"}
Asked   == {r \in Report : pc[r] # "idle"}

\* The queue holds the waiting jobs once each, a slot is busy for every job that
\* runs, and both are within their bounds.
QueueHolds ==
  /\ Len(queue) <= MaxPending
  /\ {queue[i] : i \in 1 .. Len(queue)} = Waiting
  /\ \A i, j \in 1 .. Len(queue) : queue[i] = queue[j] => i = j
  /\ IsFiniteSet(Asked) /\ running = Cardinality(Jobs) /\ running <= MaxConcurrent
  /\ \A r \in Report : pc[r] \in JobStep => home[r] \in Conn
  /\ \A r \in Report : pc[r] \in {"idle", "waiting"} => home[r] = Nobody

\* A connection is held by the request whose it is; a transaction that is over
\* has written nothing.
PoolHolds ==
  /\ \A c \in Conn : holder[c] # Nobody => conn[holder[c]] = c
  /\ \A q \in Request : pc[q] = "idle" => conn[q] = Nobody
  /\ \A q \in Request : q \in broken \/ pending[q] # {} => Open(q)
  /\ \A v \in Visitor : pending[v] = {} /\ (pc[v] = "waiting" => Open(v))

Drafted(u, r)  == <<"draft", r>> \in pending[u]
Unstored(r)    == status[r] = "NONE" /\ \A u \in Request : ~Drafted(u, r)

\* What a transaction has written of a report, it wrote in the order of the job
\* and over the home connection of the job.
WritesHold ==
  /\ \A r \in Report : pc[r] \in {"idle", "waiting", "read"} => version[r] = 0
  /\ \A r \in Report : pc[r] = "insert" => version[r] # 0
  /\ \A r \in Report : pc[r] \in {"idle", "waiting", "read", "insert"} => Unstored(r)
  /\ \A r \in Report : status[r] # "NONE" => version[r] # 0
  /\ \A u \in Request, r \in Report :
       /\ Drafted(u, r) => status[r] = "NONE" /\ version[r] # 0 /\ home[r] = conn[u]
       /\ <<"ready", r>> \in pending[u] => status[r] # "NONE" \/ Drafted(u, r)

\* A job whose statements all went to its own transaction has its artifact there
\* when it records it.
ArtifactsHold ==
  /\ \A r \in Report \ astray :
       /\ pc[r] = "record" /\ Open(r) => <<"artifact", r>> \in pending[r]
       /\ \A u \in Request : <<"ready", r>> \in pending[u] => <<"artifact", r>> \in pending[u]
  /\ \A r \in reviewing : status[r] \notin {"NONE", "VALIDATED"}
  /\ ReviewedHasArtifact

\* A report that did not race has a number above all that were stored, and one
\* unlike those its transaction has written.
VersionsHold ==
  /\ VersionsDiffer
  /\ \A q \in Report, r \in Report \ raced :
       status[q] # "NONE" /\ status[r] = "NONE" /\ version[r] # 0 => version[q] < version[r]
  /\ \A u \in Request, q \in Report \ raced, r \in Report \ raced :
       /\ q # r /\ Drafted(u, q)
       /\ Drafted(u, r) \/ (pc[r] = "insert" /\ home[r] = conn[u])
       => version[q] # version[r]

\* Until two approvals overlap each finds the approved report there is.
ApprovalsHold ==
  crossed \/ (/\ \A q, r \in Approved : q = r
              /\ \A r \in reviewing : Approved \subseteq seen[r])

ReportsInv ==
  /\ Types /\ QueueHolds /\ PoolHolds /\ WritesHold /\ ArtifactsHold /\ VersionsHold
  /\ ApprovalsHold

-----------------------------------------------------------------------------
(* Finite sets of reports, and the queue *)

\* Of finitely many reports one has the greatest version.
LEMMA LatestExists ==
  ASSUME version \in [Report -> Nat], NEW A \in SUBSET Report, IsFiniteSet(A), A # {}
  PROVE  \E q \in A : \A p \in A : version[p] <= version[q]
<1> DEFINE HasLatest(B) == \E q \in B : \A p \in B : version[p] <= version[q]
           Bad == {B \in SUBSET Report : IsFiniteSet(B) /\ B # {} /\ ~HasLatest(B)}
<1>1. SUFFICES ASSUME Bad # {} PROVE FALSE
  <2>1. A \in Bad \/ HasLatest(A)
    OBVIOUS
  <2>2. QED
    BY <2>1
<1>2. PICK B \in Bad : \A C \in Bad : <<C, B>> \notin StrictSubsetOrdering(Report)
  <2>1. Bad \subseteq FiniteSubsetsOf(Report)
    BY DEF FiniteSubsetsOf
  <2>2. IsWellFoundedOn(StrictSubsetOrdering(Report), FiniteSubsetsOf(Report))
    BY FS_StrictSubsetOrderingWellFounded
  <2> HIDE DEF Bad
  <2>3. QED
    BY <1>1, <2>1, <2>2, WFMin
<1>3. PICK x \in B : TRUE
  OBVIOUS
<1>4. B \subseteq Report /\ IsFiniteSet(B) /\ ~HasLatest(B)
  OBVIOUS
<1>5. B \ {x} \notin Bad
  <2>1. <<B \ {x}, B>> \in StrictSubsetOrdering(Report)
    BY <1>3, <1>4 DEF StrictSubsetOrdering
  <2>2. QED
    BY <1>2, <2>1
<1>6. IsFiniteSet(B \ {x})
  BY <1>4, FS_RemoveElement
<1>7. B \ {x} = {} \/ HasLatest(B \ {x})
  BY <1>4, <1>5, <1>6
<1>8. HasLatest(B)
  <2>1. CASE B \ {x} = {}
    BY <1>3, <1>4, <2>1
  <2>2. CASE HasLatest(B \ {x})
    <3>1. PICK y \in B \ {x} : \A p \in B \ {x} : version[p] <= version[y]
      BY <2>2
    <3>2. \A p \in B : version[p] \in Nat
      BY <1>4
    <3>3. CASE version[x] <= version[y]
      BY <3>1, <3>3
    <3>4. CASE ~(version[x] <= version[y])
      <4>1. \A p \in B : version[p] <= version[x]
        BY <1>3, <3>1, <3>2, <3>4
      <4>2. QED
        BY <1>3, <4>1
    <3>5. QED
      BY <3>3, <3>4
  <2>3. QED
    BY <1>7, <2>1, <2>2
<1>9. QED
  BY <1>4, <1>8

\* The latest version is above every version that is visible.
LEMMA LatestFacts ==
  ASSUME version \in [Report -> Nat], NEW A \in SUBSET Report, IsFiniteSet(A)
  PROVE  Latest(A) \in Nat /\ \A q \in A : version[q] <= Latest(A)
<1>1. CASE A = {}
  BY <1>1 DEF Latest
<1>2. CASE A # {}
  <2>1. PICK q \in A : \A p \in A : version[p] <= version[q]
    BY <1>2, LatestExists
  <2> DEFINE V == {version[p] : p \in A}
  <2>2. version[q] \in V /\ \A x \in V : version[q] >= x /\ x \in Nat
    BY <2>1
  <2>3. Max(V) \in V /\ \A x \in V : Max(V) >= x
    BY <2>2 DEF Max
  <2>4. \A p \in A : version[p] \in V /\ version[p] \in Nat
    OBVIOUS
  <2> HIDE DEF V
  <2>5. Max(V) \in Nat /\ \A p \in A : version[p] <= Max(V)
    BY <2>2, <2>3, <2>4
  <2>6. QED
    BY <1>2, <2>5 DEF Latest, V
<1>3. QED
  BY <1>1, <1>2

Elems(s) == {s[i] : i \in 1 .. Len(s)}
Distinct(s) == \A i, j \in 1 .. Len(s) : s[i] = s[j] => i = j

LEMMA TailFacts ==
  ASSUME NEW s \in Seq(Report), s # << >>, Distinct(s)
  PROVE  /\ Head(s) \in Report /\ Head(s) \in Elems(s) /\ Tail(s) \in Seq(Report)
         /\ Len(s) \in Nat /\ Len(Tail(s)) = Len(s) - 1 /\ Distinct(Tail(s))
         /\ Elems(Tail(s)) = Elems(s) \ {Head(s)}
<1>1. /\ Len(s) \in Nat /\ Len(s) >= 1 /\ Head(s) = s[1] /\ Head(s) \in Report
      /\ Tail(s) \in Seq(Report) /\ Len(Tail(s)) = Len(s) - 1
      /\ \A i \in 1 .. Len(Tail(s)) : Tail(s)[i] = s[i + 1]
  OBVIOUS
<1>2. Distinct(Tail(s))
  BY <1>1 DEF Distinct
<1>3. ASSUME NEW x \in Elems(Tail(s)) PROVE x \in Elems(s) \ {Head(s)}
  <2>1. PICK i \in 1 .. Len(Tail(s)) : x = Tail(s)[i]
    BY DEF Elems
  <2>2. x = s[i + 1] /\ i + 1 \in 1 .. Len(s) /\ i + 1 # 1 /\ 1 \in 1 .. Len(s)
    BY <1>1, <2>1
  <2>3. QED
    BY <1>1, <2>2 DEF Elems, Distinct
<1>4. ASSUME NEW x \in Elems(s), x # Head(s) PROVE x \in Elems(Tail(s))
  <2>1. PICK i \in 1 .. Len(s) : x = s[i]
    BY DEF Elems
  <2>2. i # 1
    BY <1>1, <1>4, <2>1
  <2>3. i - 1 \in 1 .. Len(Tail(s)) /\ Tail(s)[i - 1] = s[i]
    <3>1. i \in Int /\ i >= 1 /\ i <= Len(s) /\ i # 1
      BY <2>2
    <3>2. i - 1 \in 1 .. Len(Tail(s))
      BY <1>1, <3>1
    <3>3. Tail(s)[i - 1] = s[(i - 1) + 1]
      BY <1>1, <3>2
    <3>4. QED
      BY <3>1, <3>2, <3>3
  <2>4. QED
    BY <2>1, <2>3 DEF Elems
<1>5. Head(s) \in Elems(s)
  BY <1>1 DEF Elems
<1>6. QED
  BY <1>1, <1>2, <1>3, <1>4, <1>5

LEMMA AppendFacts ==
  ASSUME NEW s \in Seq(Report), NEW r \in Report, r \notin Elems(s), Distinct(s)
  PROVE  /\ Append(s, r) \in Seq(Report) /\ Append(s, r) # << >>
         /\ Len(s) \in Nat /\ Len(Append(s, r)) = Len(s) + 1 /\ Distinct(Append(s, r))
         /\ Elems(Append(s, r)) = Elems(s) \cup {r}
<1>1. /\ Append(s, r) \in Seq(Report) /\ Len(s) \in Nat /\ Len(Append(s, r)) = Len(s) + 1
      /\ \A i \in 1 .. Len(s) : Append(s, r)[i] = s[i]
      /\ Append(s, r)[Len(s) + 1] = r
  OBVIOUS
<1>2. \A i \in 1 .. Len(Append(s, r)) : i \in 1 .. Len(s) \/ i = Len(s) + 1
  BY <1>1
<1>3. Elems(Append(s, r)) = Elems(s) \cup {r}
  <2>1. Len(s) + 1 \in 1 .. Len(Append(s, r))
    BY <1>1
  <2>2. \A i \in 1 .. Len(s) : i \in 1 .. Len(Append(s, r))
    BY <1>1
  <2>3. QED
    BY <1>1, <1>2, <2>1, <2>2 DEF Elems
<1>4. Distinct(Append(s, r))
  <2>1. \A i \in 1 .. Len(s) : s[i] # r
    BY DEF Elems
  <2>2. QED
    BY <1>1, <1>2, <2>1 DEF Distinct
<1>5. Append(s, r) # << >>
  BY <1>1
<1>6. QED
  BY <1>1, <1>3, <1>4, <1>5

\* A slot that is free goes to the first job that waits.
LEMMA DrainFacts ==
  ASSUME Types, NEW w \in Seq(Report), Distinct(w), NEW busy \in Nat, busy <= MaxConcurrent,
         NEW c \in Conn, \A x \in Elems(w) : home[x] = Nobody, Drain(w, busy, c)
  PROVE  \E S \in SUBSET Elems(w) :
           /\ Started = S /\ Elems(w) \subseteq Report
           /\ queue' \in Seq(Report) /\ Distinct(queue') /\ Elems(queue') = Elems(w) \ S
           /\ home' \in [Report -> Conn \cup {Nobody}]
           /\ \A q \in Report : home'[q] = IF q \in S THEN c ELSE home[q]
           /\ \/ /\ S = {} /\ running' = busy /\ Len(queue') = Len(w)
                 /\ w = << >> \/ busy = MaxConcurrent
              \/ \E x \in Elems(w) : /\ S = {x} /\ running' = busy + 1
                                     /\ running' <= MaxConcurrent
                                     /\ Len(queue') = Len(w) - 1
<1>0. /\ Elems(w) \subseteq Report /\ home \in [Report -> Conn \cup {Nobody}]
      /\ MaxConcurrent \in Nat /\ c # Nobody
  BY ReportsAssumption DEF Types, Elems, Nobody
<1>1. CASE w # << >> /\ busy < MaxConcurrent
  <2>1. /\ queue' = Tail(w) /\ running' = busy + 1
        /\ home' = [home EXCEPT ![Head(w)] = c]
    BY <1>1 DEF Drain
  <2>2. /\ Head(w) \in Report /\ Head(w) \in Elems(w) /\ Tail(w) \in Seq(Report)
        /\ Len(w) \in Nat /\ Len(Tail(w)) = Len(w) - 1 /\ Distinct(Tail(w))
        /\ Elems(Tail(w)) = Elems(w) \ {Head(w)}
    BY <1>1, TailFacts
  <2>3. /\ home' \in [Report -> Conn \cup {Nobody}]
        /\ \A q \in Report : home'[q] = IF q \in {Head(w)} THEN c ELSE home[q]
    BY <1>0, <2>1, <2>2
  <2>4. Started = {Head(w)}
    BY <1>0, <2>2, <2>3 DEF Started
  <2>5. running' <= MaxConcurrent
    BY <1>0, <1>1, <2>1
  <2>6. QED
    BY <1>0, <2>1, <2>2, <2>3, <2>4, <2>5
<1>2. CASE ~(w # << >> /\ busy < MaxConcurrent)
  <2>1. queue' = w /\ running' = busy /\ home' = home
    BY <1>2 DEF Drain
  <2>2. Started = {}
    BY <2>1 DEF Started
  <2>3. w = << >> \/ busy = MaxConcurrent
    BY <1>0, <1>2
  <2>4. {} \in SUBSET Elems(w) /\ Elems(queue') = Elems(w) \ {}
    BY <2>1
  <2>5. QED
    BY <1>0, <2>1, <2>2, <2>3, <2>4
<1>3. QED
  BY <1>1, <1>2

\* The requests other than r stand, but for a job that starts.
Moves(r) ==
  \A q \in Request : q # r =>
    \/ pc'[q] = pc[q] /\ (q \in Report => home'[q] = home[q])
    \/ q \in Report /\ pc[q] = "waiting" /\ pc'[q] = "read"

JobsFacts ==
  /\ IsFiniteSet(Jobs) /\ Cardinality(Jobs) \in Nat

LEMMA JobsFinite == QueueHolds => JobsFacts
<1> SUFFICES ASSUME QueueHolds PROVE JobsFacts
  OBVIOUS
<1>1. Jobs \in SUBSET Asked
  BY DEF Jobs, Asked, JobStep
<1>2. QED
  BY <1>1, FS_Subset, FS_CardinalityType DEF QueueHolds, JobsFacts

\* A job that is over frees its slot for the next one.
LEMMA SettleFacts ==
  ASSUME Types, QueueHolds, NEW r \in Report, pc[r] \in JobStep,
         NEW outcome \in {"stored", "failed"}, Settle(r, outcome)
  PROVE  /\ pc' \in [Request -> Step] /\ queue' \in Seq(Report) /\ running' \in Nat
         /\ home' \in [Report -> Conn \cup {Nobody}]
         /\ QueueHolds' /\ Moves(r) /\ pc'[r] = outcome /\ home'[r] = home[r]
<1>1. /\ Distinct(queue) /\ Elems(queue) = Waiting /\ Len(queue) <= MaxPending
      /\ running = Cardinality(Jobs) /\ running <= MaxConcurrent /\ home[r] \in Conn
      /\ \A x \in Waiting : home[x] = Nobody
  BY DEF QueueHolds, Distinct, Elems, Waiting
<1>2. IsFiniteSet(Jobs) /\ r \in Jobs /\ Cardinality(Jobs) \in Nat
  BY JobsFinite DEF Jobs, JobsFacts
<1>3. IsFiniteSet(Jobs \ {r}) /\ Cardinality(Jobs \ {r}) = running - 1
  BY <1>1, <1>2, FS_RemoveElement
<1>4. running - 1 \in Nat /\ running - 1 <= MaxConcurrent /\ MaxConcurrent \in Nat
  BY <1>1, <1>2, <1>3, FS_CardinalityType, ReportsAssumption
<1>5. Drain(queue, running - 1, home[r]) /\ queue \in Seq(Report)
  BY DEF Settle, Types
<1>6. PICK S \in SUBSET Elems(queue) :
        /\ Started = S /\ Elems(queue) \subseteq Report
        /\ queue' \in Seq(Report) /\ Distinct(queue') /\ Elems(queue') = Elems(queue) \ S
        /\ home' \in [Report -> Conn \cup {Nobody}]
        /\ \A q \in Report : home'[q] = IF q \in S THEN home[r] ELSE home[q]
        /\ \/ /\ S = {} /\ running' = running - 1 /\ Len(queue') = Len(queue)
              /\ queue = << >> \/ running - 1 = MaxConcurrent
           \/ \E x \in Elems(queue) : /\ S = {x} /\ running' = (running - 1) + 1
                                      /\ running' <= MaxConcurrent
                                      /\ Len(queue') = Len(queue) - 1
  BY <1>1, <1>4, <1>5, DrainFacts
<1>7. pc' = [q \in Request |-> IF q = r THEN outcome ELSE IF q \in S THEN "read" ELSE pc[q]]
  BY <1>6 DEF Settle
<1>8. /\ \A q \in S : q \in Report /\ pc[q] = "waiting" /\ q \notin Jobs /\ q # r
      /\ Report \subseteq Request
  BY <1>1, <1>6 DEF Waiting, Jobs, JobStep, Request
<1>9. pc' \in [Request -> Step]
  BY <1>7 DEF Types, Step, JobStep
<1>10. Jobs' = (Jobs \ {r}) \cup S
  BY <1>7, <1>8 DEF Jobs, JobStep
<1>11. running' = Cardinality(Jobs') /\ running' \in Nat /\ running' <= MaxConcurrent
  <2>1. CASE S = {}
    BY <1>3, <1>4, <1>6, <1>10, <2>1
  <2>2. ASSUME NEW x \in Elems(queue), S = {x}, running' = (running - 1) + 1,
               running' <= MaxConcurrent
        PROVE  running' = Cardinality(Jobs') /\ running' \in Nat
    <3>1. Cardinality((Jobs \ {r}) \cup {x}) = (running - 1) + 1
      BY <1>3, <1>8, <2>2, FS_AddElement
    <3>2. QED
      BY <1>4, <1>10, <2>2, <3>1
  <2>3. QED
    BY <1>6, <2>1, <2>2
<1>12. Waiting' = Waiting \ S /\ Asked' = Asked
  BY <1>7, <1>8 DEF Waiting, Asked, JobStep
<1>13. Len(queue') <= MaxPending
  BY <1>1, <1>5, <1>6, ReportsAssumption
<1>14. /\ \A q \in Report : pc'[q] \in JobStep => home'[q] \in Conn
       /\ \A q \in Report : pc'[q] \in {"idle", "waiting"} => home'[q] = Nobody
  BY <1>1, <1>6, <1>7, <1>8 DEF QueueHolds, JobStep
<1>15. QueueHolds'
  BY <1>1, <1>6, <1>11, <1>12, <1>13, <1>14 DEF QueueHolds, Distinct, Elems
<1>16. Moves(r) /\ pc'[r] = outcome /\ home'[r] = home[r]
  BY <1>6, <1>7, <1>8 DEF Moves
<1>17. QED
  BY <1>6, <1>9, <1>11, <1>15, <1>16

-----------------------------------------------------------------------------
(* Steps that write nothing *)

\* The parts of the invariant about what was written.
RowsHold == WritesHold /\ ArtifactsHold /\ VersionsHold /\ ApprovalsHold

\* A draft is in one transaction, that of the host of its job.
LEMMA DraftFacts ==
  ASSUME Types, PoolHolds, WritesHold, NEW u \in Request, NEW r \in Report, Drafted(u, r)
  PROVE  /\ Open(u) /\ home[r] \in Conn /\ Host(r) = u
         /\ \A v \in Request : Drafted(v, r) => v = u
<1>1. \A v \in Request : Drafted(v, r) => Open(v) /\ home[r] = conn[v]
  BY DEF PoolHolds, WritesHold, Drafted
<1>2. home[r] \in Conn /\ Host(r) = u
  BY <1>1 DEF Open, Host, Types
<1>3. QED
  BY <1>1, <1>2 DEF Open, Host

\* The host of a job that runs has its connection.
LEMMA HostFacts ==
  ASSUME Types, PoolHolds, NEW r \in Report, home[r] \in Conn
  PROVE  /\ Host(r) \in Request \cup {Nobody}
         /\ Host(r) # Nobody => conn[Host(r)] = home[r] /\ Open(Host(r))
         /\ \A u \in Request : Open(u) /\ home[r] = conn[u] => Host(r) = u
  BY ReportsAssumption DEF Types, PoolHolds, Host, Open, Nobody

LEMMA RestHolds ==
  ASSUME ReportsInv, NEW r \in Report, Moves(r), home'[r] = home[r],
         pc'[r] \in {"stored", "failed", "over"},
         UNCHANGED <<status, artifact, version, conn, holder, pending, reviewing, seen, crossed,
                     raced>>,
         astray \subseteq astray'
  PROVE  RowsHold'
<1>0. Report \subseteq Request
  BY DEF Request
<1>1. \A q \in Report : /\ pc'[q] \in {"insert", "record"} => pc'[q] = pc[q]
                        /\ pc'[q] = "read" => pc[q] \in {"waiting", "read"}
                        /\ pc'[q] \in {"idle", "waiting"} => pc[q] = pc'[q]
                        /\ pc[q] # "waiting" => home'[q] = home[q]
  BY <1>0 DEF Moves
<1>2. WritesHold'
  <2>1. \A q \in Report : Unstored(q)' <=> Unstored(q)
    BY DEF Unstored, Drafted
  <2>2. \A u \in Request, q \in Report : Drafted(u, q) => home'[q] = home[q]
    BY <1>1 DEF ReportsInv, WritesHold, Unstored
  <2>3. WritesHold
    BY DEF ReportsInv
  <2>4. QED
    BY <1>1, <2>2, <2>3 DEF WritesHold, Unstored, Drafted
<1>3. ArtifactsHold'
  BY <1>1 DEF ReportsInv, ArtifactsHold, ReviewedHasArtifact, Open
<1>4. VersionsHold'
  BY <1>1 DEF ReportsInv, VersionsHold, VersionsDiffer, Drafted
<1>5. ApprovalsHold'
  BY DEF ReportsInv, ApprovalsHold, Approved
<1>6. QED
  BY <1>2, <1>3, <1>4, <1>5 DEF RowsHold

\* A job that fails or is over wrote nothing in this step.
LEMMA SettledHolds ==
  ASSUME ReportsInv, NEW r \in Report, pc[r] \in JobStep, NEW outcome \in {"stored", "failed"},
         Settle(r, outcome),
         UNCHANGED <<status, artifact, version, conn, holder, pending, reviewing, seen, crossed,
                     raced>>,
         astray' \in {astray, astray \cup {r}},
         broken' \subseteq Request, \A q \in Request : q \in broken' => q \in broken \/ Open(q)
  PROVE  ReportsInv'
<1>1. /\ pc' \in [Request -> Step] /\ queue' \in Seq(Report) /\ running' \in Nat
      /\ home' \in [Report -> Conn \cup {Nobody}]
      /\ QueueHolds' /\ Moves(r) /\ pc'[r] = outcome /\ home'[r] = home[r]
  BY SettleFacts DEF ReportsInv
<1>2. Types'
  BY <1>1 DEF ReportsInv, Types
<1>3. PoolHolds'
  <2>1. PoolHolds
    BY DEF ReportsInv
  <2>2. \A q \in Request : pc'[q] = "idle" => pc[q] = "idle"
    BY <1>1 DEF Moves
  <2>3. \A v \in Visitor : pc'[v] = "waiting" => pc[v] = "waiting"
    BY <1>1, ReportsAssumption DEF Moves, Request
  <2>4. \A q \in Request : Open(q)' <=> Open(q)
    BY DEF Open
  <2>5. QED
    BY <2>1, <2>2, <2>3 DEF PoolHolds, Open
<1>4. RowsHold'
  BY <1>1, RestHolds
<1>5. QED
  BY <1>1, <1>2, <1>3, <1>4 DEF ReportsInv, RowsHold

LEMMA FailHolds ==
  ASSUME ReportsInv, NEW r \in Report, Fail(r)
  PROVE  ReportsInv'
<1>1. /\ pc[r] \in JobStep /\ Settle(r, "failed")
      /\ UNCHANGED <<status, artifact, version, conn, holder, pending, reviewing, seen, crossed,
                     raced, astray, broken>>
  BY DEF Fail, JobStep, rowVars, connVars, reviewVars
<1>2. broken \subseteq Request
  BY DEF ReportsInv, Types
<1>3. QED
  BY <1>1, <1>2, SettledHolds

-----------------------------------------------------------------------------
(* Asking for a report *)

\* A connection that is taken was nobody's.
LEMMA TakeFacts ==
  ASSUME Types, PoolHolds, NEW q \in Request, pc[q] = "idle", NEW c \in Conn, Take(q, c),
         UNCHANGED <<pending, broken>>
  PROVE  /\ conn' \in [Request -> Conn \cup {Nobody}]
         /\ holder' \in [Conn -> Request \cup {Nobody}]
         /\ Open(q)' /\ \A u \in Request : u # q => /\ Open(u) => Open(u)'
                                                    /\ Open(u)' => Open(u)
                                                    /\ conn'[u] = conn[u]
         /\ \A k \in Conn : holder'[k] # Nobody => conn'[holder'[k]] = k
         /\ pending[q] = {} /\ q \notin broken
<1>1. /\ conn[q] = Nobody /\ ~Open(q) /\ holder[c] = Nobody /\ c # Nobody /\ q # Nobody
      /\ conn' = [conn EXCEPT ![q] = c] /\ holder' = [holder EXCEPT ![c] = q]
  BY ReportsAssumption DEF PoolHolds, Take, Open, Nobody, Request
<1>2. conn' \in [Request -> Conn \cup {Nobody}] /\ holder' \in [Conn -> Request \cup {Nobody}]
  BY <1>1 DEF Types
<1>3. conn'[q] = c /\ holder'[c] = q
  BY <1>1 DEF Types
<1>4. \A u \in Request : u # q => conn'[u] = conn[u]
  BY <1>1 DEF Types
<1>5. \A k \in Conn : k # c => holder'[k] = holder[k]
  BY <1>1 DEF Types
<1>6. ASSUME NEW u \in Request, u # q
      PROVE  (Open(u) => Open(u)') /\ (Open(u)' => Open(u))
  <2>1. conn[u] \in Conn \cup {Nobody} /\ conn'[u] = conn[u]
    BY <1>4, <1>6 DEF Types
  <2>2. conn[u] \in Conn => (holder'[conn[u]] = u <=> holder[conn[u]] = u)
    BY <1>1, <1>3, <1>5, <1>6, ReportsAssumption DEF Nobody, Request
  <2>3. QED
    BY <2>1, <2>2 DEF Open
<1>7. \A k \in Conn : holder'[k] # Nobody => conn'[holder'[k]] = k
  <2>1. TAKE k \in Conn
  <2>2. CASE k = c
    BY <1>3, <2>2
  <2>3. CASE k # c
    <3>1. holder'[k] = holder[k] /\ holder[k] \in Request \cup {Nobody}
      BY <1>5, <2>3 DEF Types
    <3>2. holder[k] # Nobody => conn[holder[k]] = k
      BY DEF PoolHolds
    <3>3. holder[k] # q
      BY <1>1, <3>2, ReportsAssumption DEF Nobody
    <3>4. QED
      BY <1>4, <3>1, <3>2, <3>3
  <2>4. QED
    BY <2>2, <2>3
<1>8. Open(q)'
  BY <1>1, <1>3 DEF Open
<1>9. pending[q] = {} /\ q \notin broken
  BY <1>1 DEF PoolHolds
<1>10. QED
  BY <1>2, <1>4, <1>6, <1>7, <1>8, <1>9

\* What was written of reports is untouched by a request that comes in.
LEMMA ComeHolds ==
  ASSUME ReportsInv, NEW q \in Request, pc[q] = "idle", NEW c \in Conn, Take(q, c),
         UNCHANGED <<status, artifact, version, pending, broken, reviewing, seen, crossed,
                     raced, astray>>,
         Moves(q), pc'[q] \in {"waiting", "read", "failed"}
  PROVE  PoolHolds' /\ RowsHold'
<1>0. Report \subseteq Request /\ Types /\ PoolHolds /\ WritesHold
  BY DEF Request, ReportsInv
<1>1. /\ Open(q)' /\ \A u \in Request : u # q => /\ Open(u) => Open(u)'
                                                 /\ Open(u)' => Open(u)
                                                 /\ conn'[u] = conn[u]
      /\ \A k \in Conn : holder'[k] # Nobody => conn'[holder'[k]] = k
      /\ pending[q] = {} /\ q \notin broken
  BY <1>0, TakeFacts
<1>2. \A r \in Report : /\ pc'[r] \in {"insert", "record"} => pc'[r] = pc[r] /\ r # q
                        /\ pc'[r] = "read" => pc[r] \in {"idle", "waiting", "read"}
                        /\ pc'[r] \in {"idle", "waiting"} => pc[r] \in {"idle", "waiting"}
                        /\ pc[r] \notin {"idle", "waiting"} => home'[r] = home[r]
  BY <1>0 DEF Moves
<1>3. \A u \in Request, r \in Report : Drafted(u, r) =>
        u # q /\ home'[r] = home[r] /\ conn'[u] = conn[u]
  BY <1>0, <1>1, <1>2 DEF WritesHold, Unstored, Drafted
<1>4. PoolHolds'
  <2>1. \A u \in Request : pc'[u] = "idle" => u # q /\ pc[u] = "idle"
    BY DEF Moves
  <2>2. \A u \in Request : pc'[u] = "idle" => conn'[u] = Nobody
    BY <1>0, <1>1, <2>1 DEF PoolHolds
  <2>3. \A u \in Request : u \in broken' \/ pending'[u] # {} => Open(u)'
    BY <1>0, <1>1 DEF PoolHolds
  <2>4. \A v \in Visitor : pending'[v] = {} /\ (pc'[v] = "waiting" => Open(v)')
    <3>1. TAKE v \in Visitor
    <3>2. pending'[v] = {} /\ (pc[v] = "waiting" => Open(v)) /\ v \in Request
      BY <1>0 DEF PoolHolds, Request
    <3>3. v # q => (pc'[v] = "waiting" => pc[v] = "waiting")
      BY <3>2 DEF Moves
    <3>4. QED
      BY <1>1, <3>2, <3>3
  <2>5. QED
    BY <1>1, <2>2, <2>3, <2>4 DEF PoolHolds
<1>5. WritesHold'
  BY <1>0, <1>2, <1>3 DEF WritesHold, Unstored, Drafted
<1>6. ArtifactsHold'
  <2>1. \A r \in Report : pc'[r] = "record" /\ Open(r)' => pc[r] = "record" /\ Open(r)
    BY <1>0, <1>1, <1>2
  <2>2. QED
    BY <2>1 DEF ReportsInv, ArtifactsHold, ReviewedHasArtifact
<1>7. VersionsHold'
  <2>1. \A u \in Request, s \in Report, r \in Report :
          Drafted(u, s) /\ pc'[r] = "insert" /\ home'[r] = conn'[u]
          => pc[r] = "insert" /\ home[r] = conn[u]
    BY <1>2, <1>3
  <2>2. QED
    BY <2>1 DEF ReportsInv, VersionsHold, VersionsDiffer, Drafted
<1>8. ApprovalsHold'
  BY DEF ReportsInv, ApprovalsHold, Approved
<1>9. QED
  BY <1>4, <1>5, <1>6, <1>7, <1>8 DEF RowsHold

LEMMA GenerateHolds ==
  ASSUME ReportsInv, NEW r \in Report, Generate(r)
  PROVE  ReportsInv'
<1>0. Types /\ QueueHolds /\ PoolHolds /\ r \in Request
  BY DEF ReportsInv, Request
<1>1. PICK c \in Conn :
        /\ Take(r, c)
        /\ IF Full THEN pc' = [pc EXCEPT ![r] = "failed"] /\ UNCHANGED queueVars
           ELSE /\ Drain(Append(queue, r), running, c)
                /\ pc' = [q \in Request |-> IF q \in Started THEN "read"
                                            ELSE IF q = r THEN "waiting" ELSE pc[q]]
  BY DEF Generate
<1>2. /\ pc[r] = "idle"
      /\ UNCHANGED <<status, artifact, version, pending, broken, reviewing, seen, crossed, raced,
                     astray>>
  BY DEF Generate, rowVars, reviewVars
<1>3. /\ conn' \in [Request -> Conn \cup {Nobody}]
      /\ holder' \in [Conn -> Request \cup {Nobody}]
  BY <1>0, <1>1, <1>2, TakeFacts
<1>4. IsFiniteSet(Asked \cup {r})
  BY <1>0, FS_AddElement DEF QueueHolds
<1>5. CASE Full
  <2>1. pc' = [pc EXCEPT ![r] = "failed"] /\ UNCHANGED <<queue, running, home>>
    BY <1>1, <1>5 DEF queueVars
  <2>2. Types'
    BY <1>0, <1>2, <1>3, <2>1 DEF Types, Step, JobStep
  <2>3. Moves(r) /\ pc'[r] = "failed"
    BY <1>0, <2>1 DEF Moves, Types
  <2>4. Jobs' = Jobs /\ Waiting' = Waiting /\ Asked' = Asked \cup {r}
    BY <1>0, <1>2, <2>1 DEF Jobs, Waiting, Asked, Types, JobStep
  <2>5. QueueHolds'
    <3>1. \A q \in Report : pc'[q] = (IF q = r THEN "failed" ELSE pc[q]) /\ home'[q] = home[q]
      BY <1>0, <2>1 DEF Types, Request
    <3>2. \A q \in Report : /\ (pc'[q] \in JobStep => home'[q] \in Conn)
                             /\ (pc'[q] \in {"idle", "waiting"} => home'[q] = Nobody)
      BY <1>0, <3>1 DEF QueueHolds, JobStep
    <3>3. queue' = queue /\ running' = running
      BY <2>1
    <3>4. /\ Len(queue) <= MaxPending
          /\ {queue[i] : i \in 1 .. Len(queue)} = Waiting
          /\ \A i, j \in 1 .. Len(queue) : queue[i] = queue[j] => i = j
          /\ running = Cardinality(Jobs) /\ running <= MaxConcurrent
      BY <1>0 DEF QueueHolds
    <3>5. QED
      BY <1>4, <2>4, <3>2, <3>3, <3>4 DEF QueueHolds
  <2>6. PoolHolds' /\ RowsHold'
    BY <1>0, <1>1, <1>2, <2>3, ComeHolds
  <2>7. QED
    BY <2>2, <2>5, <2>6 DEF ReportsInv, RowsHold
<1>6. CASE ~Full
  <2>1. /\ Distinct(queue) /\ Elems(queue) = Waiting /\ Len(queue) <= MaxPending
        /\ queue \in Seq(Report) /\ r \notin Waiting
        /\ running = Cardinality(Jobs) /\ running \in Nat /\ running <= MaxConcurrent
        /\ \A x \in Waiting \cup {r} : home[x] = Nobody
    BY <1>0, <1>2 DEF QueueHolds, Distinct, Elems, Waiting, Types
  <2> DEFINE w == Append(queue, r)
  <2>2. /\ w \in Seq(Report) /\ w # << >> /\ Len(queue) \in Nat /\ Len(w) = Len(queue) + 1
        /\ Distinct(w) /\ Elems(w) = Waiting \cup {r}
    BY <2>1, AppendFacts
  <2>3. Drain(w, running, c)
    BY <1>1, <1>6
  <2> HIDE DEF w
  <2>4. PICK S \in SUBSET Elems(w) :
          /\ Started = S /\ Elems(w) \subseteq Report
          /\ queue' \in Seq(Report) /\ Distinct(queue') /\ Elems(queue') = Elems(w) \ S
          /\ home' \in [Report -> Conn \cup {Nobody}]
          /\ \A q \in Report : home'[q] = IF q \in S THEN c ELSE home[q]
          /\ \/ /\ S = {} /\ running' = running /\ Len(queue') = Len(w)
                /\ w = << >> \/ running = MaxConcurrent
             \/ \E x \in Elems(w) : /\ S = {x} /\ running' = running + 1
                                    /\ running' <= MaxConcurrent
                                    /\ Len(queue') = Len(w) - 1
    BY <1>0, <2>1, <2>2, <2>3, DrainFacts
  <2>5. pc' = [q \in Request |-> IF q \in S THEN "read" ELSE IF q = r THEN "waiting" ELSE pc[q]]
    BY <1>1, <1>6, <2>4
  <2>6. \A q \in S : q \in Report /\ q \in Request /\ (q = r \/ pc[q] = "waiting")
                     /\ q \notin Jobs
    BY <1>2, <2>2, <2>4 DEF Waiting, Jobs, JobStep, Request
  <2>7. pc' \in [Request -> Step]
    BY <1>0, <2>5 DEF Types, Step, JobStep
  <2>8. Jobs' = Jobs \cup S
    BY <1>0, <1>2, <2>5, <2>6 DEF Jobs, JobStep, Request
  <2>9. running' = Cardinality(Jobs') /\ running' \in Nat /\ running' <= MaxConcurrent
    <3>1. CASE S = {}
      BY <2>1, <2>4, <2>8, <3>1
    <3>2. ASSUME NEW x \in Elems(w), S = {x}, running' = running + 1, running' <= MaxConcurrent
          PROVE  running' = Cardinality(Jobs') /\ running' \in Nat
      <4>1. IsFiniteSet(Jobs) /\ x \notin Jobs
        BY <1>0, <2>6, <3>2, JobsFinite DEF JobsFacts
      <4>2. Cardinality(Jobs \cup {x}) = running + 1
        BY <2>1, <4>1, FS_AddElement
      <4>3. QED
        BY <2>1, <2>8, <3>2, <4>2
    <3>3. QED
      BY <2>4, <3>1, <3>2
  <2>10. Waiting' = (Waiting \cup {r}) \ S /\ Asked' = Asked \cup {r}
    BY <1>0, <2>1, <2>5, <2>6 DEF Waiting, Asked, Request
  <2>11. Len(queue') <= MaxPending
    BY <1>6, <2>1, <2>2, <2>4, ReportsAssumption DEF Full
  <2>12. \A q \in Report : /\ (pc'[q] \in JobStep => home'[q] \in Conn)
                            /\ (pc'[q] \in {"idle", "waiting"} => home'[q] = Nobody)
    <3>1. TAKE q \in Report
    <3>2. pc'[q] = IF q \in S THEN "read" ELSE IF q = r THEN "waiting" ELSE pc[q]
      BY <2>5 DEF Request
    <3>3. q = r \/ pc[q] = "waiting" => home[q] = Nobody
      BY <2>1 DEF Waiting
    <3>4. /\ (pc[q] \in JobStep => home[q] \in Conn)
          /\ (pc[q] \in {"idle", "waiting"} => home[q] = Nobody)
      BY <1>0 DEF QueueHolds
    <3>5. home'[q] = IF q \in S THEN c ELSE home[q]
      BY <2>4
    <3>6. QED
      BY <3>2, <3>3, <3>4, <3>5, <2>6 DEF JobStep
  <2>13. QueueHolds'
    BY <1>4, <2>2, <2>4, <2>9, <2>10, <2>11, <2>12 DEF QueueHolds, Distinct, Elems
  <2>14. Moves(r) /\ pc'[r] \in {"waiting", "read", "failed"}
    <3>1. pc'[r] \in {"waiting", "read", "failed"}
      BY <1>0, <2>5
    <3>2. Moves(r)
      BY <2>4, <2>5, <2>6 DEF Moves
    <3>3. QED
      BY <3>1, <3>2
  <2>15. Types'
    BY <1>0, <1>2, <1>3, <2>4, <2>7, <2>9 DEF Types
  <2>16. PoolHolds' /\ RowsHold'
    BY <1>0, <1>1, <1>2, <2>14, ComeHolds
  <2>17. QED
    BY <2>13, <2>15, <2>16 DEF ReportsInv, RowsHold
<1>7. QED
  BY <1>5, <1>6

LEMMA VisitHolds ==
  ASSUME ReportsInv, NEW v \in Visitor, Visit(v)
  PROVE  ReportsInv'
<1>0. Types /\ QueueHolds /\ PoolHolds /\ v \in Request /\ v \notin Report
  BY ReportsAssumption DEF ReportsInv, Request
<1>1. PICK c \in Conn : Take(v, c)
  BY DEF Visit
<1>2. /\ pc[v] = "idle" /\ pc' = [pc EXCEPT ![v] = "waiting"]
      /\ UNCHANGED <<status, artifact, version, pending, broken, queue, running, home, reviewing,
                     seen, crossed, raced, astray>>
  BY DEF Visit, rowVars, queueVars, reviewVars
<1>3. Types'
  <2>1. /\ conn' \in [Request -> Conn \cup {Nobody}]
        /\ holder' \in [Conn -> Request \cup {Nobody}]
    BY <1>0, <1>1, <1>2, TakeFacts
  <2>2. QED
    BY <1>0, <1>2, <2>1 DEF Types, Step, JobStep
<1>4. \A r \in Report : pc'[r] = pc[r]
  BY <1>0, <1>2 DEF Types, Request
<1>5. Jobs' = Jobs /\ Waiting' = Waiting /\ Asked' = Asked
  BY <1>4 DEF Jobs, Waiting, Asked
<1>6. QueueHolds'
  BY <1>0, <1>2, <1>4, <1>5 DEF QueueHolds
<1>7. Moves(v) /\ pc'[v] = "waiting"
  BY <1>0, <1>2 DEF Moves, Types
<1>8. PoolHolds' /\ RowsHold'
  BY <1>0, <1>1, <1>2, <1>7, ComeHolds
<1>9. QED
  BY <1>3, <1>6, <1>8 DEF ReportsInv, RowsHold

-----------------------------------------------------------------------------
(* The steps of a job *)

\* The next step of a job that neither ends nor starts another leaves the queue.
LEMMA OnHolds ==
  ASSUME Types, QueueHolds, PoolHolds, NEW r \in Report, pc[r] \in JobStep,
         NEW next \in JobStep, pc' = [pc EXCEPT ![r] = next],
         UNCHANGED <<queue, running, home, conn, holder>>,
         \A u \in Request : u \in broken' \/ pending'[u] # {} => Open(u),
         \A v \in Visitor : pending'[v] = {}
  PROVE  /\ pc' \in [Request -> Step] /\ QueueHolds' /\ PoolHolds'
         /\ \A q \in Report : pc'[q] = IF q = r THEN next ELSE pc[q]
<1>1. pc' \in [Request -> Step] /\ r \in Request /\ r \notin Visitor
  BY ReportsAssumption DEF Types, Step, Request
<1>2. \A q \in Request : pc'[q] = IF q = r THEN next ELSE pc[q]
  BY DEF Types
<1>3. Jobs' = Jobs /\ Waiting' = Waiting /\ Asked' = Asked
  BY <1>2 DEF Jobs, Waiting, Asked, JobStep, Request
<1>4. QueueHolds'
  <2>1. \A q \in Report : /\ (pc'[q] \in JobStep => home[q] \in Conn)
                          /\ (pc'[q] \in {"idle", "waiting"} => home[q] = Nobody)
    BY <1>2 DEF QueueHolds, JobStep, Request
  <2>2. /\ Len(queue) <= MaxPending
        /\ {queue[i] : i \in 1 .. Len(queue)} = Waiting
        /\ \A i, j \in 1 .. Len(queue) : queue[i] = queue[j] => i = j
        /\ IsFiniteSet(Asked) /\ running = Cardinality(Jobs) /\ running <= MaxConcurrent
    BY DEF QueueHolds
  <2>3. queue' = queue /\ running' = running /\ home' = home
    OBVIOUS
  <2>4. QED
    BY <1>3, <2>1, <2>2, <2>3 DEF QueueHolds
<1>5. PoolHolds'
  <2>1. \A q \in Request : pc'[q] = "idle" => conn[q] = Nobody
    BY <1>2 DEF PoolHolds, JobStep
  <2>2. \A v \in Visitor : pc'[v] = "waiting" => Open(v)
    BY <1>1, <1>2 DEF PoolHolds, Request
  <2>3. QED
    BY <2>1, <2>2 DEF PoolHolds, Open
<1>6. QED
  BY <1>1, <1>2, <1>4, <1>5 DEF Request

\* What a transaction sees of the reports is finite.
LEMMA VisibleFinite ==
  ASSUME QueueHolds, WritesHold, NEW u \in Request
  PROVE  {q \in Report : Kept(u, q)} \in SUBSET Report
         /\ IsFiniteSet({q \in Report : Kept(u, q)})
<1>1. \A q \in Report : Kept(u, q) => pc[q] # "idle"
  BY DEF WritesHold, Unstored, Drafted, Kept, Wrote
<1>2. {q \in Report : Kept(u, q)} \subseteq Asked
  BY <1>1 DEF Asked
<1>3. QED
  BY <1>2, FS_Subset DEF QueueHolds

LEMMA ReadHolds ==
  ASSUME ReportsInv, NEW r \in Report, ReadVersion(r)
  PROVE  ReportsInv'
<1>0. /\ Types /\ QueueHolds /\ PoolHolds /\ WritesHold /\ VersionsHold
      /\ pc[r] = "read" /\ pc[r] \in JobStep /\ r \in Request
      /\ version \in [Report -> Nat]
  BY DEF ReportsInv, ReadVersion, Request, Types, JobStep
<1>1. /\ UNCHANGED <<status, artifact, conn, holder, pending, broken, reviewing, seen, crossed>>
      /\ astray' \in {astray, astray \cup {r}}
  BY DEF ReadVersion, rowVars, connVars, reviewVars, Strays
<1>2. CASE Host(r) \in broken
  <2>1. Settle(r, "failed") /\ UNCHANGED <<version, raced>>
    BY <1>2 DEF ReadVersion
  <2>2. broken' \subseteq Request /\ \A q \in Request : q \in broken' => q \in broken
    BY <1>0, <1>1 DEF Types
  <2>3. QED
    BY <1>0, <1>1, <2>1, <2>2, SettledHolds
<1>3. CASE Host(r) \notin broken
  <2> DEFINE visible == IF Host(r) \in Report THEN {q \in Report : Kept(Host(r), q)} ELSE {}
  <2>1. PICK n : n = Latest(visible) + 1
    OBVIOUS
  <2>2. /\ version' = [version EXCEPT ![r] = n]
        /\ raced' = IF Host(r) \in Report THEN raced ELSE raced \cup {r}
        /\ pc' = [pc EXCEPT ![r] = "insert"]
        /\ UNCHANGED <<queue, running, home>>
    BY <1>3, <2>1 DEF ReadVersion, queueVars
  <2>3. visible \in SUBSET Report /\ IsFiniteSet(visible)
    BY <1>0, VisibleFinite, FS_EmptySet DEF Request
  <2> HIDE DEF visible
  <2>4. n \in Nat \ {0} /\ \A q \in visible : version[q] < n
    <3>1. Latest(visible) \in Nat /\ \A q \in visible : version[q] <= Latest(visible)
      BY <1>0, <2>3, LatestFacts
    <3>2. \A q \in visible : version[q] \in Nat
      BY <1>0, <2>3
    <3>3. QED
      BY <2>1, <3>1, <3>2
  <2>5. \A q \in Report : version'[q] = IF q = r THEN n ELSE version[q]
    BY <1>0, <2>2
  <2>6. /\ pc' \in [Request -> Step] /\ QueueHolds' /\ PoolHolds'
        /\ \A q \in Report : pc'[q] = IF q = r THEN "insert" ELSE pc[q]
    <3>1. /\ \A u \in Request : u \in broken' \/ pending'[u] # {} => Open(u)
          /\ \A v \in Visitor : pending'[v] = {}
      BY <1>0, <1>1 DEF PoolHolds
    <3>2. "insert" \in JobStep
      BY DEF JobStep
    <3>3. QED
      BY <1>0, <1>1, <2>2, <3>1, <3>2, OnHolds
  <2>7. Types'
    <3>1. version' \in [Report -> Nat] /\ raced' \cup astray' \subseteq Report
      BY <1>0, <1>1, <2>2, <2>4 DEF Types
    <3>2. QED
      BY <1>0, <1>1, <2>2, <2>6, <3>1 DEF Types
  <2>8. Unstored(r)
    BY <1>0 DEF WritesHold
  <2>9. WritesHold'
    BY <1>0, <1>1, <2>2, <2>4, <2>5, <2>6, <2>8 DEF WritesHold, Unstored, Drafted
  <2>10. ArtifactsHold'
    BY <1>1, <2>6 DEF ReportsInv, ArtifactsHold, ReviewedHasArtifact, Open
  <2>11. VersionsHold'
    <3>1. VersionsDiffer'
      BY <1>0, <1>1, <2>2, <2>5, <2>8 DEF VersionsHold, VersionsDiffer, Unstored
    <3>2. ASSUME NEW q \in Report, NEW p \in Report \ raced', status'[q] # "NONE",
                 status'[p] = "NONE", version'[p] # 0
          PROVE  version'[q] < version'[p]
      <4>1. q # r /\ version'[q] = version[q]
        BY <1>1, <2>5, <2>8, <3>2 DEF Unstored
      <4>2. CASE p = r
        <5>1. Host(r) \in Report /\ q \in visible
          BY <1>1, <2>2, <3>2, <4>2 DEF visible, Kept
        <5>2. QED
          BY <2>4, <2>5, <4>1, <4>2, <5>1
      <4>3. CASE p # r
        <5>1. p \notin raced /\ version'[p] = version[p]
          BY <2>2, <2>5, <3>2, <4>3
        <5>2. QED
          BY <1>0, <1>1, <3>2, <4>1, <5>1 DEF VersionsHold
      <4>4. QED
        BY <4>2, <4>3
    <3>3. ASSUME NEW u \in Request, NEW q \in Report \ raced', NEW p \in Report \ raced', q # p,
                 Drafted(u, q)',
                 Drafted(u, p)' \/ (pc'[p] = "insert" /\ home'[p] = conn'[u])
          PROVE  version'[q] # version'[p]
      <4>1. Drafted(u, q) /\ q # r /\ version'[q] = version[q] /\ q \notin raced
        BY <1>1, <2>2, <2>5, <2>8, <3>3 DEF Unstored, Drafted
      <4>2. CASE p = r
        <5>1. ~Drafted(u, p) /\ home[r] = conn[u] /\ Host(r) \in Report
          BY <1>1, <2>2, <2>8, <3>3, <4>2 DEF Unstored, Drafted
        <5>2. Open(u) /\ home[r] \in Conn
          BY <1>0, <4>1 DEF PoolHolds, Drafted, QueueHolds
        <5>3. Host(r) = u
          BY <1>0, <5>1, <5>2, HostFacts
        <5>4. q \in visible
          BY <4>1, <5>1, <5>3 DEF visible, Kept, Wrote, Drafted
        <5>5. QED
          BY <1>0, <2>4, <2>5, <4>1, <4>2, <5>4
      <4>3. CASE p # r
        <5>1. p \notin raced /\ version'[p] = version[p]
              /\ (Drafted(u, p) \/ (pc[p] = "insert" /\ home[p] = conn[u]))
          BY <1>1, <2>2, <2>5, <2>6, <3>3, <4>3 DEF Drafted
        <5>2. QED
          BY <1>0, <3>3, <4>1, <5>1 DEF VersionsHold
      <4>4. QED
        BY <4>2, <4>3
    <3>4. QED
      BY <3>1, <3>2, <3>3 DEF VersionsHold
  <2>12. ApprovalsHold'
    BY <1>1 DEF ReportsInv, ApprovalsHold, Approved
  <2>13. QED
    BY <2>6, <2>7, <2>9, <2>10, <2>11, <2>12 DEF ReportsInv
<1>4. QED
  BY <1>2, <1>3

\* What an allowed statement does: the host of the job, whose transaction is
\* open, has written one thing more.
LEMMA WrittenFacts ==
  ASSUME Types, QueueHolds, PoolHolds, NEW r \in Report, pc[r] \in {"insert", "persist", "record"},
         Allowed(r), NEW row \in Write,
         pending' = [pending EXCEPT ![Host(r)] = @ \cup {row}]
  PROVE  /\ Host(r) \in Report /\ Host(r) \in Request /\ Open(Host(r))
         /\ conn[Host(r)] = home[r]
         /\ pending' \in [Request -> SUBSET Write]
         /\ \A u \in Request : /\ u # Host(r) => pending'[u] = pending[u]
                               /\ u = Host(r) => pending'[u] = pending[u] \cup {row}
<1>1. home[r] \in Conn /\ Host(r) \in Report /\ Host(r) \in Request
  BY DEF QueueHolds, Allowed, JobStep, Request
<1>2. Open(Host(r)) /\ conn[Host(r)] = home[r]
  BY <1>1, HostFacts, ReportsAssumption DEF Nobody, Request
<1>3. PICK h \in Report : h = Host(r)
  BY <1>1
<1>4. /\ pending' = [pending EXCEPT ![h] = @ \cup {row}] /\ h \in Request
      /\ pending \in [Request -> SUBSET Write]
  BY <1>1, <1>3 DEF Types
<1>5. /\ pending' \in [Request -> SUBSET Write]
      /\ \A u \in Request : /\ u # h => pending'[u] = pending[u]
                            /\ u = h => pending'[u] = pending[u] \cup {row}
  <2>1. pending[h] \cup {row} \in SUBSET Write
    BY <1>4
  <2>2. pending' \in [Request -> SUBSET Write]
    BY <1>4, <2>1
  <2>3. \A u \in Request : pending'[u] = IF u = h THEN pending[u] \cup {row} ELSE pending[u]
    BY <1>4
  <2>4. QED
    BY <2>2, <2>3
<1>6. QED
  BY <1>1, <1>2, <1>3, <1>5

\* A draft is stored by the transaction that hosts its job.
LEMMA InsertHolds ==
  ASSUME ReportsInv, NEW r \in Report, WriteRow(r), Allowed(r), pc[r] = "insert"
  PROVE  ReportsInv'
<1>0. /\ Types /\ QueueHolds /\ PoolHolds /\ WritesHold /\ VersionsHold /\ ArtifactsHold
      /\ pc[r] \in JobStep /\ "persist" \in JobStep /\ r \in Request
      /\ version \in [Report -> Nat]
  BY DEF ReportsInv, Request, Types, JobStep
<1>1. /\ UNCHANGED <<status, artifact, version, conn, holder, broken, reviewing, seen, crossed>>
      /\ astray' \in {astray, astray \cup {r}}
  BY DEF WriteRow, rowVars, reviewVars, Strays
<1>2. /\ pending' = [pending EXCEPT ![Host(r)] = @ \cup {<<"draft", r>>}]
      /\ pc' = [pc EXCEPT ![r] = "persist"] /\ UNCHANGED <<queue, running, home>>
      /\ raced' = raced \cup {q \in Report \ {r} : pc[q] = "insert" /\ home[q] = home[r]}
  BY DEF WriteRow, Written, After, queueVars
<1>3. <<"draft", r>> \in Write
  BY DEF Write
<1>4. PICK h \in Report :
        /\ h = Host(r) /\ h \in Request /\ Open(h) /\ conn[h] = home[r]
        /\ pending' \in [Request -> SUBSET Write]
        /\ \A u \in Request : /\ u # h => pending'[u] = pending[u]
                              /\ u = h => pending'[u] = pending[u] \cup {<<"draft", r>>}
  BY <1>0, <1>2, <1>3, WrittenFacts
<1>5. /\ \A u \in Request, q \in Report :
           /\ Drafted(u, q)' <=> Drafted(u, q) \/ (u = h /\ q = r)
           /\ <<"ready", q>> \in pending'[u] <=> <<"ready", q>> \in pending[u]
           /\ <<"artifact", q>> \in pending[u] => <<"artifact", q>> \in pending'[u]
      /\ \A u \in Request : pending'[u] # {} => Open(u)
  BY <1>0, <1>4 DEF Drafted, PoolHolds
<1>6. /\ pc' \in [Request -> Step] /\ QueueHolds' /\ PoolHolds'
      /\ \A q \in Report : pc'[q] = IF q = r THEN "persist" ELSE pc[q]
  <2>1. /\ \A u \in Request : u \in broken' \/ pending'[u] # {} => Open(u)
        /\ \A v \in Visitor : pending'[v] = {}
    BY <1>0, <1>1, <1>4, <1>5, ReportsAssumption DEF PoolHolds, Request
  <2>2. QED
    BY <1>0, <1>1, <1>2, <2>1, OnHolds
<1>7. Types'
  <2>1. raced' \cup astray' \subseteq Report
    BY <1>0, <1>1, <1>2 DEF Types
  <2>2. QED
    BY <1>0, <1>1, <1>2, <1>4, <1>6, <2>1 DEF Types
<1>8. Unstored(r) /\ version[r] # 0
  BY <1>0 DEF WritesHold
<1>9. WritesHold'
  <2>1. ASSUME NEW q \in Report, pc'[q] \in {"idle", "waiting", "read", "insert"}
        PROVE  Unstored(q)'
    <3>1. q # r /\ Unstored(q)
      BY <1>0, <1>6, <2>1 DEF WritesHold
    <3>2. \A u \in Request : ~Drafted(u, q)'
      BY <1>5, <3>1 DEF Unstored
    <3>3. QED
      BY <1>1, <3>1, <3>2 DEF Unstored
  <2>2. ASSUME NEW u \in Request, NEW q \in Report
        PROVE  /\ Drafted(u, q)' => status'[q] = "NONE" /\ version'[q] # 0 /\ home'[q] = conn'[u]
               /\ <<"ready", q>> \in pending'[u] => status'[q] # "NONE" \/ Drafted(u, q)'
    <3>1. /\ Drafted(u, q) => status[q] = "NONE" /\ version[q] # 0 /\ home[q] = conn[u]
          /\ <<"ready", q>> \in pending[u] => status[q] # "NONE" \/ Drafted(u, q)
      BY <1>0 DEF WritesHold
    <3>2. u = h /\ q = r => status[q] = "NONE" /\ version[q] # 0 /\ home[q] = conn[u]
      BY <1>4, <1>8 DEF Unstored
    <3>3. /\ Drafted(u, q)' <=> Drafted(u, q) \/ (u = h /\ q = r)
          /\ <<"ready", q>> \in pending'[u] <=> <<"ready", q>> \in pending[u]
          /\ status' = status /\ version' = version /\ home' = home /\ conn' = conn
      BY <1>1, <1>2, <1>5
    <3>4. QED
      BY <3>1, <3>2, <3>3
  <2>3. QED
    BY <1>0, <1>1, <1>6, <2>1, <2>2 DEF WritesHold
<1>10. ArtifactsHold'
  BY <1>0, <1>1, <1>5, <1>6 DEF ArtifactsHold, ReviewedHasArtifact, Open, Request
<1>11. VersionsHold'
  <2>1. VersionsDiffer'
    BY <1>0, <1>1, <1>2 DEF VersionsHold, VersionsDiffer
  <2>2. \A q \in Report, p \in Report \ raced' :
          status'[q] # "NONE" /\ status'[p] = "NONE" /\ version'[p] # 0
          => version'[q] < version'[p]
    BY <1>0, <1>1, <1>2 DEF VersionsHold
  <2>3. ASSUME NEW u \in Request, NEW q \in Report \ raced', NEW p \in Report \ raced', q # p,
               Drafted(u, q)',
               Drafted(u, p)' \/ (pc'[p] = "insert" /\ home'[p] = conn'[u])
        PROVE  version[q] # version[p]
    <3>1. /\ q \notin raced /\ p \notin raced
          /\ pc'[p] = "insert" => p # r /\ pc[p] = "insert" /\ home[p] = home'[p]
          /\ conn'[u] = conn[u]
      BY <1>1, <1>2, <1>6, <2>3
    <3>2. CASE Drafted(u, q) /\ ~(u = h /\ p = r)
      <4>1. Drafted(u, p) \/ (pc[p] = "insert" /\ home[p] = conn[u])
        BY <1>5, <2>3, <3>1, <3>2
      <4>2. QED
        BY <1>0, <2>3, <3>1, <3>2, <4>1 DEF VersionsHold
    <3>3. CASE u = h /\ p = r
      <4>1. Drafted(u, q) /\ pc[p] = "insert" /\ home[p] = conn[u]
        BY <1>4, <1>5, <2>3, <3>3
      <4>2. QED
        BY <1>0, <2>3, <3>1, <4>1 DEF VersionsHold
    <3>4. CASE u = h /\ q = r
      <4>1. ~(pc[p] = "insert" /\ home[p] = conn[u])
        BY <1>2, <1>4, <2>3, <3>4
      <4>2. Drafted(u, p) /\ pc[q] = "insert" /\ home[q] = conn[u]
        BY <1>4, <1>5, <2>3, <3>1, <3>4, <4>1, <1>2
      <4>3. QED
        BY <1>0, <2>3, <3>1, <4>2 DEF VersionsHold
    <3>5. QED
      BY <1>5, <2>3, <3>2, <3>3, <3>4
  <2>4. QED
    BY <1>1, <2>1, <2>2, <2>3 DEF VersionsHold
<1>12. ApprovalsHold'
  BY <1>1 DEF ReportsInv, ApprovalsHold, Approved
<1>13. QED
  BY <1>6, <1>7, <1>9, <1>10, <1>11, <1>12 DEF ReportsInv

\* The artifact is stored by the transaction that hosts the job, which is that of
\* its own request unless a statement strays.
LEMMA PersistHolds ==
  ASSUME ReportsInv, NEW r \in Report, WriteRow(r), Allowed(r), pc[r] = "persist"
  PROVE  ReportsInv'
<1>0. /\ Types /\ QueueHolds /\ PoolHolds /\ WritesHold /\ VersionsHold /\ ArtifactsHold
      /\ pc[r] \in JobStep /\ "record" \in JobStep /\ r \in Request
  BY DEF ReportsInv, Request, Types, JobStep
<1>1. /\ UNCHANGED <<status, artifact, version, conn, holder, broken, reviewing, seen, crossed>>
      /\ astray' = IF Host(r) = r THEN astray ELSE astray \cup {r}
  BY DEF WriteRow, rowVars, reviewVars, Strays, AtHome
<1>2. /\ pending' = [pending EXCEPT ![Host(r)] = @ \cup {<<"artifact", r>>}]
      /\ pc' = [pc EXCEPT ![r] = "record"] /\ UNCHANGED <<queue, running, home>>
      /\ raced' = raced
  BY DEF WriteRow, Written, After, queueVars
<1>3. <<"artifact", r>> \in Write
  BY DEF Write
<1>4. PICK h \in Report :
        /\ h = Host(r) /\ h \in Request /\ Open(h) /\ conn[h] = home[r]
        /\ pending' \in [Request -> SUBSET Write]
        /\ \A u \in Request : /\ u # h => pending'[u] = pending[u]
                              /\ u = h => pending'[u] = pending[u] \cup {<<"artifact", r>>}
  BY <1>0, <1>2, <1>3, WrittenFacts
<1>5. /\ \A u \in Request, q \in Report :
           /\ Drafted(u, q)' <=> Drafted(u, q)
           /\ <<"ready", q>> \in pending'[u] <=> <<"ready", q>> \in pending[u]
           /\ <<"artifact", q>> \in pending[u] => <<"artifact", q>> \in pending'[u]
      /\ <<"artifact", r>> \in pending'[h]
      /\ \A u \in Request : pending'[u] # {} => Open(u)
  BY <1>0, <1>4 DEF Drafted, PoolHolds
<1>6. /\ pc' \in [Request -> Step] /\ QueueHolds' /\ PoolHolds'
      /\ \A q \in Report : pc'[q] = IF q = r THEN "record" ELSE pc[q]
  <2>1. /\ \A u \in Request : u \in broken' \/ pending'[u] # {} => Open(u)
        /\ \A v \in Visitor : pending'[v] = {}
    BY <1>0, <1>1, <1>4, <1>5, ReportsAssumption DEF PoolHolds, Request
  <2>2. QED
    BY <1>0, <1>1, <1>2, <2>1, OnHolds
<1>7. Types'
  <2>1. raced' \cup astray' \subseteq Report
    BY <1>0, <1>1, <1>2 DEF Types
  <2>2. QED
    BY <1>0, <1>1, <1>2, <1>4, <1>6, <2>1 DEF Types
<1>8. WritesHold'
  <2>1. \A q \in Report : pc'[q] \in {"idle", "waiting", "read", "insert"} => Unstored(q)'
    BY <1>0, <1>1, <1>5, <1>6 DEF WritesHold, Unstored
  <2>2. \A u \in Request, q \in Report :
          /\ Drafted(u, q)' => status'[q] = "NONE" /\ version'[q] # 0 /\ home'[q] = conn'[u]
          /\ <<"ready", q>> \in pending'[u] => status'[q] # "NONE" \/ Drafted(u, q)'
    BY <1>0, <1>1, <1>2, <1>5 DEF WritesHold
  <2>3. QED
    BY <1>0, <1>1, <1>6, <2>1, <2>2 DEF WritesHold
<1>9. ArtifactsHold'
  <2>1. ASSUME NEW q \in Report \ astray', pc'[q] = "record", Open(q)'
        PROVE  <<"artifact", q>> \in pending'[q]
    <3>1. CASE q = r
      BY <1>1, <1>4, <1>5, <2>1, <3>1
    <3>2. CASE q # r
      BY <1>0, <1>1, <1>5, <1>6, <2>1, <3>2 DEF ArtifactsHold, Open, Request
    <3>3. QED
      BY <3>1, <3>2
  <2>2. \A q \in Report \ astray', u \in Request :
          <<"ready", q>> \in pending'[u] => <<"artifact", q>> \in pending'[u]
    BY <1>0, <1>1, <1>5 DEF ArtifactsHold
  <2>3. ReviewedHasArtifact' /\ \A q \in reviewing' : status'[q] \notin {"NONE", "VALIDATED"}
    BY <1>0, <1>1 DEF ArtifactsHold, ReviewedHasArtifact
  <2>4. QED
    BY <2>1, <2>2, <2>3 DEF ArtifactsHold
<1>10. VersionsHold'
  <2>1. \A p \in Report : pc'[p] = "insert" => pc[p] = "insert"
    BY <1>6
  <2>2. /\ VersionsDiffer'
        /\ \A q \in Report, p \in Report \ raced' :
             status'[q] # "NONE" /\ status'[p] = "NONE" /\ version'[p] # 0
             => version'[q] < version'[p]
    BY <1>0, <1>1, <1>2 DEF VersionsHold, VersionsDiffer
  <2>3. \A u \in Request, q \in Report \ raced', p \in Report \ raced' :
          /\ q # p /\ Drafted(u, q)'
          /\ Drafted(u, p)' \/ (pc'[p] = "insert" /\ home'[p] = conn'[u])
          => version'[q] # version'[p]
    <3>1. \A u \in Request, q \in Report \ raced, p \in Report \ raced :
            /\ q # p /\ Drafted(u, q)
            /\ Drafted(u, p) \/ (pc[p] = "insert" /\ home[p] = conn[u])
            => version[q] # version[p]
      BY <1>0 DEF VersionsHold
    <3>2. /\ raced' = raced /\ version' = version /\ conn' = conn
          /\ \A p \in Report : pc'[p] = "insert" => pc[p] = "insert" /\ home'[p] = home[p]
          /\ \A u \in Request, q \in Report : Drafted(u, q)' <=> Drafted(u, q)
      BY <1>1, <1>2, <1>5, <2>1
    <3>3. QED
      BY <3>1, <3>2
  <2>4. QED
    BY <2>2, <2>3 DEF VersionsHold
<1>11. ApprovalsHold'
  BY <1>1 DEF ReportsInv, ApprovalsHold, Approved
<1>12. QED
  BY <1>6, <1>7, <1>8, <1>9, <1>10, <1>11 DEF ReportsInv

\* The report is ready for review where its artifact was stored.
LEMMA RecordHolds ==
  ASSUME ReportsInv, NEW r \in Report, WriteRow(r), Allowed(r), pc[r] = "record"
  PROVE  ReportsInv'
<1>0. /\ Types /\ QueueHolds /\ PoolHolds /\ WritesHold /\ VersionsHold /\ ArtifactsHold
      /\ pc[r] \in JobStep /\ r \in Request
  BY DEF ReportsInv, Request, Types, JobStep
<1>1. /\ UNCHANGED <<status, artifact, version, conn, holder, broken, reviewing, seen, crossed>>
      /\ astray' = IF Host(r) = r THEN astray ELSE astray \cup {r}
  BY DEF WriteRow, rowVars, reviewVars, Strays, AtHome
<1>2. /\ pending' = [pending EXCEPT ![Host(r)] = @ \cup {<<"ready", r>>}]
      /\ Settle(r, "stored") /\ raced' = raced
  BY DEF WriteRow, Written, After
<1>3. <<"ready", r>> \in Write
  BY DEF Write
<1>4. PICK h \in Report :
        /\ h = Host(r) /\ h \in Request /\ Open(h) /\ conn[h] = home[r]
        /\ pending' \in [Request -> SUBSET Write]
        /\ \A u \in Request : /\ u # h => pending'[u] = pending[u]
                              /\ u = h => pending'[u] = pending[u] \cup {<<"ready", r>>}
  BY <1>0, <1>2, <1>3, WrittenFacts
<1>5. /\ \A u \in Request, q \in Report :
           /\ Drafted(u, q)' <=> Drafted(u, q)
           /\ <<"ready", q>> \in pending'[u]
              <=> <<"ready", q>> \in pending[u] \/ (u = h /\ q = r)
           /\ <<"artifact", q>> \in pending[u] => <<"artifact", q>> \in pending'[u]
      /\ \A u \in Request : pending'[u] # {} => Open(u)
  BY <1>0, <1>4 DEF Drafted, PoolHolds
<1>6. /\ pc' \in [Request -> Step] /\ queue' \in Seq(Report) /\ running' \in Nat
      /\ home' \in [Report -> Conn \cup {Nobody}]
      /\ QueueHolds' /\ Moves(r) /\ pc'[r] = "stored" /\ home'[r] = home[r]
  BY <1>0, <1>2, SettleFacts
<1>7. \A q \in Report : /\ pc'[q] \in {"insert", "record"} => pc'[q] = pc[q] /\ q # r
                        /\ pc'[q] = "read" => pc[q] \in {"waiting", "read"}
                        /\ pc'[q] \in {"idle", "waiting"} => pc[q] = pc'[q]
                        /\ pc[q] # "waiting" => home'[q] = home[q]
  BY <1>6 DEF Moves, Request
<1>8. Types'
  <2>1. raced' \cup astray' \subseteq Report
    BY <1>0, <1>1, <1>2 DEF Types
  <2>2. QED
    BY <1>0, <1>1, <1>4, <1>6, <2>1 DEF Types
<1>9. PoolHolds'
  <2>1. \A q \in Request : pc'[q] = "idle" => conn[q] = Nobody
    BY <1>0, <1>6 DEF PoolHolds, Moves
  <2>2. \A v \in Visitor : pc'[v] = "waiting" => Open(v)
    BY <1>0, <1>6, ReportsAssumption DEF PoolHolds, Moves, Request
  <2>3. \A v \in Visitor : pending'[v] = {}
    BY <1>0, <1>4, ReportsAssumption DEF PoolHolds, Request
  <2>4. \A u \in Request : u \in broken \/ pending'[u] # {} => Open(u)
    BY <1>0, <1>5 DEF PoolHolds
  <2>5. QED
    BY <1>0, <1>1, <2>1, <2>2, <2>3, <2>4 DEF PoolHolds, Open
<1>10. WritesHold'
  <2>1. ASSUME NEW q \in Report, pc'[q] \in {"idle", "waiting", "read", "insert"}
        PROVE  Unstored(q)'
    <3>1. Unstored(q)
      BY <1>0, <1>7, <2>1 DEF WritesHold
    <3>2. \A u \in Request : ~Drafted(u, q)'
      BY <1>5, <3>1 DEF Unstored
    <3>3. QED
      BY <1>1, <3>1, <3>2 DEF Unstored
  <2>2. status[r] # "NONE" \/ Drafted(h, r)
    BY <1>4 DEF Allowed, Kept, Wrote, Drafted
  <2>3. ASSUME NEW u \in Request, NEW q \in Report
        PROVE  /\ Drafted(u, q)' => status'[q] = "NONE" /\ version'[q] # 0 /\ home'[q] = conn'[u]
               /\ <<"ready", q>> \in pending'[u] => status'[q] # "NONE" \/ Drafted(u, q)'
    <3>1. Drafted(u, q) => pc[q] # "waiting"
      BY <1>0 DEF WritesHold, Unstored
    <3>2. /\ Drafted(u, q) => status[q] = "NONE" /\ version[q] # 0 /\ home[q] = conn[u]
          /\ <<"ready", q>> \in pending[u] => status[q] # "NONE" \/ Drafted(u, q)
      BY <1>0 DEF WritesHold
    <3>3. QED
      BY <1>1, <1>5, <1>7, <2>2, <3>1, <3>2
  <2>4. /\ \A q \in Report : pc'[q] \in {"idle", "waiting", "read"} => version'[q] = 0
        /\ \A q \in Report : pc'[q] = "insert" => version'[q] # 0
        /\ \A q \in Report : status'[q] # "NONE" => version'[q] # 0
    BY <1>0, <1>1, <1>7 DEF WritesHold
  <2>5. QED
    BY <2>1, <2>3, <2>4 DEF WritesHold
<1>11. ArtifactsHold'
  <2>1. ASSUME NEW q \in Report \ astray', pc'[q] = "record", Open(q)'
        PROVE  <<"artifact", q>> \in pending'[q]
    <3>1. q \in Report \ astray /\ pc[q] = "record" /\ Open(q) /\ q \in Request
      BY <1>1, <1>7, <2>1 DEF Open, Request
    <3>2. <<"artifact", q>> \in pending[q]
      BY <1>0, <3>1 DEF ArtifactsHold
    <3>3. QED
      BY <1>5, <3>1, <3>2
  <2>2. ASSUME NEW q \in Report \ astray', NEW u \in Request, <<"ready", q>> \in pending'[u]
        PROVE  <<"artifact", q>> \in pending'[u]
    <3>1. CASE <<"ready", q>> \in pending[u]
      BY <1>0, <1>1, <1>5, <2>2, <3>1 DEF ArtifactsHold
    <3>2. CASE u = h /\ q = r
      BY <1>0, <1>1, <1>4, <1>5, <2>2, <3>2 DEF ArtifactsHold
    <3>3. QED
      BY <1>5, <2>2, <3>1, <3>2
  <2>3. ReviewedHasArtifact' /\ \A q \in reviewing' : status'[q] \notin {"NONE", "VALIDATED"}
    BY <1>0, <1>1 DEF ArtifactsHold, ReviewedHasArtifact
  <2>4. QED
    BY <2>1, <2>2, <2>3 DEF ArtifactsHold
<1>12. VersionsHold'
  <2>1. /\ VersionsDiffer'
        /\ \A q \in Report, p \in Report \ raced' :
             status'[q] # "NONE" /\ status'[p] = "NONE" /\ version'[p] # 0
             => version'[q] < version'[p]
    BY <1>0, <1>1, <1>2 DEF VersionsHold, VersionsDiffer
  <2>2. \A p \in Report : pc'[p] = "insert" => pc[p] = "insert" /\ home'[p] = home[p]
    BY <1>7
  <2>3. \A u \in Request, q \in Report \ raced', p \in Report \ raced' :
          /\ q # p /\ Drafted(u, q)'
          /\ Drafted(u, p)' \/ (pc'[p] = "insert" /\ home'[p] = conn'[u])
          => version'[q] # version'[p]
    <3>1. \A u \in Request, q \in Report \ raced, p \in Report \ raced :
            /\ q # p /\ Drafted(u, q)
            /\ Drafted(u, p) \/ (pc[p] = "insert" /\ home[p] = conn[u])
            => version[q] # version[p]
      BY <1>0 DEF VersionsHold
    <3>2. /\ raced' = raced /\ version' = version /\ conn' = conn
          /\ \A p \in Report : pc'[p] = "insert" => pc[p] = "insert" /\ home'[p] = home[p]
          /\ \A u \in Request, q \in Report : Drafted(u, q)' <=> Drafted(u, q)
      BY <1>1, <1>2, <1>5, <2>2
    <3>3. QED
      BY <3>1, <3>2
  <2>4. QED
    BY <2>1, <2>3 DEF VersionsHold
<1>13. ApprovalsHold'
  BY <1>1 DEF ReportsInv, ApprovalsHold, Approved
<1>14. QED
  BY <1>6, <1>8, <1>9, <1>10, <1>11, <1>12, <1>13 DEF ReportsInv

LEMMA WriteHolds ==
  ASSUME ReportsInv, NEW r \in Report, WriteRow(r)
  PROVE  ReportsInv'
<1>1. CASE Allowed(r)
  BY <1>1, InsertHolds, PersistHolds, RecordHolds DEF WriteRow
<1>2. CASE ~Allowed(r)
  <2>1. /\ pc[r] \in JobStep /\ Settle(r, "failed")
        /\ broken' = IF pc[r] = "record" THEN broken ELSE broken \cup ({Host(r)} \ {Nobody})
        /\ UNCHANGED <<status, artifact, version, conn, holder, pending, reviewing, seen,
                       crossed, raced>>
        /\ astray' \in {astray, astray \cup {r}}
    BY <1>2 DEF WriteRow, JobStep, rowVars, reviewVars, Strays
  <2>2. Types /\ PoolHolds /\ home[r] \in Conn
    BY <2>1 DEF ReportsInv, QueueHolds
  <2>3. /\ Host(r) \in Request \cup {Nobody}
        /\ Host(r) # Nobody => Open(Host(r))
    BY <2>2, HostFacts
  <2>4. broken' \subseteq Request /\ \A q \in Request : q \in broken' => q \in broken \/ Open(q)
    BY <2>1, <2>2, <2>3 DEF Types
  <2>5. QED
    BY <2>1, <2>4, SettledHolds
<1>3. QED
  BY <1>1, <1>2

-----------------------------------------------------------------------------
(* The end of a transaction *)

\* What the end of the transaction of q may do to the rows: it stores drafts and
\* readiness the transaction wrote, with what else it wrote, and a draft that was
\* numbered and not stored then has raced.
Stores(q) ==
  /\ status' \in [Report -> Status] /\ artifact \subseteq artifact' /\ artifact' \subseteq Report
  /\ \A r \in Report : \/ status'[r] = status[r]
                       \/ Drafted(q, r) /\ status'[r] = "VALIDATED"
                       \/ /\ <<"ready", r>> \in pending[q] /\ status'[r] = "READY_FOR_REVIEW"
                          /\ <<"artifact", r>> \in pending[q] => r \in artifact'
  /\ raced \subseteq raced' /\ raced' \subseteq Report
  /\ \A r, p \in Report : /\ status'[r] # "NONE" /\ status[r] = "NONE"
                          /\ version[p] # 0 /\ status'[p] = "NONE"
                          => p \in raced'

\* The requests stand, but for one that is over.
Ends(q) ==
  /\ pc' \in [Request -> Step]
  /\ \A u \in Request : \/ pc'[u] = pc[u]
                        \/ /\ pc'[u] = "over"
                           /\ \/ pc[u] \in {"stored", "failed"}
                              \/ u \in Visitor /\ pc[u] = "waiting"
  /\ q \in Visitor => pc'[q] # "waiting"

LEMMA ReleaseFacts ==
  ASSUME Types, PoolHolds, NEW q \in Request, Open(q), Release(q)
  PROVE  /\ holder' \in [Conn -> Request \cup {Nobody}]
         /\ pending' \in [Request -> SUBSET Write] /\ broken' \subseteq Request
         /\ conn' = conn /\ ~Open(q)' /\ pending'[q] = {}
         /\ \A u \in Request : u # q => /\ Open(u) => Open(u)'
                                        /\ Open(u)' => Open(u)
                                        /\ pending'[u] = pending[u]
         /\ \A c \in Conn : holder'[c] # Nobody => conn'[holder'[c]] = c
         /\ \A u \in Request : u \in broken' \/ pending'[u] # {} => Open(u)'
<1>1. PICK c \in Conn : c = conn[q] /\ holder[c] = q
  BY DEF Open, Types
<1>2. /\ holder' = [holder EXCEPT ![c] = Nobody] /\ pending' = [pending EXCEPT ![q] = {}]
      /\ broken' = broken \ {q} /\ conn' = conn
  BY <1>1 DEF Release
<1>3. /\ holder' \in [Conn -> Request \cup {Nobody}]
      /\ pending' \in [Request -> SUBSET Write] /\ broken' \subseteq Request
  BY <1>2 DEF Types
<1>4. \A k \in Conn : holder'[k] = IF k = c THEN Nobody ELSE holder[k]
  BY <1>2 DEF Types
<1>5. \A u \in Request : pending'[u] = IF u = q THEN {} ELSE pending[u]
  BY <1>2 DEF Types
<1>6. q # Nobody
  BY ReportsAssumption DEF Nobody, Request
<1>7. ~Open(q)'
  BY <1>1, <1>2, <1>4, <1>6 DEF Open
<1>8. ASSUME NEW u \in Request, u # q
      PROVE  (Open(u) => Open(u)') /\ (Open(u)' => Open(u))
  <2>1. conn[u] \in Conn \cup {Nobody} /\ u # Nobody
    BY ReportsAssumption DEF Types, Nobody, Request
  <2>2. conn[u] \in Conn => (holder'[conn[u]] = u <=> holder[conn[u]] = u)
    BY <1>1, <1>4, <1>8, <2>1
  <2>3. QED
    BY <1>2, <2>1, <2>2 DEF Open
<1>9. \A k \in Conn : holder'[k] # Nobody => conn'[holder'[k]] = k
  BY <1>2, <1>4 DEF PoolHolds
<1>10. ASSUME NEW u \in Request, u \in broken' \/ pending'[u] # {} PROVE Open(u)'
  <2>1. u # q /\ Open(u)
    BY <1>2, <1>5, <1>10 DEF PoolHolds
  <2>2. QED
    BY <1>8, <2>1
<1>11. QED
  BY <1>2, <1>3, <1>5, <1>7, <1>8, <1>9, <1>10

\* The end of a transaction keeps the invariant, whatever of it is stored.
LEMMA EndHolds ==
  ASSUME ReportsInv, NEW q \in Request, Open(q), Release(q), Stores(q), Ends(q),
         UNCHANGED <<version, queue, running, home, reviewing, seen, crossed, astray>>
  PROVE  ReportsInv'
<1>0. /\ Types /\ QueueHolds /\ PoolHolds /\ WritesHold /\ ArtifactsHold /\ VersionsHold
      /\ Report \subseteq Request /\ version \in [Report -> Nat]
  BY DEF ReportsInv, Request, Types
<1>1. /\ holder' \in [Conn -> Request \cup {Nobody}]
      /\ pending' \in [Request -> SUBSET Write] /\ broken' \subseteq Request
      /\ conn' = conn /\ ~Open(q)' /\ pending'[q] = {}
      /\ \A u \in Request : u # q => /\ Open(u) => Open(u)'
                                     /\ Open(u)' => Open(u)
                                     /\ pending'[u] = pending[u]
      /\ \A c \in Conn : holder'[c] # Nobody => conn'[holder'[c]] = c
      /\ \A u \in Request : u \in broken' \/ pending'[u] # {} => Open(u)'
  BY <1>0, ReleaseFacts
<1>2. Types'
  BY <1>0, <1>1 DEF Types, Stores, Ends
<1>3. \A r \in Report : /\ pc'[r] = pc[r] \/ (pc'[r] = "over" /\ pc[r] \in {"stored", "failed"})
                        /\ r \notin Visitor
  BY <1>0, ReportsAssumption DEF Ends
<1>4. QueueHolds'
  <2>1. Jobs' = Jobs /\ Waiting' = Waiting /\ Asked' = Asked
    BY <1>3 DEF Jobs, Waiting, Asked, JobStep
  <2>2. \A r \in Report : /\ (pc'[r] \in JobStep => home[r] \in Conn)
                          /\ (pc'[r] \in {"idle", "waiting"} => home[r] = Nobody)
    BY <1>0, <1>3 DEF QueueHolds, JobStep
  <2>3. /\ Len(queue) <= MaxPending
        /\ {queue[i] : i \in 1 .. Len(queue)} = Waiting
        /\ \A i, j \in 1 .. Len(queue) : queue[i] = queue[j] => i = j
        /\ IsFiniteSet(Asked) /\ running = Cardinality(Jobs) /\ running <= MaxConcurrent
    BY <1>0 DEF QueueHolds
  <2>4. queue' = queue /\ running' = running /\ home' = home
    OBVIOUS
  <2>5. QED
    BY <2>1, <2>2, <2>3, <2>4 DEF QueueHolds
<1>5. PoolHolds'
  <2>1. \A u \in Request : pc'[u] = "idle" => conn'[u] = Nobody
    BY <1>0, <1>1 DEF PoolHolds, Ends
  <2>2. ASSUME NEW v \in Visitor PROVE pending'[v] = {} /\ (pc'[v] = "waiting" => Open(v)')
    <3>1. v \in Request /\ pending[v] = {} /\ (pc[v] = "waiting" => Open(v))
      BY <1>0 DEF PoolHolds, Request
    <3>2. pc'[v] = "waiting" => v # q /\ pc[v] = "waiting"
      BY <3>1 DEF Ends
    <3>3. QED
      BY <1>1, <3>1, <3>2
  <2>3. QED
    BY <1>1, <2>1, <2>2 DEF PoolHolds
<1>6. \A u \in Request, r \in Report :
        /\ Drafted(u, r)' => u # q /\ Drafted(u, r)
        /\ u # q /\ Drafted(u, r) => Drafted(u, r)'
        /\ <<"ready", r>> \in pending'[u] => u # q /\ <<"ready", r>> \in pending[u]
  BY <1>1 DEF Drafted
<1>7. \A r \in Report : <<"ready", r>> \in pending[q] => status[r] # "NONE" \/ Drafted(q, r)
  BY <1>0 DEF WritesHold
<1>8. \A r \in Report : /\ status[r] # "NONE" => status'[r] # "NONE"
                        /\ status'[r] # "NONE" => status[r] # "NONE" \/ Drafted(q, r)
  BY <1>7 DEF Stores
<1>9. WritesHold'
  <2>1. ASSUME NEW r \in Report, pc'[r] \in {"idle", "waiting", "read", "insert"}
        PROVE  Unstored(r)'
    <3>1. Unstored(r)
      BY <1>0, <1>3, <2>1 DEF WritesHold
    <3>2. \A u \in Request : ~Drafted(u, r)'
      BY <1>6, <3>1 DEF Unstored
    <3>3. status'[r] = "NONE"
      BY <1>8, <3>1 DEF Unstored
    <3>4. QED
      BY <3>2, <3>3 DEF Unstored
  <2>2. ASSUME NEW u \in Request, NEW r \in Report
        PROVE  /\ Drafted(u, r)' => status'[r] = "NONE" /\ version'[r] # 0 /\ home'[r] = conn'[u]
               /\ <<"ready", r>> \in pending'[u] => status'[r] # "NONE" \/ Drafted(u, r)'
    <3>1. ASSUME Drafted(u, r)'
          PROVE  status'[r] = "NONE" /\ version'[r] # 0 /\ home'[r] = conn'[u]
      <4>1. u # q /\ Drafted(u, r)
        BY <1>6, <3>1
      <4>2. ~Drafted(q, r)
        BY <1>0, <4>1, DraftFacts
      <4>3. status[r] = "NONE" /\ version[r] # 0 /\ home[r] = conn[u]
        BY <1>0, <4>1 DEF WritesHold
      <4>4. QED
        BY <1>1, <1>8, <4>2, <4>3
    <3>2. ASSUME <<"ready", r>> \in pending'[u]
          PROVE  status'[r] # "NONE" \/ Drafted(u, r)'
      <4>1. u # q /\ <<"ready", r>> \in pending[u]
        BY <1>6, <3>2
      <4>2. status[r] # "NONE" \/ Drafted(u, r)
        BY <1>0, <4>1 DEF WritesHold
      <4>3. QED
        BY <1>6, <1>8, <4>1, <4>2
    <3>3. QED
      BY <3>1, <3>2
  <2>3. ASSUME NEW r \in Report
        PROVE  /\ pc'[r] \in {"idle", "waiting", "read"} => version'[r] = 0
               /\ pc'[r] = "insert" => version'[r] # 0
               /\ status'[r] # "NONE" => version'[r] # 0
    <3>1. version' = version
      OBVIOUS
    <3>2. status'[r] # "NONE" => version[r] # 0
      BY <1>0, <1>8 DEF WritesHold
    <3>3. /\ pc'[r] \in {"idle", "waiting", "read"} => version[r] = 0
          /\ pc'[r] = "insert" => version[r] # 0
      BY <1>0, <1>3 DEF WritesHold
    <3>4. QED
      BY <3>1, <3>2, <3>3
  <2>4. QED
    BY <2>1, <2>2, <2>3 DEF WritesHold
<1>10. ArtifactsHold'
  <2>1. ASSUME NEW r \in Report \ astray, pc'[r] = "record", Open(r)'
        PROVE  <<"artifact", r>> \in pending'[r]
    <3>1. r # q /\ pc[r] = "record" /\ Open(r)
      BY <1>0, <1>1, <1>3, <2>1
    <3>2. QED
      BY <1>0, <1>1, <3>1 DEF ArtifactsHold
  <2>2. ASSUME NEW r \in Report \ astray, NEW u \in Request, <<"ready", r>> \in pending'[u]
        PROVE  <<"artifact", r>> \in pending'[u]
    BY <1>0, <1>1, <1>6, <2>2 DEF ArtifactsHold
  <2>3. \A r \in reviewing : status'[r] \notin {"NONE", "VALIDATED"}
    <3>1. TAKE r \in reviewing
    <3>2. r \in Report /\ status[r] \notin {"NONE", "VALIDATED"}
      BY <1>0 DEF ArtifactsHold, Types
    <3>3. ~Drafted(q, r)
      BY <1>0, <3>2 DEF WritesHold
    <3>4. QED
      BY <3>2, <3>3 DEF Stores
  <2>4. ASSUME NEW r \in Report \ astray, status'[r] \notin {"NONE", "VALIDATED"}
        PROVE  r \in artifact'
    <3>1. CASE status'[r] = status[r]
      BY <1>0, <2>4, <3>1 DEF ArtifactsHold, ReviewedHasArtifact, Stores
    <3>2. CASE <<"ready", r>> \in pending[q] /\ (<<"artifact", r>> \in pending[q] => r \in artifact')
      BY <1>0, <2>4, <3>2 DEF ArtifactsHold
    <3>3. QED
      BY <2>4, <3>1, <3>2 DEF Stores
  <2>5. QED
    BY <2>1, <2>2, <2>3, <2>4 DEF ArtifactsHold, ReviewedHasArtifact
<1>11. VersionsHold'
  <2>0. raced \subseteq raced' /\ version' = version /\ conn' = conn
        /\ \A r \in Report : pc'[r] = "insert" => pc[r] = "insert" /\ home'[r] = home[r]
    BY <1>1, <1>3 DEF Stores
  <2>1. ASSUME NEW p \in Report \ raced', NEW r \in Report \ raced', p # r,
               status[p] # "NONE" \/ Drafted(q, p), Drafted(q, r)
        PROVE  version[p] # version[r]
    <3>1. status[r] = "NONE" /\ version[r] # 0
      BY <1>0, <2>1 DEF WritesHold
    <3>2. CASE status[p] # "NONE"
      <4>1. version[p] < version[r]
        BY <1>0, <2>0, <2>1, <3>1, <3>2 DEF VersionsHold
      <4>2. QED
        BY <1>0, <4>1
    <3>3. CASE Drafted(q, p)
      BY <1>0, <2>0, <2>1, <3>3 DEF VersionsHold
    <3>4. QED
      BY <2>1, <3>2, <3>3
  <2>2. ASSUME NEW p \in Report, NEW r \in Report, p # r, status'[p] # "NONE",
               status'[r] # "NONE", version[p] = version[r]
        PROVE  {p, r} \cap raced' # {}
    <3>1. CASE status[p] # "NONE" /\ status[r] # "NONE"
      BY <1>0, <2>0, <2>2, <3>1 DEF VersionsHold, VersionsDiffer
    <3>2. CASE status[p] = "NONE" \/ status[r] = "NONE"
      <4>1. /\ status[p] # "NONE" \/ Drafted(q, p)
            /\ status[r] # "NONE" \/ Drafted(q, r)
        BY <1>8, <2>2
      <4>2. p \in raced' \/ r \in raced'
        BY <2>1, <2>2, <3>2, <4>1
      <4>3. QED
        BY <4>2
    <3>3. QED
      BY <3>1, <3>2
  <2>3. ASSUME NEW p \in Report, NEW r \in Report \ raced', status'[p] # "NONE",
               status'[r] = "NONE", version[r] # 0
        PROVE  version[p] < version[r]
    <3>1. status[p] # "NONE" /\ status[r] = "NONE" /\ r \notin raced
      BY <1>8, <2>0, <2>3 DEF Stores
    <3>2. QED
      BY <1>0, <2>3, <3>1 DEF VersionsHold
  <2>4. ASSUME NEW u \in Request, NEW p \in Report \ raced', NEW r \in Report \ raced', p # r,
               Drafted(u, p)',
               Drafted(u, r)' \/ (pc'[r] = "insert" /\ home'[r] = conn'[u])
        PROVE  version[p] # version[r]
    <3>1. \A v \in Request, x \in Report \ raced, y \in Report \ raced :
            /\ x # y /\ Drafted(v, x)
            /\ Drafted(v, y) \/ (pc[y] = "insert" /\ home[y] = conn[v])
            => version[x] # version[y]
      BY <1>0 DEF VersionsHold
    <3>2. /\ p \in Report \ raced /\ r \in Report \ raced /\ Drafted(u, p)
          /\ Drafted(u, r) \/ (pc[r] = "insert" /\ home[r] = conn[u])
      BY <1>6, <2>0, <2>4
    <3>3. QED
      BY <2>4, <3>1, <3>2
  <2>5. QED
    BY <2>0, <2>2, <2>3, <2>4 DEF VersionsHold, VersionsDiffer
<1>12. ApprovalsHold'
  <2>1. Approved' \subseteq Approved
    BY DEF Approved, Stores
  <2>2. QED
    BY <2>1 DEF ReportsInv, ApprovalsHold
<1>13. QED
  BY <1>2, <1>4, <1>5, <1>9, <1>10, <1>11, <1>12 DEF ReportsInv

\* A commit stores what it may.
LEMMA CommitStores ==
  ASSUME ReportsInv, NEW q \in Request, Commit(q)
  PROVE  Stores(q) /\ Release(q)
<1>0. Types /\ WritesHold /\ status \in [Report -> Status] /\ raced \subseteq Report
      /\ artifact \subseteq Report
  BY DEF ReportsInv, Types
<1>1. Release(q)
  BY DEF Commit
<1>2. CASE q \in broken
  <2>1. status' = status /\ artifact' = artifact /\ raced' = raced
    BY <1>2 DEF Commit, rowVars
  <2>2. QED
    BY <1>0, <1>1, <2>1 DEF Stores
<1>3. CASE q \notin broken
  <2>1. /\ status' = [r \in Report |->
               IF r \in Wrote(q, "ready") THEN "READY_FOR_REVIEW"
               ELSE IF r \in Wrote(q, "draft") THEN "VALIDATED" ELSE status[r]]
        /\ artifact' = artifact \cup Wrote(q, "artifact")
        /\ raced' = IF Wrote(q, "draft") = {} THEN raced
                    ELSE raced \cup {r \in Report : version[r] # 0 /\ status'[r] = "NONE"}
    BY <1>3 DEF Commit
  <2>2. /\ \A r \in Report : /\ r \in Wrote(q, "ready") <=> <<"ready", r>> \in pending[q]
                             /\ r \in Wrote(q, "draft") <=> Drafted(q, r)
                             /\ r \in Wrote(q, "artifact") <=> <<"artifact", r>> \in pending[q]
        /\ Wrote(q, "artifact") \subseteq Report
    BY DEF Wrote, Drafted
  <2>3. status' \in [Report -> Status]
    BY <1>0, <2>1 DEF Status
  <2>4. artifact \subseteq artifact' /\ artifact' \subseteq Report
    BY <1>0, <2>1, <2>2
  <2>5. \A r \in Report : \/ status'[r] = status[r]
                          \/ Drafted(q, r) /\ status'[r] = "VALIDATED"
                          \/ /\ <<"ready", r>> \in pending[q] /\ status'[r] = "READY_FOR_REVIEW"
                             /\ <<"artifact", r>> \in pending[q] => r \in artifact'
    BY <2>1, <2>2
  <2>6. raced \subseteq raced' /\ raced' \subseteq Report
    BY <1>0, <2>1
  <2>7. ASSUME NEW r \in Report, NEW p \in Report, status'[r] # "NONE", status[r] = "NONE",
               version[p] # 0, status'[p] = "NONE"
        PROVE  p \in raced'
    <3>1. Drafted(q, r)
      BY <1>0, <2>5, <2>7 DEF WritesHold
    <3>2. Wrote(q, "draft") # {}
      BY <2>2, <3>1
    <3>3. QED
      BY <2>1, <2>7, <3>2
  <2>8. QED
    BY <1>1, <2>3, <2>4, <2>5, <2>6, <2>7 DEF Stores
<1>4. QED
  BY <1>2, <1>3

LEMMA AnswerHolds ==
  ASSUME ReportsInv, NEW r \in Report, Answer(r)
  PROVE  ReportsInv'
<1>0. /\ Types /\ QueueHolds /\ PoolHolds /\ r \in Request /\ r \notin Visitor
      /\ pc[r] \in {"stored", "failed"}
  BY ReportsAssumption DEF ReportsInv, Request, Answer
<1>1. /\ UNCHANGED <<version, queue, running, home, reviewing, seen, crossed, astray>>
      /\ pc' = [pc EXCEPT ![r] = "over"]
  BY DEF Answer, queueVars, reviewVars
<1>2. /\ pc' \in [Request -> Step]
      /\ \A u \in Request : pc'[u] = IF u = r THEN "over" ELSE pc[u]
  BY <1>0, <1>1 DEF Types, Step
<1>3. Ends(r)
  BY <1>0, <1>2 DEF Ends
<1>4. CASE Open(r)
  <2>1. Stores(r) /\ Release(r)
    BY <1>0, <1>4, CommitStores DEF Answer
  <2>2. QED
    BY <1>0, <1>1, <1>3, <1>4, <2>1, EndHolds
<1>5. CASE ~Open(r)
  <2>1. UNCHANGED <<status, artifact, conn, holder, pending, broken, raced>>
    BY <1>5 DEF Answer, rowVars, connVars
  <2>2. Types'
    BY <1>0, <1>1, <1>2, <2>1 DEF Types
  <2>3. Jobs' = Jobs /\ Waiting' = Waiting /\ Asked' = Asked
    BY <1>0, <1>2 DEF Jobs, Waiting, Asked, JobStep, Request
  <2>4. QueueHolds'
    <3>1. \A q \in Report : /\ (pc'[q] \in JobStep => home[q] \in Conn)
                            /\ (pc'[q] \in {"idle", "waiting"} => home[q] = Nobody)
      BY <1>0, <1>2 DEF QueueHolds, JobStep, Request
    <3>2. /\ Len(queue) <= MaxPending
          /\ {queue[i] : i \in 1 .. Len(queue)} = Waiting
          /\ \A i, j \in 1 .. Len(queue) : queue[i] = queue[j] => i = j
          /\ IsFiniteSet(Asked) /\ running = Cardinality(Jobs) /\ running <= MaxConcurrent
      BY <1>0 DEF QueueHolds
    <3>3. queue' = queue /\ running' = running /\ home' = home
      BY <1>1
    <3>4. QED
      BY <2>3, <3>1, <3>2, <3>3 DEF QueueHolds
  <2>5. PoolHolds'
    <3>1. \A u \in Request : pc'[u] = "idle" => conn[u] = Nobody
      BY <1>0, <1>2 DEF PoolHolds
    <3>2. \A v \in Visitor : pending[v] = {} /\ (pc'[v] = "waiting" => Open(v))
      BY <1>0, <1>2 DEF PoolHolds, Request
    <3>3. QED
      BY <1>0, <2>1, <3>1, <3>2 DEF PoolHolds, Open
  <2>6. Moves(r) /\ pc'[r] = "over" /\ home'[r] = home[r]
    BY <1>0, <1>1, <1>2 DEF Moves
  <2>7. RowsHold'
    BY <1>1, <2>1, <2>6, RestHolds
  <2>8. QED
    BY <2>2, <2>4, <2>5, <2>7 DEF ReportsInv, RowsHold
<1>6. QED
  BY <1>4, <1>5

LEMMA CutHolds ==
  ASSUME ReportsInv, NEW r \in Report, Cut(r)
  PROVE  ReportsInv'
<1>1. /\ r \in Request /\ r \notin Visitor /\ Open(r) /\ Commit(r)
      /\ UNCHANGED <<version, pc, queue, running, home, reviewing, seen, crossed, astray>>
  BY ReportsAssumption DEF Cut, Request, queueVars, reviewVars
<1>2. Stores(r) /\ Release(r)
  BY <1>1, CommitStores
<1>3. Ends(r)
  BY <1>1 DEF Ends, ReportsInv, Types
<1>4. QED
  BY <1>1, <1>2, <1>3, EndHolds

LEMMA DepartHolds ==
  ASSUME ReportsInv, NEW v \in Visitor, Depart(v)
  PROVE  ReportsInv'
<1>1. /\ v \in Request /\ pc[v] = "waiting" /\ Commit(v)
      /\ UNCHANGED <<version, queue, running, home, reviewing, seen, crossed, astray>>
      /\ pc' = [pc EXCEPT ![v] = "over"] /\ pc \in [Request -> Step]
  BY DEF Depart, Request, queueVars, reviewVars, ReportsInv, Types
<1>2. Open(v)
  BY <1>1 DEF ReportsInv, PoolHolds
<1>3. Stores(v) /\ Release(v)
  BY <1>1, CommitStores
<1>4. /\ pc' \in [Request -> Step]
      /\ \A u \in Request : pc'[u] = IF u = v THEN "over" ELSE pc[u]
  BY <1>1 DEF Step
<1>5. Ends(v)
  BY <1>1, <1>4 DEF Ends
<1>6. QED
  BY <1>1, <1>2, <1>3, <1>5, EndHolds

LEMMA TimeOutHolds ==
  ASSUME ReportsInv, NEW r \in Report, TimeOut(r)
  PROVE  ReportsInv'
<1>1. /\ r \in Request /\ r \notin Visitor /\ Open(r) /\ Release(r)
      /\ UNCHANGED <<status, artifact, version, pc, queue, running, home, reviewing, seen,
                     crossed, raced, astray>>
  BY ReportsAssumption DEF TimeOut, Request, rowVars, queueVars, reviewVars
<1>2. Stores(r)
  BY <1>1 DEF Stores, ReportsInv, Types
<1>3. Ends(r)
  BY <1>1 DEF Ends, ReportsInv, Types
<1>4. QED
  BY <1>1, <1>2, <1>3, EndHolds

-----------------------------------------------------------------------------
(* Approval, and the specification *)

LEMMA ReviewHolds ==
  ASSUME ReportsInv, NEW r \in Report, Review(r)
  PROVE  ReportsInv'
<1>1. /\ status[r] = "READY_FOR_REVIEW"
      /\ reviewing' = reviewing \cup {r} /\ seen' = [seen EXCEPT ![r] = Approved]
      /\ UNCHANGED <<status, artifact, version, pc, conn, holder, pending, broken, queue, running,
                     home, crossed, raced, astray>>
  BY DEF Review, rowVars, connVars, queueVars
<1>2. Types /\ QueueHolds /\ PoolHolds /\ WritesHold /\ ArtifactsHold /\ VersionsHold
  BY DEF ReportsInv
<1>3. Approved \in SUBSET Report
  BY DEF Approved
<1>4. seen' \in [Report -> SUBSET Report]
      /\ \A q \in Report : seen'[q] = IF q = r THEN Approved ELSE seen[q]
  BY <1>1, <1>2, <1>3 DEF Types
<1>5. Types'
  BY <1>1, <1>2, <1>4 DEF Types
<1>6. QueueHolds'
  BY <1>1, <1>2 DEF QueueHolds, Jobs, Waiting, Asked
<1>7. PoolHolds' /\ WritesHold'
  BY <1>1, <1>2 DEF PoolHolds, WritesHold, Unstored, Drafted, Open
<1>8. ArtifactsHold'
  BY <1>1, <1>2 DEF ArtifactsHold, ReviewedHasArtifact, Open
<1>9. VersionsHold'
  BY <1>1, <1>2 DEF VersionsHold, VersionsDiffer, Drafted
<1>10. ApprovalsHold'
  <2>1. Approved' = Approved
    BY <1>1 DEF Approved
  <2>2. reviewing \subseteq Report
    BY <1>2 DEF Types
  <2>3. QED
    BY <1>1, <1>4, <2>1, <2>2 DEF ReportsInv, ApprovalsHold
<1>11. QED
  BY <1>5, <1>6, <1>7, <1>8, <1>9, <1>10 DEF ReportsInv

\* An approval that no other overlaps replaces the approved report there was.
LEMMA ApproveHolds ==
  ASSUME ReportsInv, NEW r \in Report, Approve(r)
  PROVE  ReportsInv'
<1>1. /\ r \in reviewing
      /\ status' = [q \in Report |-> IF q = r THEN "APPROVED_INTERNALLY"
                                     ELSE IF q \in Replaced(r) THEN "SUPERSEDED" ELSE status[q]]
      /\ reviewing' = reviewing \ {r} /\ seen' = [seen EXCEPT ![r] = {}]
      /\ crossed' = (crossed \/ reviewing # {r})
      /\ UNCHANGED <<artifact, version, pc, conn, holder, pending, broken, queue, running,
                     home, raced, astray>>
  BY DEF Approve, connVars, queueVars
<1>2. Types /\ QueueHolds /\ PoolHolds /\ WritesHold /\ ArtifactsHold /\ VersionsHold
  BY DEF ReportsInv
<1>3. \A q \in Report : status'[q] = IF q = r THEN "APPROVED_INTERNALLY"
                        ELSE IF q \in Replaced(r) THEN "SUPERSEDED" ELSE status[q]
  BY <1>1
<1>4. \A q \in Report : q = r \/ q \in Replaced(r) => status[q] \notin {"NONE", "VALIDATED"}
  BY <1>1, <1>2 DEF ArtifactsHold, Replaced, Approved
<1>5. \A q \in Report : /\ status'[q] = "NONE" <=> status[q] = "NONE"
                        /\ status'[q] \in {"NONE", "VALIDATED"}
                           <=> status[q] \in {"NONE", "VALIDATED"}
  BY <1>3, <1>4
<1>6. Types'
  <2>1. status' \in [Report -> Status]
    BY <1>1, <1>2 DEF Types, Status
  <2>2. seen' \in [Report -> SUBSET Report]
    BY <1>1, <1>2 DEF Types
  <2>3. QED
    BY <1>1, <1>2, <2>1, <2>2 DEF Types
<1>7. QueueHolds'
  BY <1>1, <1>2 DEF QueueHolds, Jobs, Waiting, Asked
<1>8. PoolHolds'
  BY <1>1, <1>2 DEF PoolHolds, Open
<1>9. WritesHold'
  BY <1>1, <1>2, <1>5 DEF WritesHold, Unstored, Drafted
<1>10. ArtifactsHold'
  <2>1. reviewing' \subseteq reviewing /\ reviewing \subseteq Report
    BY <1>1, <1>2 DEF Types
  <2>2. /\ ReviewedHasArtifact'
        /\ \A q \in reviewing' : status'[q] \notin {"NONE", "VALIDATED"}
    BY <1>1, <1>2, <1>5, <2>1 DEF ArtifactsHold, ReviewedHasArtifact
  <2>3. QED
    BY <1>1, <1>2, <2>2 DEF ArtifactsHold, Open
<1>11. VersionsHold'
  BY <1>1, <1>2, <1>5 DEF VersionsHold, VersionsDiffer, Drafted
<1>12. ApprovalsHold'
  <2>1. CASE crossed'
    BY <2>1 DEF ApprovalsHold
  <2>2. CASE ~crossed'
    <3>1. ~crossed /\ reviewing = {r} /\ reviewing' = {}
      BY <1>1, <2>2
    <3>2. Approved \subseteq seen[r]
      BY <1>1, <3>1 DEF ReportsInv, ApprovalsHold
    <3>3. \A q \in Report : status'[q] = "APPROVED_INTERNALLY" => q = r
      BY <1>3, <3>2 DEF Replaced, Approved
    <3>4. QED
      BY <3>1, <3>3 DEF ApprovalsHold, Approved
  <2>3. QED
    BY <2>1, <2>2
<1>13. QED
  BY <1>6, <1>7, <1>8, <1>9, <1>10, <1>11, <1>12 DEF ReportsInv

LEMMA InitHolds == Init => ReportsInv
<1> SUFFICES ASSUME Init PROVE ReportsInv
  OBVIOUS
<1>0. /\ \A q \in Request : pc[q] = "idle" /\ conn[q] = Nobody /\ pending[q] = {}
      /\ \A r \in Report : status[r] = "NONE" /\ version[r] = 0 /\ r \in Request
  BY DEF Init, Request
<1>1. Types
  <2>1. /\ status \in [Report -> Status] /\ version \in [Report -> Nat]
        /\ pc \in [Request -> Step]
    BY DEF Init, Status, Step
  <2>2. /\ conn \in [Request -> Conn \cup {Nobody}] /\ holder \in [Conn -> Request \cup {Nobody}]
        /\ home \in [Report -> Conn \cup {Nobody}] /\ pending \in [Request -> SUBSET Write]
        /\ seen \in [Report -> SUBSET Report]
    BY DEF Init
  <2>3. queue \in Seq(Report) /\ running \in Nat
    BY DEF Init
  <2>4. QED
    BY <2>1, <2>2, <2>3 DEF Init, Types
<1>2. QueueHolds
  <2>1. Jobs = {} /\ Waiting = {} /\ Asked = {}
    BY DEF Init, Jobs, Waiting, Asked, JobStep, Request
  <2>2. IsFiniteSet({}) /\ Cardinality({}) = 0
    BY FS_EmptySet
  <2>3. Len(queue) = 0 /\ MaxPending \in Nat /\ MaxConcurrent \in Nat /\ running = 0
    BY ReportsAssumption DEF Init
  <2>4. {queue[i] : i \in 1 .. Len(queue)} = {}
    BY <2>3
  <2>5. QED
    BY <2>1, <2>2, <2>3, <2>4 DEF Init, QueueHolds, JobStep, Request
<1>3. PoolHolds
  BY ReportsAssumption DEF Init, PoolHolds, Request
<1>4. WritesHold
  BY <1>0 DEF WritesHold, Unstored, Drafted
<1>5. ArtifactsHold /\ VersionsHold
  BY DEF Init, ArtifactsHold, ReviewedHasArtifact, VersionsHold, VersionsDiffer, Request, Drafted,
         JobStep
<1>6. ApprovalsHold
  BY DEF Init, ApprovalsHold, Approved
<1>7. QED
  BY <1>1, <1>2, <1>3, <1>4, <1>5, <1>6 DEF ReportsInv

LEMMA NextHolds == ReportsInv /\ [Next]_vars => ReportsInv'
<1> SUFFICES ASSUME ReportsInv, [Next]_vars PROVE ReportsInv'
  OBVIOUS
<1>1. ASSUME NEW r \in Report, Generate(r) \/ Job(r) \/ Fail(r) PROVE ReportsInv'
  BY <1>1, GenerateHolds, ReadHolds, WriteHolds, FailHolds DEF Job
<1>2. ASSUME NEW r \in Report, Answer(r) \/ Cut(r) \/ TimeOut(r) PROVE ReportsInv'
  BY <1>2, AnswerHolds, CutHolds, TimeOutHolds
<1>3. ASSUME NEW r \in Report, Review(r) \/ Approve(r) PROVE ReportsInv'
  BY <1>3, ReviewHolds, ApproveHolds
<1>4. ASSUME NEW v \in Visitor, Visit(v) \/ Depart(v) PROVE ReportsInv'
  BY <1>4, VisitHolds, DepartHolds
<1>5. CASE UNCHANGED vars
  <2>1. UNCHANGED <<status, artifact, version, pc, conn, holder, pending, broken, queue, running,
                    home, reviewing, seen, crossed, raced, astray>>
    BY <1>5 DEF vars, rowVars, connVars, queueVars, reviewVars
  <2>2. Types' /\ QueueHolds'
    BY <2>1 DEF ReportsInv, Types, QueueHolds, Jobs, Waiting, Asked
  <2>3. PoolHolds' /\ WritesHold'
    BY <2>1 DEF ReportsInv, PoolHolds, WritesHold, Unstored, Drafted, Open
  <2>4. ArtifactsHold'
    BY <2>1 DEF ReportsInv, ArtifactsHold, ReviewedHasArtifact, Open
  <2>5. VersionsHold' /\ ApprovalsHold'
    BY <2>1 DEF ReportsInv, VersionsHold, VersionsDiffer, Drafted, ApprovalsHold, Approved
  <2>6. QED
    BY <2>2, <2>3, <2>4, <2>5 DEF ReportsInv
<1>6. QED
  BY <1>1, <1>2, <1>3, <1>4, <1>5 DEF Next

LEMMA ReportsInvariant == Spec => []ReportsInv
  BY InitHolds, NextHolds, PTL DEF Spec

\* The queue is within its bounds and holds the waiting jobs, a slot is busy for
\* every job that runs, and what was written is in an open transaction.
THEOREM TypeCorrect == Spec => []TypeOK
<1>1. ReportsInv => TypeOK
  BY DEF ReportsInv, Types, QueueHolds, PoolHolds, TypeOK, Jobs, Waiting
<1>2. QED
  BY <1>1, ReportsInvariant, PTL

\* A report that can be reviewed has its artifact, unless a statement strayed.
THEOREM ReviewedHasArtifactCorrect == Spec => []ReviewedHasArtifact
<1>1. ReportsInv => ReviewedHasArtifact
  BY DEF ReportsInv, ArtifactsHold
<1>2. QED
  BY <1>1, ReportsInvariant, PTL

\* One report of a period is approved, unless two approvals overlapped.
THEOREM OneApprovedCorrect == Spec => []OneApproved
<1>1. ReportsInv => OneApproved
  <2> SUFFICES ASSUME ReportsInv, ~crossed PROVE Cardinality(Approved) <= 1
    BY DEF OneApproved
  <2>1. \A q, r \in Approved : q = r
    BY DEF ReportsInv, ApprovalsHold
  <2>2. CASE Approved = {}
    <3>1. Cardinality({}) = 0
      BY FS_EmptySet
    <3>2. QED
      BY <2>2, <3>1
  <2>3. CASE Approved # {}
    <3>1. PICK r : r \in Approved
      BY <2>3
    <3>2. Approved = {r}
      BY <2>1, <3>1
    <3>3. Cardinality({r}) = 1
      BY FS_Singleton
    <3>4. QED
      BY <3>2, <3>3
  <2>4. QED
    BY <2>2, <2>3
<1>2. QED
  BY <1>1, ReportsInvariant, PTL

\* Two reports of a period have different versions, unless one was numbered
\* before the other was stored.
THEOREM VersionsDifferCorrect == Spec => []VersionsDiffer
<1>1. ReportsInv => VersionsDiffer
  BY DEF ReportsInv, VersionsHold
<1>2. QED
  BY <1>1, ReportsInvariant, PTL
=============================================================================
