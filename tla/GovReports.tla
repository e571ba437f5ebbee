----------------------------- MODULE GovReports -----------------------------
(***************************************************************************)
(* Government reports of one type and period: the bounded queue that       *)
(* generates them in the process, the transactions the jobs write in, and  *)
(* their approval. A request holds a connection and its transaction while  *)
(* its job waits and runs. A job finds its transaction through the async   *)
(* context in which the queue started it: the context of its own request   *)
(* if a slot was free, else that of the job whose end freed one.           *)
(***************************************************************************)
EXTENDS Integers, Sequences, FiniteSets, FiniteSetsExt

CONSTANTS
  Report,        \* requests for a report, and the report each makes
  Visitor,       \* requests of other schools
  Conn,          \* connections of the pool
  MaxConcurrent, \* REPORT_GENERATION_CONCURRENCY
  MaxPending,    \* REPORT_GENERATION_MAX_PENDING
  MaxFaults      \* bound: cut or lost connections, and jobs that fail by themselves

ASSUME ReportsAssumption ==
  /\ MaxConcurrent \in Nat \ {0} /\ MaxPending \in Nat \ {0} /\ MaxFaults \in Nat
  /\ Report \cap Visitor = {} /\ "nobody" \notin Report \cup Visitor \cup Conn

Request == Report \cup Visitor
Nobody  == "nobody"
JobStep == {"read", "insert", "persist", "record"}
Step    == JobStep \cup {"idle", "waiting", "stored", "failed", "over"}
Status  == {"NONE", "VALIDATED", "READY_FOR_REVIEW", "APPROVED_INTERNALLY", "SUPERSEDED"}
Write   == {"draft", "artifact", "ready"} \X Report

VARIABLES
  status, version, \* report_approvals, by report; a version is set before it is stored
  artifact,        \* reports with a row in report_artifacts
  pc,              \* the requests and their jobs
  conn, holder,    \* the connection of a request; the request whose transaction it is in
  home,            \* the connection the job of a report sends its statements to
  pending,         \* what the open transaction of a request has written
  broken,          \* requests whose transaction a statement aborted
  queue, running,  \* the queue: waiting jobs and busy slots
  reviewing, seen, \* approvals under way, and the approved reports each found
  crossed,         \* history: approvals overtaken by another
  raced,           \* history: reports whose version may be read too early
  astray,          \* history: reports with a statement outside their own transaction
  faults

rowVars    == <<status, artifact>>
connVars   == <<conn, holder, pending, broken>>
queueVars  == <<queue, running, home>>
reviewVars == <<reviewing, seen, crossed>>
vars == <<rowVars, version, pc, connVars, queueVars, reviewVars, raced, astray, faults>>

Init ==
  /\ status = [r \in Report |-> "NONE"]
  /\ version = [r \in Report |-> 0]
  /\ artifact = {}
  /\ pc = [q \in Request |-> "idle"]
  /\ conn = [q \in Request |-> Nobody]
  /\ holder = [c \in Conn |-> Nobody]
  /\ home = [r \in Report |-> Nobody]
  /\ pending = [q \in Request |-> {}]
  /\ broken = {}
  /\ queue = << >> /\ running = 0
  /\ reviewing = {} /\ seen = [r \in Report |-> {}]
  /\ crossed = FALSE /\ raced = {} /\ astray = {}
  /\ faults = 0

Fault == faults < MaxFaults /\ faults' = faults + 1
Open(q) == conn[q] # Nobody /\ holder[conn[q]] = q

-----------------------------------------------------------------------------
(* Connections and transactions *)

Take(q, c) ==
  /\ holder[c] = Nobody
  /\ conn' = [conn EXCEPT ![q] = c]
  /\ holder' = [holder EXCEPT ![c] = q]

Release(q) ==
  /\ holder' = [holder EXCEPT ![conn[q]] = Nobody]
  /\ pending' = [pending EXCEPT ![q] = {}]
  /\ broken' = broken \ {q}
  /\ UNCHANGED conn

Wrote(q, what) == {r \in Report : <<what, r>> \in pending[q]}

\* A commit keeps what the transaction wrote unless a statement aborted it. The
\* drafts others are about to number did not see its drafts.
Commit(q) ==
  /\ IF q \in broken THEN UNCHANGED <<rowVars, raced>>
     ELSE /\ status' = [r \in Report |->
               IF r \in Wrote(q, "ready") THEN "READY_FOR_REVIEW"
               ELSE IF r \in Wrote(q, "draft") THEN "VALIDATED" ELSE status[r]]
          /\ artifact' = artifact \cup Wrote(q, "artifact")
          /\ raced' = IF Wrote(q, "draft") = {} THEN raced
                      ELSE raced \cup {r \in Report : version[r] # 0 /\ status'[r] = "NONE"}
  /\ Release(q)

-----------------------------------------------------------------------------
(* The queue *)

\* Starts the next job, if there is one and a slot is free, in the context of
\* the request or job that is running now.
Drain(waiting, busy, context) ==
  IF waiting # << >> /\ busy < MaxConcurrent
  THEN /\ queue' = Tail(waiting) /\ running' = busy + 1
       /\ home' = [home EXCEPT ![Head(waiting)] = context]
  ELSE queue' = waiting /\ running' = busy /\ UNCHANGED home

Started == {r \in Report : home[r] = Nobody /\ home'[r] # Nobody}

\* Mutant of Full: the pending jobs are not counted.
X_NeverFull == FALSE
Full == running >= MaxConcurrent /\ Len(queue) >= MaxPending

\* A request that found the queue full is refused.
Generate(r) ==
  /\ pc[r] = "idle"
  /\ \E c \in Conn :
       /\ Take(r, c)
       /\ IF Full THEN pc' = [pc EXCEPT ![r] = "failed"] /\ UNCHANGED queueVars
          ELSE /\ Drain(Append(queue, r), running, c)
               /\ pc' = [q \in Request |-> IF q \in Started THEN "read"
                                           ELSE IF q = r THEN "waiting" ELSE pc[q]]
  /\ UNCHANGED <<rowVars, version, pending, broken, reviewVars, raced, astray, faults>>

\* Mutant of Settle: a slot is freed only by a job that succeeds.
X_SettleOnSuccess(r, outcome) ==
  /\ IF outcome = "stored" THEN Drain(queue, running - 1, home[r]) ELSE UNCHANGED queueVars
  /\ pc' = [q \in Request |-> IF q = r THEN outcome
                              ELSE IF q \in Started THEN "read" ELSE pc[q]]

\* The job is over, one way or the other; its slot goes to the next one.
Settle(r, outcome) ==
  /\ Drain(queue, running - 1, home[r])
  /\ pc' = [q \in Request |-> IF q = r THEN outcome
                              ELSE IF q \in Started THEN "read" ELSE pc[q]]

-----------------------------------------------------------------------------
(* A job: its statements go to its home connection, whoever has it now *)

Host(r) == holder[home[r]]
AtHome(r) == Host(r) = r
Kept(u, r) == status[r] # "NONE" \/ r \in Wrote(u, "draft")

\* Row-level security: nothing is visible or written but in a transaction of the
\* school, and a violation aborts the transaction it happens in.
Allowed(r) ==
  /\ Host(r) \in Report \ broken
  /\ pc[r] = "insert" \/ Kept(Host(r), r)

\* Mutant of After: the artifact is recorded before it is stored.
X_RecordFirst(step) ==
  CASE step = "read" -> "insert" [] step = "insert" -> "record"
    [] step = "record" -> "persist" [] step = "persist" -> "stored"

After(step) ==
  CASE step = "read" -> "insert" [] step = "insert" -> "persist"
    [] step = "persist" -> "record" [] step = "record" -> "stored"

Strays(r) == astray' = IF AtHome(r) THEN astray ELSE astray \cup {r}

\* Mutant of Latest: the first version of the period is read.
X_First(S) == IF S = {} THEN 0 ELSE Min({version[q] : q \in S})
Latest(S) == IF S = {} THEN 0 ELSE Max({version[q] : q \in S})

ReadVersion(r) ==
  /\ pc[r] = "read"
  /\ LET u == Host(r)
         visible == IF u \in Report THEN {q \in Report : Kept(u, q)} ELSE {} IN
     IF u \in broken
     THEN Settle(r, "failed") /\ UNCHANGED <<version, raced>>
     ELSE /\ version' = [version EXCEPT ![r] = Latest(visible) + 1]
          /\ raced' = IF u \in Report THEN raced ELSE raced \cup {r}
          /\ pc' = [pc EXCEPT ![r] = "insert"]
          /\ UNCHANGED queueVars
  /\ Strays(r)
  /\ UNCHANGED <<rowVars, connVars, reviewVars, faults>>

Written(step, r) ==
  CASE step = "insert" -> <<"draft", r>> [] step = "persist" -> <<"artifact", r>>
    [] step = "record" -> <<"ready", r>>

\* A draft races with those that were numbered in the same transaction before.
WriteRow(r) ==
  /\ pc[r] \in {"insert", "persist", "record"}
  /\ IF Allowed(r)
     THEN /\ pending' = [pending EXCEPT ![Host(r)] = @ \cup {Written(pc[r], r)}]
          /\ IF After(pc[r]) = "stored" THEN Settle(r, "stored")
             ELSE pc' = [pc EXCEPT ![r] = After(pc[r])] /\ UNCHANGED queueVars
          /\ raced' = raced \cup {q \in Report \ {r} : /\ pc[r] = "insert" /\ pc[q] = "insert"
                                                      /\ home[q] = home[r]}
          /\ UNCHANGED broken
     ELSE /\ broken' = IF pc[r] = "record" THEN broken ELSE broken \cup ({Host(r)} \ {Nobody})
          /\ Settle(r, "failed")
          /\ UNCHANGED <<pending, raced>>
  /\ Strays(r)
  /\ UNCHANGED <<rowVars, version, conn, holder, reviewVars, faults>>

\* The workbook cannot be built, or is larger than an artifact may be.
Fail(r) ==
  /\ pc[r] = "persist"
  /\ Fault
  /\ Settle(r, "failed")
  /\ UNCHANGED <<rowVars, version, connVars, reviewVars, raced, astray>>

-----------------------------------------------------------------------------
(* The end of a request *)

\* The answer is sent; the transaction commits when the response is finished.
Answer(r) ==
  /\ pc[r] \in {"stored", "failed"}
  /\ pc' = [pc EXCEPT ![r] = "over"]
  /\ IF Open(r) THEN Commit(r) ELSE UNCHANGED <<rowVars, connVars, raced>>
  /\ UNCHANGED <<version, queueVars, reviewVars, astray, faults>>

\* The client goes away: its transaction commits, its job stays in the queue.
Cut(r) ==
  /\ Open(r) /\ pc[r] \in JobStep \cup {"waiting"}
  /\ Fault
  /\ Commit(r)
  /\ UNCHANGED <<version, pc, queueVars, reviewVars, astray>>

\* The server closes a connection that is idle in its transaction for too long.
TimeOut(r) ==
  /\ Open(r) /\ pc[r] # "idle"
  /\ Fault
  /\ Release(r)
  /\ UNCHANGED <<rowVars, version, pc, queueVars, reviewVars, raced, astray>>

Visit(v) ==
  /\ pc[v] = "idle"
  /\ \E c \in Conn : Take(v, c)
  /\ pc' = [pc EXCEPT ![v] = "waiting"]
  /\ UNCHANGED <<rowVars, version, pending, broken, queueVars, reviewVars, raced, astray, faults>>

Depart(v) ==
  /\ pc[v] = "waiting"
  /\ pc' = [pc EXCEPT ![v] = "over"]
  /\ Commit(v)
  /\ UNCHANGED <<version, queueVars, reviewVars, astray, faults>>

-----------------------------------------------------------------------------
(* Approval *)

Approved == {r \in Report : status[r] = "APPROVED_INTERNALLY"}

\* The report is locked and the approved ones are found; another approval may
\* be under way.
Review(r) ==
  /\ r \notin reviewing /\ status[r] = "READY_FOR_REVIEW"
  /\ reviewing' = reviewing \cup {r}
  /\ seen' = [seen EXCEPT ![r] = Approved]
  /\ UNCHANGED <<rowVars, version, pc, connVars, queueVars, crossed, raced, astray, faults>>

\* Mutant of Replaced: nothing is superseded.
X_NothingReplaced(r) == {}

\* What the approval of r supersedes, whatever its version.
Replaced(r) == seen[r] \cap Approved

Approve(r) ==
  /\ r \in reviewing
  /\ status' = [q \in Report |-> IF q = r THEN "APPROVED_INTERNALLY"
                                 ELSE IF q \in Replaced(r) THEN "SUPERSEDED" ELSE status[q]]
  /\ reviewing' = reviewing \ {r}
  /\ seen' = [seen EXCEPT ![r] = {}]
  /\ crossed' = (crossed \/ reviewing # {r})
  /\ UNCHANGED <<artifact, version, pc, connVars, queueVars, raced, astray, faults>>

-----------------------------------------------------------------------------
Job(r) == ReadVersion(r) \/ WriteRow(r)

Next ==
  \/ \E r \in Report : \/ Generate(r) \/ Job(r) \/ Fail(r) \/ Answer(r)
                       \/ Cut(r) \/ TimeOut(r) \/ Review(r) \/ Approve(r)
  \/ \E v \in Visitor : Visit(v) \/ Depart(v)

\* A job that was started goes on to its end.
Spec == Init /\ [][Next]_vars /\ \A r \in Report : WF_vars(Job(r))

-----------------------------------------------------------------------------
(* Properties *)

\* The values of the state; the queue holds the waiting jobs within its bounds
\* and a slot is busy for every job that runs, whatever becomes of the jobs.
TypeOK ==
  /\ status \in [Report -> Status] /\ version \in [Report -> Nat] /\ artifact \subseteq Report
  /\ pc \in [Request -> Step]
  /\ conn \in [Request -> Conn \cup {Nobody}] /\ holder \in [Conn -> Request \cup {Nobody}]
  /\ home \in [Report -> Conn \cup {Nobody}] /\ pending \in [Request -> SUBSET Write]
  /\ broken \cup {q \in Request : pending[q] # {}} \subseteq {q \in Request : Open(q)}
  /\ reviewing \subseteq Report /\ seen \in [Report -> SUBSET Report]
  /\ raced \cup astray \subseteq Report /\ crossed \in BOOLEAN
  /\ Len(queue) <= MaxPending
  /\ {queue[i] : i \in 1 .. Len(queue)} = {r \in Report : pc[r] = "waiting"}
  /\ running = Cardinality({r \in Report : pc[r] \in JobStep}) /\ running <= MaxConcurrent

\* A report that can be reviewed or was approved has its artifact, unless its
\* job wrote outside the transaction of its own request.
ReviewedHasArtifact ==
  \A r \in Report :
    status[r] \notin {"NONE", "VALIDATED"} => r \in artifact \/ r \in astray

\* One report of a period is approved at a time, unless two approvals overlap.
OneApproved == Cardinality(Approved) <= 1 \/ crossed

\* Two reports of a period have the same version only if one of them was
\* numbered before the other was stored.
VersionsDiffer ==
  \A q, r \in Report :
    /\ q # r /\ status[q] # "NONE" /\ status[r] # "NONE" /\ version[q] = version[r]
    => {q, r} \cap raced # {}

\* A job that waits is started, even if every job before it fails.
WaitingStarts == \A r \in Report : pc[r] = "waiting" ~> pc[r] # "waiting"

\* docs/reference/rbac.md: "Tenant queries run inside `withTenantContext(schoolId)`".
TenantQueries ==
  \A r \in Report : pc[r] \in JobStep => home[r] = conn[r]

\* docs/reference/reports.md on SUPERSEDED: "A newer internal version replaced it".
SupersededByNewer ==
  \A r \in Report : status[r] = "SUPERSEDED" =>
    \E q \in Report : status[q] # "NONE" /\ version[q] > version[r]
=============================================================================
