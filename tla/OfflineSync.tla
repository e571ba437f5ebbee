----------------------------- MODULE OfflineSync -----------------------------
(***************************************************************************)
(* Offline scans on their way to the register: the outbox of one browser   *)
(* (IndexedDB), the concurrent flushes its tabs and components start, the  *)
(* requests they post, and the transaction of each request on the server.  *)
(*                                                                         *)
(* A browser scans a student once per session (processOfflineQRCode), so   *)
(* an event also names the attendance record of its student. Steps are the *)
(* IndexedDB and SQL statements other tabs and transactions can tell apart.*)
(***************************************************************************)
EXTENDS Integers, FiniteSets

CONSTANTS
  Event,          \* scans of one attendance session, each of its own student
  Flush,          \* concurrent runs of syncOutboxEvents
  Request,        \* requests the server processes at a time
  MaxSyncRetries, \* MAX_SYNC_RETRIES
  BatchSize,      \* SYNC_BATCH_SIZE
  MaxFaults,      \* bound: closed tabs, lost connections, dead transactions
  MaxEdits,       \* bound: edits of the register by others
  MaxAdmin,       \* bound: finalizations, reopenings and QR revocations
  MaxUnfiled,     \* bound: students without a record at the start
  MaxLogouts      \* bound: logouts

ASSUME SyncAssumption ==
  /\ MaxSyncRetries \in Nat \ {0} /\ BatchSize \in Nat \ {0}
  /\ {MaxFaults, MaxEdits, MaxAdmin, MaxLogouts, MaxUnfiled} \subseteq Nat
  /\ <<>> \notin Event /\ "nobody" \notin Flush

\* A row of the outbox; NONE: there is no row.
Row      == [status : {"NONE", "PENDING", "SYNCING", "SYNCED", "FAILED",
                       "PERMANENT_FAILURE", "CONFLICT"},
             tries : Nat, token : BOOLEAN]
NoRow    == [status |-> "NONE", tries |-> 0, token |-> FALSE]
\* What a flush keeps in memory of the rows it selected.
Copy     == [id : Event, tries : Nat, token : BOOLEAN]
\* The status of a record; NONE: the student has no record in the session.
Mark     == {"NONE", "UNMARKED", "PRESENT", "OVERRIDE"}
Result   == {"ACCEPTED", "ALREADY_PROCESSED", "LOCKED", "PERMANENT", "RETRYABLE"}
Results  == [Event -> Result \cup {"none"}]
NoResult == [e \in Event |-> "none"]
AllFailed == [e \in Event |-> "RETRYABLE"]
\* The open transaction of a request: what it wrote, and whether it is aborted.
Tx       == [inserted : SUBSET Event, marked : SUBSET Event,
             flagged : SUBSET Event, dead : BOOLEAN]
NoTx     == [inserted |-> {}, marked |-> {}, flagged |-> {}, dead |-> FALSE]
NoCopy   == [id |-> <<>>, tries |-> 0, token |-> FALSE]

VARIABLES
  outbox,     \* syncOutbox, by client event id
  pc, copies, sent, answer,     \* the flushes
  client,     \* the flush that waits for a request
  stage, todo, cur, saw, result, tx,  \* the requests
  session,    \* attendance_sessions.status
  roster,     \* attendance_session_roster, which never changes
  record,     \* attendance_records.status, as committed
  conflicted, \* attendance_records.has_conflict, as committed
  recorded,   \* attendance_events by client_event_id, as committed
  revoked,    \* qr_credentials that were revoked after the scan
  spent,      \* how much of each bound is used
  scanned,    \* history: every scan of the browser
  lost,       \* history: acknowledged by a response whose commit failed
  torn,       \* history: logged by a transaction committed before the projection
  unfiled     \* history: without a record when the session was finalized

flushVars   == <<pc, copies, sent, answer>>
requestVars == <<client, stage, todo, cur, saw, result, tx>>
serverVars  == <<session, roster, record, conflicted, recorded, revoked>>
vars == <<outbox, flushVars, requestVars, serverVars, spent, scanned, lost, torn, unfiled>>

Nobody == "nobody"
Spend(what) == spent' = [spent EXCEPT ![what] = @ + 1]
Fault == spent.faults < MaxFaults /\ Spend("faults")

\* The session was made with a roster and a record for each student of it. A
\* transaction that was cut left it without records, or without either; and a
\* scan may be of a student who is not on the roster.
Init ==
  /\ outbox = [e \in Event |-> NoRow]
  /\ pc = [f \in Flush |-> "idle"]
  /\ copies = [f \in Flush |-> {}]
  /\ sent = [f \in Flush |-> {}]
  /\ answer = [f \in Flush |-> NoResult]
  /\ client = [r \in Request |-> Nobody]
  /\ stage = [r \in Request |-> "free"]
  /\ todo = [r \in Request |-> {}]
  /\ cur = [r \in Request |-> NoCopy]
  /\ saw = [r \in Request |-> "UNMARKED"]
  /\ result = [r \in Request |-> NoResult]
  /\ tx = [r \in Request |-> NoTx]
  /\ session = "OPEN"
  /\ roster \in SUBSET Event
  /\ \E filed \in {roster, {}} :
       /\ Cardinality(Event \ filed) <= MaxUnfiled
       /\ record = [e \in Event |-> IF e \in filed THEN "UNMARKED" ELSE "NONE"]
  /\ conflicted = {} /\ recorded = {} /\ revoked = {}
  /\ spent = [faults |-> 0, edits |-> 0, admin |-> 0, logouts |-> 0]
  /\ scanned = {} /\ lost = {} /\ torn = {} /\ unfiled = {}

-------------------------------------------------------------------------------
(* The browser *)

\* processOfflineQRCode: the scan is in the outbox before anything is sent.
Scan(e) ==
  /\ e \notin scanned
  /\ scanned' = scanned \cup {e}
  /\ outbox' = [outbox EXCEPT ![e] = [status |-> "PENDING", tries |-> 0, token |-> TRUE]]
  /\ UNCHANGED <<flushVars, requestVars, serverVars, spent, lost, torn, unfiled>>

Waiting(status) == {e \in Event : outbox[e].status = status /\ outbox[e].tries < MaxSyncRetries}
CopyOf(e) == [id |-> e, tries |-> outbox[e].tries, token |-> outbox[e].token]
Ids(batch) == {c.id : c \in batch}

\* Mutant of Requeue: rows a closed tab left SYNCING stay as they are.
Requeue_LeavesSyncing(f) ==
  /\ pc[f] = "idle"
  /\ \E e \in Event : outbox[e].status \notin {"NONE", "SYNCED"}
  /\ pc' = [pc EXCEPT ![f] = "requeued"]
  /\ UNCHANGED <<outbox, copies, sent, answer, requestVars, serverVars, spent, scanned,
                 lost, torn, unfiled>>

\* syncOutboxEvents: rows left SYNCING by a closed tab are put back ...
Requeue(f) ==
  /\ pc[f] = "idle"
  /\ \E e \in Event : outbox[e].status \notin {"NONE", "SYNCED"}
  /\ outbox' = [e \in Event |-> IF outbox[e].status = "SYNCING"
                                  THEN [outbox[e] EXCEPT !.status = "FAILED"] ELSE outbox[e]]
  /\ pc' = [pc EXCEPT ![f] = "requeued"]
  /\ UNCHANGED <<copies, sent, answer, requestVars, serverVars, spent, scanned, lost, torn,
                 unfiled>>

\* ... the PENDING rows are read, then the FAILED ones ...
ReadPending(f) ==
  /\ pc[f] = "requeued"
  /\ copies' = [copies EXCEPT ![f] = {CopyOf(e) : e \in Waiting("PENDING")}]
  /\ pc' = [pc EXCEPT ![f] = "pending"]
  /\ UNCHANGED <<outbox, sent, answer, requestVars, serverVars, spent, scanned, lost, torn,
                 unfiled>>

\* (A row that was PENDING before and is FAILED now is sent once as far as the
\* answer can tell: the batch is searched for the first copy of an id.)
ReadFailed(f) ==
  LET failed == Waiting("FAILED") \ Ids(copies[f]) IN
  /\ pc[f] = "pending"
  /\ copies' = [copies EXCEPT ![f] = @ \cup {CopyOf(e) : e \in failed}]
  /\ pc' = [pc EXCEPT ![f] = IF copies'[f] = {} THEN "idle" ELSE "sending"]
  /\ UNCHANGED <<outbox, sent, answer, requestVars, serverVars, spent, scanned, lost, torn,
                 unfiled>>

\* ... and the copies go out in batches, after their rows are marked SYNCING.
Send(f, r) ==
  /\ pc[f] = "sending" /\ stage[r] = "free"
  /\ \E batch \in SUBSET copies[f] :
       /\ Cardinality(batch) = BatchSize \/ (batch = copies[f] /\ Cardinality(batch) <= BatchSize)
       /\ copies' = [copies EXCEPT ![f] = @ \ batch]
       /\ sent' = [sent EXCEPT ![f] = batch]
       /\ todo' = [todo EXCEPT ![r] = batch]
       /\ outbox' = [e \in Event |-> IF e \in Ids(batch) /\ outbox[e].status # "NONE"
                       THEN [outbox[e] EXCEPT !.status = "SYNCING"] ELSE outbox[e]]
  /\ pc' = [pc EXCEPT ![f] = "waiting"]
  /\ client' = [client EXCEPT ![r] = f]
  /\ stage' = [stage EXCEPT ![r] = "running"]
  /\ UNCHANGED <<answer, cur, saw, result, tx, serverVars, spent, scanned, lost, torn, unfiled>>

\* markSyncFailure with classifySyncFailure, on the copy the flush holds
AfterFailure(c, class) ==
  [status |-> CASE class = "LOCKED" -> "CONFLICT"
                [] class = "PERMANENT" -> "PERMANENT_FAILURE"
                [] OTHER -> IF c.tries + 1 >= MaxSyncRetries THEN "PERMANENT_FAILURE"
                                                             ELSE "FAILED",
   tries |-> c.tries + 1, token |-> outbox[c.id].token]

\* The row of copy c after its result: a success is put, which would also write
\* a row that is gone; a failure is an update, which would not.
AfterResult(c, res) ==
  IF res \in {"ACCEPTED", "ALREADY_PROCESSED"}
    THEN [status |-> "SYNCED", tries |-> c.tries, token |-> FALSE]
    ELSE IF outbox[c.id].status = "NONE" THEN NoRow ELSE AfterFailure(c, res)

Held(f, e) == CHOOSE c \in sent[f] : c.id = e

\* The events of the batch of f get their results, one row after the other.
Settle(f, results) ==
  /\ outbox' = [e \in Event |-> IF e \notin Ids(sent[f]) THEN outbox[e]
                                ELSE AfterResult(Held(f, e), results[e])]
  /\ sent' = [sent EXCEPT ![f] = {}]
  /\ answer' = [answer EXCEPT ![f] = NoResult]
  /\ pc' = [pc EXCEPT ![f] = IF copies[f] = {} THEN "idle" ELSE "sending"]
  /\ UNCHANGED copies

Answered(f) ==
  /\ pc[f] = "waiting" /\ answer[f] # NoResult
  /\ Settle(f, answer[f])
  /\ UNCHANGED <<requestVars, serverVars, spent, scanned, lost, torn, unfiled>>

\* Nobody waits for the request of f any more; the server may not notice.
Abandon(f) == client' = [r \in Request |-> IF client[r] = f THEN Nobody ELSE client[r]]

\* fetch rejects: the whole batch counts as failed, whatever the server does.
LoseConnection(f) ==
  /\ pc[f] = "waiting" /\ Fault
  /\ Settle(f, AllFailed)
  /\ Abandon(f)
  /\ UNCHANGED <<stage, todo, cur, saw, result, tx, serverVars, scanned, lost, torn, unfiled>>

\* The tab closes or the browser crashes.
CloseTab(f) ==
  /\ pc[f] # "idle" /\ Fault
  /\ pc' = [pc EXCEPT ![f] = "idle"]
  /\ copies' = [copies EXCEPT ![f] = {}]
  /\ sent' = [sent EXCEPT ![f] = {}]
  /\ answer' = [answer EXCEPT ![f] = NoResult]
  /\ Abandon(f)
  /\ UNCHANGED <<outbox, stage, todo, cur, saw, result, tx, serverVars, scanned, lost, torn,
                 unfiled>>

\* logout calls clearSchoolScopedOfflineData.
Logout ==
  /\ spent.logouts < MaxLogouts /\ Spend("logouts")
  /\ outbox' = [e \in Event |-> NoRow]
  /\ UNCHANGED <<flushVars, requestVars, serverVars, scanned, lost, torn, unfiled>>

-------------------------------------------------------------------------------
(* The server: requireTenant opens a transaction for the request, and          *)
(* syncAttendanceEvents runs processQRCode for each of its events              *)

\* Requests whose open transaction inserted event e (client_event_id is unique),
\* and those whose open transaction updated its record.
Inserters(e) == {r \in Request : e \in tx[r].inserted}
Updaters(e)  == {r \in Request : e \in tx[r].marked \cup tx[r].flagged}

\* Event c of request r ends with result res.
EndEvent(r, c, res) ==
  /\ result' = [result EXCEPT ![r][c.id] = res]
  /\ todo' = [todo EXCEPT ![r] = @ \ {c}]

\* The checks of processQRCode before it reads the record: the event is known,
\* the session is finalized, the QR proof is missing or revoked, the student is
\* not on the roster.
Refusal(r, c) ==
  CASE c.id \in recorded \cup tx[r].inserted -> "ALREADY_PROCESSED"
    [] session = "FINALIZED" -> "LOCKED"
    [] ~c.token -> "RETRYABLE"
    [] c.id \in revoked \/ c.id \notin roster -> "PERMANENT"
    [] OTHER -> "none"

\* Mutant of Refuse: the conflict is reported and not flagged.
Refuse_WithoutFlag(r, c) ==
  /\ stage[r] = "running" /\ ~tx[r].dead /\ c \in todo[r]
  /\ Refusal(r, c) # "none" /\ EndEvent(r, c, Refusal(r, c))
  /\ UNCHANGED <<outbox, flushVars, client, stage, cur, saw, tx, serverVars, spent,
                 scanned, lost, torn, unfiled>>

\* A scan that meets a finalized session sets has_conflict on the record of its
\* student, if there is one.
Flags(r, c) == Refusal(r, c) = "LOCKED" /\ record[c.id] # "NONE"

\* A refused event ends here.
Refuse(r, c) ==
  /\ stage[r] = "running" /\ ~tx[r].dead /\ c \in todo[r]
  /\ Refusal(r, c) # "none" /\ (Flags(r, c) => Updaters(c.id) \subseteq {r})
  /\ EndEvent(r, c, Refusal(r, c))
  /\ tx' = IF Flags(r, c) THEN [tx EXCEPT ![r].flagged = @ \cup {c.id}] ELSE tx
  /\ UNCHANGED <<outbox, flushVars, client, stage, cur, saw, serverVars, spent, scanned, lost,
                 torn, unfiled>>

\* Mutant of Admit: the loop advances before the event is processed.
Admit_Advances(r, c) ==
  /\ stage[r] = "running" /\ ~tx[r].dead /\ c \in todo[r] /\ Refusal(r, c) = "none"
  /\ stage' = [stage EXCEPT ![r] = "checked"]
  /\ cur' = [cur EXCEPT ![r] = c]
  /\ todo' = [todo EXCEPT ![r] = @ \ {c}]
  /\ UNCHANGED <<outbox, flushVars, client, saw, result, tx, serverVars, spent, scanned, lost,
                 torn, unfiled>>

\* An event that is not refused goes on; the record is read later ...
Admit(r, c) ==
  /\ stage[r] = "running" /\ ~tx[r].dead /\ c \in todo[r]
  /\ Refusal(r, c) = "none"
  /\ stage' = [stage EXCEPT ![r] = "checked"]
  /\ cur' = [cur EXCEPT ![r] = c]
  /\ UNCHANGED <<outbox, flushVars, client, todo, saw, result, tx, serverVars, spent,
                 scanned, lost, torn, unfiled>>

ReadRecord(r) ==
  /\ stage[r] = "checked"
  /\ saw' = [saw EXCEPT ![r] = record[cur[r].id]]
  /\ stage' = [stage EXCEPT ![r] = "read"]
  /\ UNCHANGED <<outbox, flushVars, client, todo, cur, result, tx, serverVars, spent,
                 scanned, lost, torn, unfiled>>

\* The work on the current event is over: back to the loop over the batch.
NextEvent(r) ==
  /\ stage' = [stage EXCEPT ![r] = "running"]
  /\ cur' = [cur EXCEPT ![r] = NoCopy]
  /\ saw' = [saw EXCEPT ![r] = "UNMARKED"]

\* Mutant of StatementFails: no savepoint around the log and the projection.
StatementFails_NoSavepoint(r) ==
  /\ EndEvent(r, cur[r], "RETRYABLE")
  /\ tx' = IF saw[r] = "PRESENT" THEN [tx EXCEPT ![r].dead = TRUE] ELSE tx

\* A failing INSERT or UPDATE: within the savepoint of the projection it costs
\* the event, outside (the log of a duplicate scan) it aborts the transaction.
StatementFails(r) ==
  /\ EndEvent(r, cur[r], "RETRYABLE")
  /\ tx' = IF saw[r] = "PRESENT" THEN [tx EXCEPT ![r].dead = TRUE]
           ELSE IF stage[r] = "logged" THEN [tx EXCEPT ![r].inserted = @ \ {cur[r].id}]
           ELSE tx

\* Mutant of Insert: a known client event id is skipped (ON CONFLICT DO NOTHING)
\* and the scan is projected all the same.
Insert_DoNothing(r) ==
  LET logged == [tx EXCEPT ![r].inserted = @ \cup {cur[r].id}] IN
  /\ stage[r] = "read" /\ Inserters(cur[r].id) = {}
  /\ IF saw[r] = "PRESENT"
       THEN EndEvent(r, cur[r], "ACCEPTED") /\ NextEvent(r)
       ELSE stage' = [stage EXCEPT ![r] = "logged"] /\ UNCHANGED <<todo, cur, saw, result>>
  /\ tx' = logged
  /\ UNCHANGED <<outbox, flushVars, client, serverVars, spent, scanned, lost, torn, unfiled>>

\* ... then the event is logged ...
Insert(r) ==
  LET e == cur[r].id
      logged == [tx EXCEPT ![r].inserted = @ \cup {e}] IN
  /\ stage[r] = "read" /\ Inserters(e) = {}
  /\ \/ e \in recorded /\ StatementFails(r) /\ NextEvent(r)
     \/ /\ e \notin recorded /\ saw[r] = "PRESENT"
        /\ tx' = logged /\ EndEvent(r, cur[r], "ACCEPTED") /\ NextEvent(r)
     \/ /\ e \notin recorded /\ saw[r] # "PRESENT"
        /\ tx' = logged /\ stage' = [stage EXCEPT ![r] = "logged"]
        /\ UNCHANGED <<todo, cur, saw, result>>
  /\ UNCHANGED <<outbox, flushVars, client, serverVars, spent, scanned, lost, torn, unfiled>>

\* ... and projected on the record, whatever the record is by now; a record that
\* was not there is inserted, which fails if it is there by now.
Project(r) ==
  /\ stage[r] = "logged" /\ Updaters(cur[r].id) = {}
  /\ \/ /\ saw[r] = "NONE" /\ record[cur[r].id] # "NONE"
        /\ StatementFails(r)
     \/ /\ saw[r] = "NONE" => record[cur[r].id] = "NONE"
        /\ tx' = [tx EXCEPT ![r].marked = @ \cup {cur[r].id}]
        /\ EndEvent(r, cur[r], "ACCEPTED")
  /\ NextEvent(r)
  /\ UNCHANGED <<outbox, flushVars, client, serverVars, spent, scanned, lost, torn, unfiled>>

\* The requests r may be waiting for.
WaitsFor(r) ==
  (CASE stage[r] = "read" -> Inserters(cur[r].id)
     [] stage[r] = "logged" -> Updaters(cur[r].id)
     [] stage[r] = "running" /\ ~tx[r].dead ->
          UNION {Updaters(c.id) : c \in {d \in todo[r] : Flags(r, d)}}
     [] OTHER -> {}) \ {r}

\* PostgreSQL breaks a deadlock, or a wait outlasts the statement timeout. The
\* flag of a finalized record is written outside any savepoint.
WaitFails(r) ==
  /\ \E q \in WaitsFor(r) : IF r \in WaitsFor(q) THEN UNCHANGED spent ELSE Fault
  /\ IF stage[r] = "running"
       THEN tx' = [tx EXCEPT ![r].dead = TRUE] /\ UNCHANGED <<stage, cur, saw, result, todo>>
       ELSE StatementFails(r) /\ NextEvent(r)
  /\ UNCHANGED <<outbox, flushVars, client, serverVars, scanned, lost, torn, unfiled>>

\* Mutant of Respond: the failure of the batch is swallowed.
Respond_IgnoresAbort(r) ==
  /\ stage[r] = "running" /\ (todo[r] = {} \/ tx[r].dead)
  /\ answer' = IF client[r] = Nobody THEN answer ELSE [answer EXCEPT ![client[r]] = result[r]]
  /\ stage' = [stage EXCEPT ![r] = "responded"]
  /\ client' = [client EXCEPT ![r] = Nobody]
  /\ UNCHANGED <<outbox, pc, copies, sent, todo, cur, saw, result, tx, serverVars, spent,
                 scanned, lost, torn, unfiled>>

\* The audit row of the batch is the last write. It fails in an aborted
\* transaction, and with it the whole request. The response leaves first ...
Respond(r) ==
  /\ stage[r] = "running" /\ (todo[r] = {} \/ tx[r].dead)
  /\ answer' = IF client[r] = Nobody THEN answer
               ELSE [answer EXCEPT ![client[r]] = IF tx[r].dead THEN AllFailed ELSE result[r]]
  /\ stage' = [stage EXCEPT ![r] = "responded"]
  /\ client' = [client EXCEPT ![r] = Nobody]
  /\ UNCHANGED <<outbox, pc, copies, sent, todo, cur, saw, result, tx, serverVars, spent,
                 scanned, lost, torn, unfiled>>

EndRequest(r) ==
  /\ stage' = [stage EXCEPT ![r] = "free"]
  /\ todo' = [todo EXCEPT ![r] = {}]
  /\ cur' = [cur EXCEPT ![r] = NoCopy]
  /\ saw' = [saw EXCEPT ![r] = "UNMARKED"]
  /\ result' = [result EXCEPT ![r] = NoResult]
  /\ tx' = [tx EXCEPT ![r] = NoTx]
  /\ client' = [client EXCEPT ![r] = Nobody]

Apply(t) ==
  /\ recorded' = recorded \cup t.inserted
  /\ record' = [e \in Event |-> IF e \in t.marked THEN "PRESENT" ELSE record[e]]
  /\ conflicted' = conflicted \cup t.flagged

\* ... and COMMIT follows when the response is finished. When the connection
\* closes earlier, what is written so far is committed, and row-level security
\* refuses the statements that are still to come.
Commit(r) ==
  /\ stage[r] = "responded" \/ (stage[r] # "free" /\ client[r] = Nobody)
  /\ Apply(IF tx[r].dead THEN NoTx ELSE tx[r])
  /\ torn' = IF stage[r] = "logged" THEN torn \cup {cur[r].id} ELSE torn
  /\ EndRequest(r)
  /\ UNCHANGED <<outbox, flushVars, session, roster, revoked, spent, scanned, lost, unfiled>>

\* Mutant of TransactionDies: the results collected so far are reported.
TransactionDies_Reports(r) ==
  /\ stage[r] # "free" /\ Fault
  /\ lost' = IF stage[r] = "responded" /\ ~tx[r].dead
               THEN lost \cup tx[r].inserted \cup tx[r].flagged ELSE lost
  /\ answer' = IF client[r] = Nobody THEN answer ELSE [answer EXCEPT ![client[r]] = result[r]]
  /\ EndRequest(r)
  /\ UNCHANGED <<outbox, pc, copies, sent, serverVars, scanned, torn, unfiled>>

\* The connection to the database, or the process, is gone before the commit.
TransactionDies(r) ==
  /\ stage[r] # "free" /\ Fault
  /\ lost' = IF stage[r] = "responded" /\ ~tx[r].dead
               THEN lost \cup tx[r].inserted \cup tx[r].flagged ELSE lost
  /\ answer' = IF client[r] = Nobody THEN answer ELSE [answer EXCEPT ![client[r]] = AllFailed]
  /\ EndRequest(r)
  /\ UNCHANGED <<outbox, pc, copies, sent, serverVars, scanned, torn, unfiled>>

-------------------------------------------------------------------------------
(* The others *)

\* An online scan or a manual edit of a student on the roster, which makes the
\* record if there is none; it waits for a record a request has written.
Edit(e, to) ==
  /\ e \in roster /\ record[e] # to
  /\ \A r \in Request : e \notin tx[r].marked \cup tx[r].flagged
  /\ spent.edits < MaxEdits /\ Spend("edits")
  /\ record' = [record EXCEPT ![e] = to]
  /\ UNCHANGED <<outbox, flushVars, requestVars, session, roster, conflicted, recorded, revoked,
                 scanned, lost, torn, unfiled>>

\* updateSessionStatus: the row lock on the session waits for the transactions
\* that hold a foreign key to it.
SetSession(status) ==
  /\ session # status
  /\ \A r \in Request : tx[r].inserted = {}
  /\ spent.admin < MaxAdmin /\ Spend("admin")
  /\ session' = status
  /\ unfiled' = IF status = "FINALIZED" THEN unfiled \cup {e \in Event : record[e] = "NONE"}
                                        ELSE unfiled
  /\ UNCHANGED <<outbox, flushVars, requestVars, roster, record, conflicted, recorded,
                 revoked, scanned, lost, torn>>

\* The QR card of the student of e is revoked.
Revoke(e) ==
  /\ e \notin revoked
  /\ spent.admin < MaxAdmin /\ Spend("admin")
  /\ revoked' = revoked \cup {e}
  /\ UNCHANGED <<outbox, flushVars, requestVars, session, roster, record, conflicted, recorded,
                 scanned, lost, torn, unfiled>>

-------------------------------------------------------------------------------
FlushStep(f) ==
  \/ ReadPending(f) \/ ReadFailed(f) \/ Answered(f)
  \/ \E r \in Request : Send(f, r)

RequestStep(r) ==
  \/ \E c \in todo[r] : Refuse(r, c) \/ Admit(r, c)
  \/ ReadRecord(r) \/ Insert(r) \/ Project(r) \/ WaitFails(r) \/ Respond(r) \/ Commit(r)

OfficeStep ==
  \/ \E e \in Event, to \in {"PRESENT", "OVERRIDE"} : Edit(e, to)
  \/ \E status \in {"FINALIZED", "REOPENED"} : SetSession(status)
  \/ \E e \in Event : Revoke(e)

Next ==
  \/ \E e \in Event : Scan(e)
  \/ \E f \in Flush : Requeue(f) \/ FlushStep(f) \/ LoseConnection(f) \/ CloseTab(f)
  \/ Logout
  \/ \E r \in Request : RequestStep(r) \/ TransactionDies(r)
  \/ OfficeStep

Spec == Init /\ [][Next]_vars

\* OfflineStatusProvider starts a flush while the outbox is not empty; a flush
\* that runs goes on, and so does a request.
Fairness ==
  /\ WF_vars(\E f \in Flush : Requeue(f))
  /\ \A f \in Flush : WF_vars(FlushStep(f))
  /\ \A r \in Request : WF_vars(RequestStep(r))

FairSpec == Spec /\ Fairness

-------------------------------------------------------------------------------
(* Properties *)

\* The state stays within its types, and the phases of flushes and requests
\* agree with what they hold.
TypeOK ==
  /\ outbox \in [Event -> Row]
  /\ pc \in [Flush -> {"idle", "requeued", "pending", "sending", "waiting"}]
  /\ copies \in [Flush -> SUBSET Copy] /\ sent \in [Flush -> SUBSET Copy]
  /\ answer \in [Flush -> Results]
  /\ client \in [Request -> Flush \cup {Nobody}]
  /\ stage \in [Request -> {"free", "running", "checked", "read", "logged", "responded"}]
  /\ todo \in [Request -> SUBSET Copy] /\ cur \in [Request -> Copy \cup {NoCopy}]
  /\ saw \in [Request -> Mark] /\ result \in [Request -> Results] /\ tx \in [Request -> Tx]
  /\ session \in {"OPEN", "FINALIZED", "REOPENED"} /\ record \in [Event -> Mark]
  /\ UNION {roster, conflicted, recorded, revoked, scanned, lost, torn, unfiled} \subseteq Event
  /\ spent \in [{"faults", "edits", "admin", "logouts"} -> Nat]
  /\ \A r \in Request : stage[r] \in {"checked", "read", "logged"} <=> cur[r] \in todo[r]

\* A row is SYNCED only when the server has the event, however many flushes,
\* lost answers and aborted batches it went through: the only exception is a
\* commit that fails after its response.
SyncedIsRecorded ==
  \A e \in Event : outbox[e].status = "SYNCED" /\ e \notin lost
    => e \in recorded \/ \E r \in Request : stage[r] = "responded" /\ e \in tx[r].inserted

\* A scan the teacher's device shows as a conflict is flagged on the register,
\* where an admin can find it: the exceptions are the same one and a student who
\* had no record when the session was finalized, of whom there is nothing to flag.
ConflictIsFlagged ==
  \A e \in Event : outbox[e].status = "CONFLICT" /\ e \notin lost \cup unfiled
    => e \in conflicted \/ \E r \in Request : stage[r] = "responded" /\ e \in tx[r].flagged

\* Sending a known event again changes no record, whatever two requests that
\* carry it do: a correction made after the scan was recorded is not undone by a
\* retry of the scan.
ResendIsHarmless ==
  [][requestVars' # requestVars => \A e \in recorded : record'[e] = record[e]]_vars

\* The event log and the register agree: a recorded scan left its student
\* marked, through duplicates, deadlocks and commits cut short, except where a
\* closed connection commits between the two writes.
LogIsProjected == \A e \in recorded \ torn : record[e] \notin {"NONE", "UNMARKED"}

\* A row no flush selects although it is not settled: its retries are used up.
UsedUp(e) == outbox[e].status = "FAILED" /\ outbox[e].tries >= MaxSyncRetries

\* A row that waits or is being sent does not do so for ever, in spite of closed
\* tabs and lost answers: it reaches a state the teacher is shown, or has failed
\* as often as it may.
RowsSettle ==
  \A e \in Event : outbox[e].status \in {"PENDING", "FAILED", "SYNCING"}
    ~> \/ outbox[e].status \in {"NONE", "SYNCED", "PERMANENT_FAILURE", "CONFLICT"}
       \/ UsedUp(e)

-------------------------------------------------------------------------------
(* What the documents promise and the code does not keep *)

\* offlineSyncService.ts:332, "Requeue it before selecting work so those events
\* cannot become permanently invisible": every row ends in a state the teacher is
\* shown. A flush with an old copy marks a row SYNCING whose retries another has
\* used up; its tab closes, and the row is requeued for a selection that skips it.
NeverInvisible ==
  \A e \in Event : outbox[e].status \in {"PENDING", "FAILED", "SYNCING"}
    ~> outbox[e].status \in {"NONE", "SYNCED", "PERMANENT_FAILURE", "CONFLICT"}

\* ADR-002:18, "Client retains outbox records until server explicitly
\* acknowledges ingestion": a row that is SYNCED is in the event log. The
\* acknowledgement of syncRoutes leaves before the commit of requireTenant.
AcknowledgedIsRecorded ==
  \A e \in Event : outbox[e].status = "SYNCED"
    => e \in recorded \/ \E r \in Request : e \in tx[r].inserted

\* offline-mode.md:142, "The original finalized status (LEAVE) is preserved":
\* no offline scan replaces an admin's status in a finalized session. The session
\* is checked long before the record is written.
FinalizedIsPreserved ==
  [][session = "FINALIZED" /\ requestVars' # requestVars
       => \A e \in Event : record[e] = "OVERRIDE" => record'[e] = "OVERRIDE"]_vars

\* offline-mode.md:119, ACCEPTED is "Successfully ingested and projected", and
\* attendanceService.ts:535, "Append Event & Project Current Record State in a
\* Transaction". A connection closed between the two writes commits the first.
AlwaysProjected == \A e \in recorded : record[e] \notin {"NONE", "UNMARKED"}

\* offline-mode.md:143, "An audit flag (`has_conflict = true`) is set on
\* `attendance_records`", for every event that meets a finalized session. A scan
\* is refused before the roster and the record are looked at, and without a
\* record there is nothing to flag.
ConflictAlwaysFlagged ==
  \A e \in Event : outbox[e].status = "CONFLICT" /\ e \notin lost
    => e \in conflicted \/ \E r \in Request : stage[r] = "responded" /\ e \in tx[r].flagged
===============================================================================
