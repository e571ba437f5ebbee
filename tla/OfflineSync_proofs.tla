-------------------------- MODULE OfflineSync_proofs --------------------------
(* Theorems about OfflineSync, for any number of scans, flushes and requests *)
EXTENDS OfflineSync, TLAPS

-------------------------------------------------------------------------------
(* The inductive invariant *)

\* The memberships of the type invariant.
Types ==
  /\ outbox \in [Event -> Row]
  /\ pc \in [Flush -> {"idle", "requeued", "pending", "sending", "waiting"}]
  /\ copies \in [Flush -> SUBSET Copy] /\ sent \in [Flush -> SUBSET Copy]
  /\ answer \in [Flush -> Results]
  /\ client \in [Request -> Flush \cup {Nobody}]
  /\ stage \in [Request -> {"free", "running", "checked", "read", "logged", "responded"}]
  /\ todo \in [Request -> SUBSET Copy] /\ cur \in [Request -> Copy \cup {NoCopy}]
  /\ saw \in [Request -> Mark] /\ result \in [Request -> Results] /\ tx \in [Request -> Tx]
  /\ session \in {"OPEN", "FINALIZED", "REOPENED"} /\ record \in [Event -> Mark]
  /\ UNION {roster, conflicted, recorded, revoked, scanned, lost, torn, unfiled} \subseteq Event
  /\ spent \in [{"faults", "edits", "admin", "logouts"} -> Nat]

\* No two copies of a set are of the same scan.
Single(S) == \A c, d \in S : c.id = d.id => c = d

CopiesSingle == \A f \in Flush : Single(copies[f])

Busy(r) == stage[r] \in {"checked", "read", "logged"}
\* The scan of the log entry that r has not projected yet.
Logging(r, e) == stage[r] = "logged" /\ cur[r].id = e

\* A busy request works on a scan of its batch that has no result; a request that
\* is free holds nothing.
LoopHolds(r) ==
  /\ Single(todo[r]) /\ \A c \in todo[r] : result[r][c.id] = "none"
  /\ IF Busy(r) THEN cur[r] \in todo[r] ELSE cur[r] = NoCopy
  /\ stage[r] = "free" => todo[r] = {} /\ result[r] = NoResult /\ tx[r] = NoTx
  /\ saw[r] = "PRESENT" => stage[r] = "read" /\ record[cur[r].id] \notin {"NONE", "UNMARKED"}

\* What a request logged nobody else has, it marked or found marked, and its
\* results say no more than it wrote.
WorkHolds(r) ==
  /\ tx[r].marked \subseteq tx[r].inserted /\ tx[r].inserted \cap recorded = {}
  /\ stage[r] = "logged" => cur[r].id \in tx[r].inserted \ tx[r].marked
  /\ \A e \in tx[r].inserted : result[r][e] = "ACCEPTED" \/ Logging(r, e)
  /\ \A e \in tx[r].inserted \ tx[r].marked : record[e] \notin {"NONE", "UNMARKED"} \/ Logging(r, e)
  /\ \A e \in Event : /\ result[r][e] \in {"ACCEPTED", "ALREADY_PROCESSED"}
                         => e \in recorded \cup tx[r].inserted
                      /\ result[r][e] = "LOCKED" => e \in tx[r].flagged \cup unfiled

Apart == \A q, r \in Request : q # r => tx[q].inserted \cap tx[r].inserted = {}

\* What was answered as a success or a conflict is on its way into the database.
Ending(r) == stage[r] = "responded" /\ ~tx[r].dead
Acked(e)   == e \in lost \cup recorded \/ \E r \in Request : Ending(r) /\ e \in tx[r].inserted
Flagged(e) == \/ e \in lost \cup conflicted \cup unfiled
              \/ \E r \in Request : Ending(r) /\ e \in tx[r].flagged

AnswersHold ==
  \A f \in Flush, e \in Event :
    /\ answer[f][e] \in {"ACCEPTED", "ALREADY_PROCESSED"} => Acked(e)
    /\ answer[f][e] = "LOCKED" => Flagged(e)

OutboxHolds ==
  \A e \in Event : /\ outbox[e].status = "SYNCED" => Acked(e)
                   /\ outbox[e].status = "CONFLICT" => Flagged(e)

\* A student without a record had none when the session was finalized.
UnfiledHolds == session = "FINALIZED" => \A e \in Event : record[e] = "NONE" => e \in unfiled

RequestsHold == \A r \in Request : LoopHolds(r) /\ WorkHolds(r)

SyncInv ==
  /\ Types /\ CopiesSingle /\ RequestsHold /\ Apart /\ AnswersHold /\ OutboxHolds
  /\ LogIsProjected /\ UnfiledHolds

-------------------------------------------------------------------------------
(* What the pieces of the steps do *)

LEMMA SpendFacts ==
  ASSUME Types, NEW what \in {"faults", "edits", "admin", "logouts"}, Spend(what)
  PROVE  spent' \in [{"faults", "edits", "admin", "logouts"} -> Nat]
  BY DEF Types, Spend

\* The end of an event gives one scan its result and takes its copy off the list.
LEMMA EndFacts ==
  ASSUME Types, NEW r \in Request, NEW c \in Copy, NEW res \in Result, EndEvent(r, c, res)
  PROVE  /\ result' \in [Request -> Results] /\ todo' \in [Request -> SUBSET Copy]
         /\ todo'[r] = todo[r] \ {c}
         /\ \A e \in Event : result'[r][e] = IF e = c.id THEN res ELSE result[r][e]
         /\ \A q \in Request : q # r => todo'[q] = todo[q] /\ result'[q] = result[q]
<1>1. /\ result' = [result EXCEPT ![r][c.id] = res] /\ todo' = [todo EXCEPT ![r] = @ \ {c}]
      /\ c.id \in Event
  BY DEF EndEvent, Copy
<1>2. /\ result \in [Request -> [Event -> Result \cup {"none"}]]
      /\ todo \in [Request -> SUBSET Copy]
  BY DEF Types, Results
<1>3. /\ result' \in [Request -> [Event -> Result \cup {"none"}]]
      /\ \A e \in Event : result'[r][e] = IF e = c.id THEN res ELSE result[r][e]
      /\ \A q \in Request : q # r => result'[q] = result[q]
  BY <1>1, <1>2
<1>4. /\ todo' \in [Request -> SUBSET Copy] /\ todo'[r] = todo[r] \ {c}
      /\ \A q \in Request : q # r => todo'[q] = todo[q]
  BY <1>1, <1>2
<1>5. QED
  BY <1>3, <1>4 DEF Results

LEMMA NextFacts ==
  ASSUME Types, NEW r \in Request, NextEvent(r)
  PROVE  /\ stage' \in [Request -> {"free", "running", "checked", "read", "logged", "responded"}]
         /\ cur' \in [Request -> Copy \cup {NoCopy}] /\ saw' \in [Request -> Mark]
         /\ stage'[r] = "running" /\ cur'[r] = NoCopy /\ saw'[r] = "UNMARKED"
         /\ \A q \in Request : q # r =>
              stage'[q] = stage[q] /\ cur'[q] = cur[q] /\ saw'[q] = saw[q]
  BY DEF Types, NextEvent, Mark

\* A write of a transaction keeps the others.
LEMMA TxFacts ==
  ASSUME Types, NEW r \in Request, NEW t \in Tx, tx' = [tx EXCEPT ![r] = t]
  PROVE  /\ tx' \in [Request -> Tx] /\ tx'[r] = t
         /\ \A q \in Request : q # r => tx'[q] = tx[q]
  BY DEF Types

LEMMA TxTypes ==
  ASSUME Types, NEW r \in Request
  PROVE  /\ tx[r] \in Tx /\ tx[r].inserted \subseteq Event /\ tx[r].marked \subseteq Event
         /\ tx[r].flagged \subseteq Event /\ tx[r].dead \in BOOLEAN
  BY DEF Types, Tx

\* A statement that fails costs the scan its result, and what its savepoint held.
LEMMA FailFacts ==
  ASSUME Types, NEW r \in Request, cur[r] \in Copy, StatementFails(r)
  PROVE  /\ EndEvent(r, cur[r], "RETRYABLE")
         /\ tx' \in [Request -> Tx] /\ \A q \in Request : q # r => tx'[q] = tx[q]
         /\ tx'[r].marked = tx[r].marked /\ tx'[r].flagged = tx[r].flagged
         /\ tx'[r].inserted = IF saw[r] # "PRESENT" /\ stage[r] = "logged"
                              THEN tx[r].inserted \ {cur[r].id} ELSE tx[r].inserted
<1>0. /\ tx[r] \in Tx /\ tx \in [Request -> Tx] /\ EndEvent(r, cur[r], "RETRYABLE")
  BY DEF Types, StatementFails
<1>1. CASE saw[r] = "PRESENT"
  <2>1. tx' = [tx EXCEPT ![r].dead = TRUE]
    BY <1>1 DEF StatementFails
  <2>2. QED
    BY <1>0, <1>1, <2>1 DEF Tx
<1>2. CASE saw[r] # "PRESENT" /\ stage[r] = "logged"
  <2>1. tx' = [tx EXCEPT ![r].inserted = @ \ {cur[r].id}]
    BY <1>2 DEF StatementFails
  <2>2. QED
    BY <1>0, <1>2, <2>1 DEF Tx
<1>3. CASE saw[r] # "PRESENT" /\ stage[r] # "logged"
  BY <1>0, <1>3 DEF StatementFails
<1>4. QED
  BY <1>1, <1>2, <1>3

\* What is no copy is not in a batch.
LEMMA NoCopyFacts == NoCopy \notin Copy
  BY SyncAssumption DEF NoCopy, Copy

-------------------------------------------------------------------------------
(* Steps of the browser *)

\* An answer may be withdrawn and a row may lose its claim; only what is on its
\* way into the database may be given one.
AnswersKeep ==
  \A f \in Flush, e \in Event : \/ answer'[f][e] = answer[f][e]
                                \/ answer'[f][e] \in {"none", "RETRYABLE"}
OutboxKeeps ==
  \A e \in Event : /\ outbox'[e].status = "SYNCED" => Acked(e)
                   /\ outbox'[e].status = "CONFLICT" => Flagged(e)

LEMMA BrowserHolds ==
  ASSUME SyncInv, Types', CopiesSingle', AnswersKeep, OutboxKeeps,
         UNCHANGED <<stage, todo, cur, saw, result, tx, session, record, conflicted, recorded,
                     lost, torn, unfiled>>
  PROVE  SyncInv'
<1>1. \A e \in Event : (Acked(e)' <=> Acked(e)) /\ (Flagged(e)' <=> Flagged(e))
  BY DEF Acked, Flagged, Ending
<1>2. RequestsHold' /\ Apart'
  <2>1. \A r \in Request : LoopHolds(r) /\ WorkHolds(r)
    BY DEF SyncInv, RequestsHold
  <2>2. \A r \in Request : LoopHolds(r)'
    BY <2>1 DEF LoopHolds, Busy
  <2>3. \A r \in Request : WorkHolds(r)'
    BY <2>1 DEF WorkHolds, Logging
  <2>4. QED
    BY <2>2, <2>3 DEF SyncInv, RequestsHold, Apart
<1>3. AnswersHold'
  BY <1>1 DEF SyncInv, AnswersHold, AnswersKeep
<1>4. OutboxHolds'
  BY <1>1 DEF OutboxHolds, OutboxKeeps
<1>5. LogIsProjected' /\ UnfiledHolds'
  BY DEF SyncInv, LogIsProjected, UnfiledHolds
<1>6. QED
  BY <1>2, <1>3, <1>4, <1>5 DEF SyncInv

LEMMA ScanHolds ==
  ASSUME SyncInv, NEW e \in Event, Scan(e)
  PROVE  SyncInv'
<1>1. /\ UNCHANGED <<pc, copies, sent, answer, client, stage, todo, cur, saw, result, tx,
                     session, roster,
                     record, conflicted, recorded, revoked, spent, lost, torn, unfiled>>
      /\ scanned' = scanned \cup {e}
      /\ outbox' = [outbox EXCEPT ![e] = [status |-> "PENDING", tries |-> 0, token |-> TRUE]]
  BY DEF Scan, flushVars, requestVars, serverVars
<1>2. Types /\ OutboxHolds /\ CopiesSingle
  BY DEF SyncInv
<1>3. /\ outbox' \in [Event -> Row]
      /\ \A x \in Event : outbox'[x] = IF x = e THEN [status |-> "PENDING", tries |-> 0,
                                                      token |-> TRUE] ELSE outbox[x]
  BY <1>1, <1>2 DEF Types, Row
<1>4. Types'
  BY <1>1, <1>2, <1>3 DEF Types
<1>5. OutboxKeeps /\ AnswersKeep
  BY <1>1, <1>2, <1>3 DEF OutboxKeeps, OutboxHolds, AnswersKeep
<1>6. CopiesSingle'
  BY <1>1, <1>2 DEF CopiesSingle
<1>7. QED
  BY <1>1, <1>4, <1>5, <1>6, BrowserHolds

LEMMA RequeueHolds ==
  ASSUME SyncInv, NEW f \in Flush, Requeue(f)
  PROVE  SyncInv'
<1>1. /\ UNCHANGED <<copies, sent, answer, client, stage, todo, cur, saw, result, tx, session,
                     roster,
                     record, conflicted, recorded, revoked, spent, scanned, lost, torn, unfiled>>
      /\ pc' = [pc EXCEPT ![f] = "requeued"]
      /\ outbox' = [e \in Event |-> IF outbox[e].status = "SYNCING"
                                    THEN [outbox[e] EXCEPT !.status = "FAILED"] ELSE outbox[e]]
  BY DEF Requeue, requestVars, serverVars
<1>2. Types /\ OutboxHolds /\ CopiesSingle
  BY DEF SyncInv
<1>3. /\ outbox' \in [Event -> Row]
      /\ \A e \in Event : outbox'[e] = outbox[e] \/ outbox'[e].status = "FAILED"
  <2>1. \A e \in Event : outbox[e] \in Row
    BY <1>2 DEF Types
  <2>2. \A e \in Event : /\ [outbox[e] EXCEPT !.status = "FAILED"] \in Row
                         /\ [outbox[e] EXCEPT !.status = "FAILED"].status = "FAILED"
    BY <2>1 DEF Row
  <2>3. QED
    BY <1>1, <2>1, <2>2
<1>4. Types'
  BY <1>1, <1>2, <1>3 DEF Types
<1>5. OutboxKeeps /\ AnswersKeep
  BY <1>1, <1>2, <1>3 DEF OutboxKeeps, OutboxHolds, AnswersKeep
<1>6. CopiesSingle'
  BY <1>1, <1>2 DEF CopiesSingle
<1>7. QED
  BY <1>1, <1>4, <1>5, <1>6, BrowserHolds

\* The copies of the rows that wait are of as many scans.
LEMMA CopyFacts ==
  ASSUME Types, NEW S \in SUBSET Event
  PROVE  /\ {CopyOf(e) : e \in S} \subseteq Copy /\ Single({CopyOf(e) : e \in S})
         /\ \A c \in {CopyOf(e) : e \in S} : c.id \in S
<1>1. \A e \in S : CopyOf(e) \in Copy /\ CopyOf(e).id = e
  BY DEF Types, Row, Copy, CopyOf
<1>2. QED
  BY <1>1 DEF Single

LEMMA ReadHolds ==
  ASSUME SyncInv, NEW f \in Flush, ReadPending(f) \/ ReadFailed(f)
  PROVE  SyncInv'
<1>1. /\ UNCHANGED <<outbox, sent, answer, client, stage, todo, cur, saw, result, tx, session,
                     roster,
                     record, conflicted, recorded, revoked, spent, scanned, lost, torn, unfiled>>
  BY DEF ReadPending, ReadFailed, requestVars, serverVars
<1>2. Types /\ OutboxHolds /\ CopiesSingle /\ copies \in [Flush -> SUBSET Copy]
  BY DEF SyncInv, Types
<1>3. \E S \in SUBSET Copy : copies' = [copies EXCEPT ![f] = S] /\ Single(S)
  <2>1. CASE ReadPending(f)
    <3>1. Waiting("PENDING") \in SUBSET Event
      BY DEF Waiting
    <3>2. QED
      BY <1>2, <2>1, <3>1, CopyFacts DEF ReadPending
  <2>2. CASE ReadFailed(f)
    <3> DEFINE failed == Waiting("FAILED") \ Ids(copies[f])
               S == copies[f] \cup {CopyOf(e) : e \in failed}
    <3>1. failed \in SUBSET Event /\ copies[f] \subseteq Copy /\ Single(copies[f])
      BY <1>2 DEF Waiting, CopiesSingle
    <3>2. copies' = [copies EXCEPT ![f] = S]
      BY <1>2, <2>2 DEF ReadFailed
    <3>3. \A c \in copies[f] : c.id \notin failed
      BY DEF Ids
    <3> HIDE DEF failed
    <3>4. /\ {CopyOf(e) : e \in failed} \subseteq Copy /\ Single({CopyOf(e) : e \in failed})
          /\ \A c \in {CopyOf(e) : e \in failed} : c.id \in failed
      BY <1>2, <3>1, CopyFacts
    <3>5. S \subseteq Copy /\ Single(S)
      BY <3>1, <3>3, <3>4 DEF Single
    <3>6. QED
      BY <3>2, <3>5
  <2>3. QED
    BY <2>1, <2>2
<1>4. copies' \in [Flush -> SUBSET Copy] /\ CopiesSingle'
  BY <1>2, <1>3 DEF CopiesSingle
<1>5. pc' \in [Flush -> {"idle", "requeued", "pending", "sending", "waiting"}]
  BY <1>2 DEF ReadPending, ReadFailed, Types
<1>6. Types'
  BY <1>1, <1>2, <1>4, <1>5 DEF Types
<1>7. OutboxKeeps /\ AnswersKeep
  BY <1>1, <1>2 DEF OutboxKeeps, OutboxHolds, AnswersKeep
<1>8. QED
  BY <1>1, <1>4, <1>6, <1>7, BrowserHolds

\* The rows of a batch are settled by results that say no more than is true.
LEMMA SettleFacts ==
  ASSUME Types, OutboxHolds, NEW f \in Flush, NEW results \in Results, Settle(f, results),
         \A e \in Event : /\ results[e] \in {"ACCEPTED", "ALREADY_PROCESSED"} => Acked(e)
                          /\ results[e] = "LOCKED" => Flagged(e)
  PROVE  /\ outbox' \in [Event -> Row] /\ sent' \in [Flush -> SUBSET Copy]
         /\ answer' \in [Flush -> Results] /\ copies' = copies
         /\ pc' \in [Flush -> {"idle", "requeued", "pending", "sending", "waiting"}]
         /\ OutboxKeeps /\ AnswersKeep
<1>1. /\ outbox' = [e \in Event |-> IF e \notin Ids(sent[f]) THEN outbox[e]
                                    ELSE AfterResult(Held(f, e), results[e])]
      /\ sent' = [sent EXCEPT ![f] = {}] /\ answer' = [answer EXCEPT ![f] = NoResult]
      /\ pc' = [pc EXCEPT ![f] = IF copies[f] = {} THEN "idle" ELSE "sending"]
      /\ copies' = copies
  BY DEF Settle
<1>2. \A e \in Ids(sent[f]) : Held(f, e) \in Copy
  <2>1. TAKE e \in Ids(sent[f])
  <2>2. \E c \in sent[f] : c.id = e
    BY DEF Ids
  <2>3. Held(f, e) \in sent[f]
    BY <2>2 DEF Held
  <2>4. QED
    BY <2>3 DEF Types
<1>3. ASSUME NEW c \in Copy, NEW res \in Result \cup {"none"}
      PROVE  /\ AfterResult(c, res) \in Row
             /\ AfterResult(c, res).status = "SYNCED" => res \in {"ACCEPTED", "ALREADY_PROCESSED"}
             /\ AfterResult(c, res).status = "CONFLICT" => res = "LOCKED"
  <2>1. c.id \in Event /\ c.tries \in Nat /\ outbox[c.id] \in Row /\ outbox[c.id].token \in BOOLEAN
    BY DEF Copy, Types, Row
  <2>2. CASE res \in {"ACCEPTED", "ALREADY_PROCESSED"}
    BY <2>1, <2>2 DEF AfterResult, Row
  <2>3. CASE res \notin {"ACCEPTED", "ALREADY_PROCESSED"} /\ outbox[c.id].status = "NONE"
    BY <2>3 DEF AfterResult, NoRow, Row
  <2>4. CASE res \notin {"ACCEPTED", "ALREADY_PROCESSED"} /\ outbox[c.id].status # "NONE"
    BY <2>1, <2>4 DEF AfterResult, AfterFailure, Row
  <2>5. QED
    BY <2>2, <2>3, <2>4
<1>4. \A e \in Event : results[e] \in Result \cup {"none"} /\ outbox[e] \in Row
  BY DEF Results, Types
<1>5. outbox' \in [Event -> Row]
  BY <1>1, <1>2, <1>3, <1>4
<1>6. /\ sent' \in [Flush -> SUBSET Copy]
      /\ pc' \in [Flush -> {"idle", "requeued", "pending", "sending", "waiting"}]
  BY <1>1 DEF Types
<1>7. answer' \in [Flush -> Results] /\ AnswersKeep
  <2>1. NoResult \in Results /\ \A e \in Event : NoResult[e] = "none"
    BY DEF NoResult, Results
  <2>2. QED
    BY <1>1, <2>1 DEF Types, AnswersKeep
<1>8. OutboxKeeps
  <2>1. ASSUME NEW e \in Event
        PROVE  /\ outbox'[e].status = "SYNCED" => Acked(e)
               /\ outbox'[e].status = "CONFLICT" => Flagged(e)
    <3>1. CASE e \notin Ids(sent[f])
      BY <1>1, <3>1 DEF OutboxHolds
    <3>2. CASE e \in Ids(sent[f])
      BY <1>1, <1>2, <1>3, <1>4, <3>2
    <3>3. QED
      BY <3>1, <3>2
  <2>2. QED
    BY <2>1 DEF OutboxKeeps
<1>9. QED
  BY <1>1, <1>5, <1>6, <1>7, <1>8

LEMMA AllFailedFacts ==
  /\ AllFailed \in Results /\ \A e \in Event : AllFailed[e] = "RETRYABLE"
  /\ NoResult \in Results /\ \A e \in Event : NoResult[e] = "none"
  BY DEF AllFailed, NoResult, Results, Result

LEMMA AbandonFacts ==
  ASSUME Types, NEW f \in Flush, Abandon(f)
  PROVE  client' \in [Request -> Flush \cup {Nobody}]
  BY DEF Types, Abandon

LEMMA AnsweredHolds ==
  ASSUME SyncInv, NEW f \in Flush, Answered(f)
  PROVE  SyncInv'
<1>1. /\ UNCHANGED <<client, stage, todo, cur, saw, result, tx, session, roster, record, conflicted,
                     recorded, revoked, spent, scanned, lost, torn, unfiled>>
      /\ Settle(f, answer[f])
  BY DEF Answered, requestVars, serverVars
<1>2. Types /\ OutboxHolds /\ CopiesSingle /\ answer[f] \in Results
  BY DEF SyncInv, Types
<1>3. \A e \in Event : /\ answer[f][e] \in {"ACCEPTED", "ALREADY_PROCESSED"} => Acked(e)
                       /\ answer[f][e] = "LOCKED" => Flagged(e)
  BY DEF SyncInv, AnswersHold
<1>4. /\ outbox' \in [Event -> Row] /\ sent' \in [Flush -> SUBSET Copy]
      /\ answer' \in [Flush -> Results] /\ copies' = copies
      /\ pc' \in [Flush -> {"idle", "requeued", "pending", "sending", "waiting"}]
      /\ OutboxKeeps /\ AnswersKeep
  BY <1>1, <1>2, <1>3, SettleFacts
<1>5. Types' /\ CopiesSingle'
  BY <1>1, <1>2, <1>4 DEF Types, CopiesSingle
<1>6. QED
  BY <1>1, <1>4, <1>5, BrowserHolds

LEMMA LoseConnectionHolds ==
  ASSUME SyncInv, NEW f \in Flush, LoseConnection(f)
  PROVE  SyncInv'
<1>1. /\ UNCHANGED <<stage, todo, cur, saw, result, tx, session, roster, record, conflicted,
                     recorded,
                     revoked, scanned, lost, torn, unfiled>>
      /\ Settle(f, AllFailed) /\ Abandon(f) /\ Spend("faults")
  BY DEF LoseConnection, serverVars, Fault
<1>2. Types /\ OutboxHolds /\ CopiesSingle
  BY DEF SyncInv
<1>3. /\ outbox' \in [Event -> Row] /\ sent' \in [Flush -> SUBSET Copy]
      /\ answer' \in [Flush -> Results] /\ copies' = copies
      /\ pc' \in [Flush -> {"idle", "requeued", "pending", "sending", "waiting"}]
      /\ OutboxKeeps /\ AnswersKeep
  BY <1>1, <1>2, AllFailedFacts, SettleFacts
<1>4. /\ client' \in [Request -> Flush \cup {Nobody}]
      /\ spent' \in [{"faults", "edits", "admin", "logouts"} -> Nat]
  BY <1>1, <1>2, AbandonFacts, SpendFacts
<1>5. Types' /\ CopiesSingle'
  BY <1>1, <1>2, <1>3, <1>4 DEF Types, CopiesSingle
<1>6. QED
  BY <1>1, <1>3, <1>5, BrowserHolds

LEMMA CloseTabHolds ==
  ASSUME SyncInv, NEW f \in Flush, CloseTab(f)
  PROVE  SyncInv'
<1>1. /\ UNCHANGED <<outbox, stage, todo, cur, saw, result, tx, session, roster, record, conflicted,
                     recorded, revoked, scanned, lost, torn, unfiled>>
      /\ pc' = [pc EXCEPT ![f] = "idle"] /\ copies' = [copies EXCEPT ![f] = {}]
      /\ sent' = [sent EXCEPT ![f] = {}] /\ answer' = [answer EXCEPT ![f] = NoResult]
      /\ Abandon(f) /\ Spend("faults")
  BY DEF CloseTab, serverVars, Fault
<1>2. Types /\ OutboxHolds /\ CopiesSingle
  BY DEF SyncInv
<1>3. /\ client' \in [Request -> Flush \cup {Nobody}]
      /\ spent' \in [{"faults", "edits", "admin", "logouts"} -> Nat]
  BY <1>1, <1>2, AbandonFacts, SpendFacts
<1>4. /\ copies' \in [Flush -> SUBSET Copy] /\ sent' \in [Flush -> SUBSET Copy]
      /\ pc' \in [Flush -> {"idle", "requeued", "pending", "sending", "waiting"}]
      /\ CopiesSingle'
  BY <1>1, <1>2 DEF Types, CopiesSingle, Single
<1>5. answer' \in [Flush -> Results] /\ AnswersKeep
  BY <1>1, <1>2, AllFailedFacts DEF Types, AnswersKeep
<1>6. Types' /\ OutboxKeeps
  BY <1>1, <1>2, <1>3, <1>4, <1>5 DEF Types, OutboxKeeps, OutboxHolds
<1>7. QED
  BY <1>1, <1>4, <1>5, <1>6, BrowserHolds

LEMMA LogoutHolds ==
  ASSUME SyncInv, Logout
  PROVE  SyncInv'
<1>1. /\ UNCHANGED <<pc, copies, sent, answer, client, stage, todo, cur, saw, result, tx,
                     session, roster,
                     record, conflicted, recorded, revoked, scanned, lost, torn, unfiled>>
      /\ outbox' = [e \in Event |-> NoRow] /\ Spend("logouts")
  BY DEF Logout, flushVars, requestVars, serverVars
<1>2. Types /\ CopiesSingle
  BY DEF SyncInv
<1>3. /\ spent' \in [{"faults", "edits", "admin", "logouts"} -> Nat]
      /\ outbox' \in [Event -> Row]
  BY <1>1, <1>2, SpendFacts DEF Row, NoRow
<1>4. Types' /\ CopiesSingle'
  BY <1>1, <1>2, <1>3 DEF Types, CopiesSingle
<1>5. OutboxKeeps /\ AnswersKeep
  BY <1>1 DEF OutboxKeeps, AnswersKeep, NoRow
<1>6. QED
  BY <1>1, <1>4, <1>5, BrowserHolds

-------------------------------------------------------------------------------
(* Steps of a request before its response *)

\* A step of request r that neither answers nor commits keeps the others.
Alone(r) ==
  \A q \in Request : q # r =>
    /\ stage'[q] = stage[q] /\ todo'[q] = todo[q] /\ cur'[q] = cur[q] /\ saw'[q] = saw[q]
    /\ result'[q] = result[q] /\ tx'[q] = tx[q]

LEMMA LocalHolds ==
  ASSUME SyncInv, NEW r \in Request, Types', CopiesSingle', AnswersKeep, OutboxKeeps, Alone(r),
         stage[r] # "responded", stage'[r] # "responded",
         UNCHANGED <<session, record, conflicted, recorded, lost, torn, unfiled>>,
         LoopHolds(r)', WorkHolds(r)',
         \A q \in Request : q # r => tx[q].inserted \cap tx'[r].inserted = {}
  PROVE  SyncInv'
<1>1. \A q \in Request : /\ Ending(q)' <=> Ending(q)
                         /\ Ending(q) => tx'[q] = tx[q]
  BY DEF Ending, Alone
<1>2. \A e \in Event : (Acked(e)' <=> Acked(e)) /\ (Flagged(e)' <=> Flagged(e))
  BY <1>1 DEF Acked, Flagged
<1>3. RequestsHold'
  <2>1. ASSUME NEW q \in Request, q # r PROVE LoopHolds(q)' /\ WorkHolds(q)'
    <3>1. LoopHolds(q) /\ WorkHolds(q)
      BY DEF SyncInv, RequestsHold
    <3>2. /\ stage'[q] = stage[q] /\ todo'[q] = todo[q] /\ cur'[q] = cur[q] /\ saw'[q] = saw[q]
          /\ result'[q] = result[q] /\ tx'[q] = tx[q] /\ recorded' = recorded /\ record' = record
      BY <2>1 DEF Alone
    <3>3. LoopHolds(q)'
      BY <3>1, <3>2 DEF LoopHolds, Busy
    <3>4. WorkHolds(q)'
      BY <3>1, <3>2 DEF WorkHolds, Logging
    <3>5. QED
      BY <3>3, <3>4
  <2>2. QED
    BY <2>1 DEF RequestsHold
<1>4. Apart'
  BY DEF SyncInv, Apart, Alone
<1>5. AnswersHold'
  BY <1>2 DEF SyncInv, AnswersHold, AnswersKeep
<1>6. OutboxHolds'
  BY <1>2 DEF OutboxHolds, OutboxKeeps
<1>7. LogIsProjected' /\ UnfiledHolds'
  BY DEF SyncInv, LogIsProjected, UnfiledHolds
<1>8. QED
  BY <1>3, <1>4, <1>5, <1>6, <1>7 DEF SyncInv

LEMMA SendHolds ==
  ASSUME SyncInv, NEW f \in Flush, NEW r \in Request, Send(f, r)
  PROVE  SyncInv'
<1>0. /\ UNCHANGED <<answer, cur, saw, result, tx, session, roster, record, conflicted, recorded,
                     revoked,
                     spent, scanned, lost, torn, unfiled>>
      /\ pc' = [pc EXCEPT ![f] = "waiting"] /\ client' = [client EXCEPT ![r] = f]
      /\ stage' = [stage EXCEPT ![r] = "running"] /\ stage[r] = "free"
  BY DEF Send, serverVars
<1>1. PICK batch \in SUBSET copies[f] :
        /\ copies' = [copies EXCEPT ![f] = @ \ batch]
        /\ sent' = [sent EXCEPT ![f] = batch] /\ todo' = [todo EXCEPT ![r] = batch]
        /\ outbox' = [e \in Event |-> IF e \in Ids(batch) /\ outbox[e].status # "NONE"
                         THEN [outbox[e] EXCEPT !.status = "SYNCING"] ELSE outbox[e]]
  BY DEF Send
<1>2. Types /\ OutboxHolds /\ CopiesSingle /\ LoopHolds(r) /\ WorkHolds(r)
  BY DEF SyncInv, RequestsHold
<1>3. batch \subseteq Copy /\ Single(batch) /\ Single(copies[f] \ batch) /\ copies[f] \subseteq Copy
  BY <1>1, <1>2 DEF Types, CopiesSingle, Single
<1>4. /\ outbox' \in [Event -> Row]
      /\ \A e \in Event : outbox'[e] = outbox[e] \/ outbox'[e].status = "SYNCING"
  <2>1. \A e \in Event : outbox[e] \in Row
    BY <1>2 DEF Types
  <2>2. \A e \in Event : /\ [outbox[e] EXCEPT !.status = "SYNCING"] \in Row
                         /\ [outbox[e] EXCEPT !.status = "SYNCING"].status = "SYNCING"
    BY <2>1 DEF Row
  <2>3. QED
    BY <1>1, <2>1, <2>2
<1>5. copies' \in [Flush -> SUBSET Copy] /\ sent' \in [Flush -> SUBSET Copy] /\ CopiesSingle'
  <2>1. copies \in [Flush -> SUBSET Copy] /\ sent \in [Flush -> SUBSET Copy]
    BY <1>2 DEF Types
  <2>2. /\ copies' \in [Flush -> SUBSET Copy] /\ copies'[f] = copies[f] \ batch
        /\ \A g \in Flush : g # f => copies'[g] = copies[g]
    BY <1>1, <1>3, <2>1
  <2>3. sent' \in [Flush -> SUBSET Copy]
    BY <1>1, <1>3, <2>1
  <2>4. QED
    BY <1>2, <1>3, <2>2, <2>3 DEF CopiesSingle
<1>6. /\ todo' \in [Request -> SUBSET Copy] /\ todo'[r] = batch
      /\ \A q \in Request : q # r => todo'[q] = todo[q]
  BY <1>1, <1>2, <1>3 DEF Types
<1>7. /\ stage' \in [Request -> {"free", "running", "checked", "read", "logged", "responded"}]
      /\ stage'[r] = "running" /\ \A q \in Request : q # r => stage'[q] = stage[q]
      /\ client' \in [Request -> Flush \cup {Nobody}]
      /\ pc' \in [Flush -> {"idle", "requeued", "pending", "sending", "waiting"}]
  BY <1>0, <1>2 DEF Types
<1>8. Types'
  BY <1>0, <1>2, <1>4, <1>5, <1>6, <1>7 DEF Types
<1>9. OutboxKeeps /\ AnswersKeep
  BY <1>0, <1>2, <1>4 DEF OutboxKeeps, OutboxHolds, AnswersKeep
<1>10. Alone(r)
  BY <1>0, <1>6, <1>7 DEF Alone
<1>11. LoopHolds(r)'
  <2>1. result[r] = NoResult /\ cur[r] = NoCopy /\ saw[r] # "PRESENT"
    BY <1>0, <1>2 DEF LoopHolds, Busy
  <2>2. \A c \in batch : result[r][c.id] = "none"
    BY <1>3, <2>1, AllFailedFacts DEF Copy
  <2>3. QED
    BY <1>0, <1>3, <1>6, <1>7, <2>1, <2>2 DEF LoopHolds, Busy
<1>12. WorkHolds(r)'
  BY <1>0, <1>2, <1>7 DEF WorkHolds, Logging
<1>13. \A q \in Request : q # r => tx[q].inserted \cap tx'[r].inserted = {}
  BY <1>0 DEF SyncInv, Apart
<1>14. QED
  BY <1>0, <1>5, <1>7, <1>8, <1>9, <1>10, <1>11, <1>12, <1>13, LocalHolds

\* A step of the loop over the batch of r, as the rest of the system sees it.
LEMMA QuietHolds ==
  ASSUME SyncInv, NEW r \in Request, Alone(r), stage[r] # "responded", stage'[r] # "responded",
         UNCHANGED <<outbox, pc, copies, sent, answer, client, session, roster, record, conflicted,
                     recorded, revoked, scanned, lost, torn, unfiled>>,
         spent' \in [{"faults", "edits", "admin", "logouts"} -> Nat],
         stage' \in [Request -> {"free", "running", "checked", "read", "logged", "responded"}],
         todo' \in [Request -> SUBSET Copy], cur' \in [Request -> Copy \cup {NoCopy}],
         saw' \in [Request -> Mark], result' \in [Request -> Results], tx' \in [Request -> Tx],
         LoopHolds(r)', WorkHolds(r)',
         \A q \in Request : q # r => tx[q].inserted \cap tx'[r].inserted = {}
  PROVE  SyncInv'
<1>1. Types'
  BY DEF SyncInv, Types
<1>2. CopiesSingle' /\ OutboxKeeps /\ AnswersKeep
  BY DEF SyncInv, CopiesSingle, OutboxKeeps, OutboxHolds, AnswersKeep
<1>3. QED
  BY <1>1, <1>2, LocalHolds

\* What the transactions have in hand is not disturbed by a step that logs no more.
LEMMA ApartFacts ==
  ASSUME Apart, NEW r \in Request, tx'[r].inserted \subseteq tx[r].inserted
  PROVE  \A q \in Request : q # r => tx[q].inserted \cap tx'[r].inserted = {}
  BY DEF Apart

LEMMA AdmitHolds ==
  ASSUME SyncInv, NEW r \in Request, NEW c \in todo[r], Admit(r, c)
  PROVE  SyncInv'
<1>1. /\ UNCHANGED <<outbox, pc, copies, sent, answer, client, todo, saw, result, tx, session,
                     roster,
                     record, conflicted, recorded, revoked, spent, scanned, lost, torn, unfiled>>
      /\ stage' = [stage EXCEPT ![r] = "checked"] /\ cur' = [cur EXCEPT ![r] = c]
      /\ stage[r] = "running"
  BY DEF Admit, flushVars, serverVars
<1>2. Types /\ LoopHolds(r) /\ WorkHolds(r) /\ Apart /\ c \in Copy
  BY DEF SyncInv, RequestsHold, Types
<1>3. /\ stage' \in [Request -> {"free", "running", "checked", "read", "logged", "responded"}]
      /\ cur' \in [Request -> Copy \cup {NoCopy}]
      /\ stage'[r] = "checked" /\ cur'[r] = c
      /\ \A q \in Request : q # r => stage'[q] = stage[q] /\ cur'[q] = cur[q]
  BY <1>1, <1>2 DEF Types
<1>4. Alone(r)
  BY <1>1, <1>3 DEF Alone
<1>5. LoopHolds(r)'
  BY <1>1, <1>2, <1>3 DEF LoopHolds, Busy
<1>6. WorkHolds(r)'
  BY <1>1, <1>2, <1>3 DEF WorkHolds, Logging
<1>8. \A q \in Request : q # r => tx[q].inserted \cap tx'[r].inserted = {}
  BY <1>1, <1>2, ApartFacts
<1>9. QED
  BY <1>1, <1>3, <1>4, <1>5, <1>6, <1>8, QuietHolds DEF SyncInv, Types

LEMMA ReadRecordHolds ==
  ASSUME SyncInv, NEW r \in Request, ReadRecord(r)
  PROVE  SyncInv'
<1>1. /\ UNCHANGED <<outbox, pc, copies, sent, answer, client, todo, cur, result, tx, session,
                     roster,
                     record, conflicted, recorded, revoked, spent, scanned, lost, torn, unfiled>>
      /\ stage' = [stage EXCEPT ![r] = "read"]
      /\ saw' = [saw EXCEPT ![r] = record[cur[r].id]]
      /\ stage[r] = "checked"
  BY DEF ReadRecord, flushVars, serverVars
<1>2. Types /\ LoopHolds(r) /\ WorkHolds(r) /\ Apart
  BY DEF SyncInv, RequestsHold
<1>3. cur[r] \in todo[r] /\ cur[r].id \in Event /\ record[cur[r].id] \in Mark
  BY <1>1, <1>2 DEF LoopHolds, Busy, Types, Copy
<1>4. /\ stage' \in [Request -> {"free", "running", "checked", "read", "logged", "responded"}]
      /\ saw' \in [Request -> Mark]
      /\ stage'[r] = "read" /\ saw'[r] = record[cur[r].id]
      /\ \A q \in Request : q # r => stage'[q] = stage[q] /\ saw'[q] = saw[q]
  BY <1>1, <1>2, <1>3 DEF Types
<1>5. Alone(r)
  BY <1>1, <1>4 DEF Alone
<1>6. LoopHolds(r)'
  BY <1>1, <1>2, <1>3, <1>4 DEF LoopHolds, Busy
<1>7. WorkHolds(r)'
  BY <1>1, <1>2, <1>4 DEF WorkHolds, Logging
<1>8. \A q \in Request : q # r => tx[q].inserted \cap tx'[r].inserted = {}
  BY <1>1, <1>2, ApartFacts
<1>9. QED
  BY <1>1, <1>4, <1>5, <1>6, <1>7, <1>8, QuietHolds DEF SyncInv, Types

\* An event that ends leaves the loop in order ...
LEMMA EndedLoop ==
  ASSUME Types, NEW r \in Request, LoopHolds(r), NEW c \in todo[r], NEW res \in Result,
         EndEvent(r, c, res), stage'[r] = "running", cur'[r] = NoCopy, saw'[r] # "PRESENT"
  PROVE  LoopHolds(r)'
<1>1. /\ c \in Copy /\ todo[r] \subseteq Copy /\ Single(todo[r])
      /\ \A d \in todo[r] : result[r][d.id] = "none" /\ d.id \in Event
  BY DEF Types, LoopHolds, Copy
<1>2. /\ todo'[r] = todo[r] \ {c}
      /\ \A e \in Event : result'[r][e] = IF e = c.id THEN res ELSE result[r][e]
  BY <1>1, EndFacts
<1>3. Single(todo'[r])
  BY <1>1, <1>2 DEF Single
<1>4. \A d \in todo'[r] : result'[r][d.id] = "none"
  BY <1>1, <1>2 DEF Single
<1>5. QED
  BY <1>3, <1>4 DEF LoopHolds, Busy

\* ... and its result true, when the transaction keeps what it wrote for the
\* others and holds of this one what the result says.
LEMMA EndedWork ==
  ASSUME Types, NEW r \in Request, WorkHolds(r), NEW c \in todo[r], NEW res \in Result,
         EndEvent(r, c, res), stage'[r] = "running", stage[r] = "logged" => cur[r] = c,
         UNCHANGED <<record, recorded, unfiled>>,
         tx'[r].marked \subseteq tx'[r].inserted, tx'[r].inserted \cap recorded = {},
         tx'[r].inserted \subseteq Event, tx[r].flagged \subseteq tx'[r].flagged,
         \A e \in Event : e # c.id => /\ e \in tx'[r].inserted <=> e \in tx[r].inserted
                                      /\ e \in tx'[r].marked <=> e \in tx[r].marked,
         c.id \in tx'[r].inserted <=> res = "ACCEPTED",
         c.id \in tx'[r].inserted \ tx'[r].marked => record[c.id] \notin {"NONE", "UNMARKED"},
         res = "ALREADY_PROCESSED" => c.id \in recorded,
         res = "LOCKED" => c.id \in tx'[r].flagged \cup unfiled
  PROVE  WorkHolds(r)'
<1>1. c \in Copy /\ c.id \in Event /\ (stage[r] = "logged" => cur[r].id = c.id)
  BY DEF Types, Copy
<1>2. \A e \in Event : result'[r][e] = IF e = c.id THEN res ELSE result[r][e]
  BY <1>1, EndFacts
<1>3. \A e \in Event : e # c.id => ~Logging(r, e)
  BY <1>1 DEF Logging
<1>4. \A e \in tx'[r].inserted : result'[r][e] = "ACCEPTED"
  BY <1>1, <1>2, <1>3 DEF WorkHolds
<1>5. \A e \in tx'[r].inserted \ tx'[r].marked : record'[e] \notin {"NONE", "UNMARKED"}
  BY <1>1, <1>3 DEF WorkHolds
<1>6. \A e \in Event : /\ result'[r][e] \in {"ACCEPTED", "ALREADY_PROCESSED"}
                            => e \in recorded' \cup tx'[r].inserted
                       /\ result'[r][e] = "LOCKED" => e \in tx'[r].flagged \cup unfiled'
  BY <1>1, <1>2, <1>3 DEF WorkHolds
<1>7. QED
  BY <1>4, <1>5, <1>6 DEF WorkHolds

\* A scan without a result is logged only while it is being projected.
LEMMA PendingFacts ==
  ASSUME Types, NEW r \in Request, LoopHolds(r), WorkHolds(r), NEW c \in todo[r]
  PROVE  /\ c \in Copy /\ c.id \in Event
         /\ c.id \in tx[r].inserted <=> Logging(r, c.id)
         /\ c.id \in tx[r].marked => Logging(r, c.id)
<1>1. c \in Copy /\ c.id \in Event /\ result[r][c.id] = "none"
  BY DEF Types, Copy, LoopHolds
<1>2. QED
  BY <1>1 DEF WorkHolds, Logging

LEMMA RefuseHolds ==
  ASSUME SyncInv, NEW r \in Request, NEW c \in todo[r], Refuse(r, c)
  PROVE  SyncInv'
<1> DEFINE res == Refusal(r, c)
<1>1. /\ UNCHANGED <<outbox, pc, copies, sent, answer, client, stage, cur, saw, session, roster,
                     record,
                     conflicted, recorded, revoked, spent, scanned, lost, torn, unfiled>>
      /\ EndEvent(r, c, res) /\ stage[r] = "running" /\ res # "none"
      /\ tx' = IF Flags(r, c) THEN [tx EXCEPT ![r].flagged = @ \cup {c.id}] ELSE tx
  BY DEF Refuse, flushVars, serverVars
<1>2. Types /\ LoopHolds(r) /\ WorkHolds(r) /\ Apart
  BY DEF SyncInv, RequestsHold
<1>3. /\ c \in Copy /\ c.id \in Event /\ c.id \notin tx[r].inserted /\ c.id \notin tx[r].marked
  BY <1>1, <1>2, PendingFacts DEF Logging
<1>4. /\ res \in Result /\ res # "ACCEPTED"
      /\ res = "ALREADY_PROCESSED" => c.id \in recorded
  <2>1. res \in {"ALREADY_PROCESSED", "LOCKED", "RETRYABLE", "PERMANENT", "none"}
    BY DEF Refusal
  <2>2. res = "ALREADY_PROCESSED" => c.id \in recorded \cup tx[r].inserted
    BY DEF Refusal
  <2>3. QED
    BY <1>1, <1>3, <2>1, <2>2 DEF Result
<1>12. Flags(r, c) <=> res = "LOCKED" /\ record[c.id] # "NONE"
  BY DEF Flags
<1>13. res = "LOCKED" /\ record[c.id] = "NONE" => c.id \in unfiled
  <2>1. res = "LOCKED" => session = "FINALIZED"
    BY DEF Refusal
  <2>2. QED
    BY <1>3, <2>1 DEF SyncInv, UnfiledHolds
<1> HIDE DEF res
<1>5. /\ tx' \in [Request -> Tx] /\ \A q \in Request : q # r => tx'[q] = tx[q]
      /\ tx'[r].inserted = tx[r].inserted /\ tx'[r].marked = tx[r].marked
      /\ tx[r].flagged \subseteq tx'[r].flagged
      /\ res = "LOCKED" => c.id \in tx'[r].flagged \cup unfiled
  <2>1. tx \in [Request -> Tx] /\ tx[r] \in Tx
    BY <1>2 DEF Types
  <2>2. CASE Flags(r, c)
    BY <1>1, <1>3, <2>1, <2>2 DEF Tx
  <2>3. CASE ~Flags(r, c)
    BY <1>1, <1>12, <1>13, <2>1, <2>3
  <2>4. QED
    BY <2>2, <2>3
<1>6. /\ result' \in [Request -> Results] /\ todo' \in [Request -> SUBSET Copy]
      /\ \A q \in Request : q # r => todo'[q] = todo[q] /\ result'[q] = result[q]
  BY <1>1, <1>2, <1>3, <1>4, EndFacts
<1>7. Alone(r)
  BY <1>1, <1>5, <1>6 DEF Alone
<1>8. LoopHolds(r)'
  <2>1. cur[r] = NoCopy /\ saw[r] # "PRESENT"
    BY <1>1, <1>2 DEF LoopHolds, Busy
  <2>2. QED
    BY <1>1, <1>2, <1>4, <2>1, EndedLoop
<1>9. WorkHolds(r)'
  <2>1. /\ tx[r].marked \subseteq tx[r].inserted /\ tx[r].inserted \cap recorded = {}
        /\ tx[r].inserted \subseteq Event
    BY <1>2, TxTypes DEF WorkHolds
  <2>2. QED
    BY <1>1, <1>2, <1>3, <1>4, <1>5, <2>1, EndedWork
<1>10. \A q \in Request : q # r => tx[q].inserted \cap tx'[r].inserted = {}
  BY <1>2, <1>5, ApartFacts
<1>11. QED
  BY <1>1, <1>2, <1>5, <1>6, <1>7, <1>8, <1>9, <1>10, QuietHolds DEF Types

\* A statement of the current event that fails.
LEMMA FailHolds ==
  ASSUME SyncInv, NEW r \in Request, stage[r] \in {"read", "logged"},
         StatementFails(r), NextEvent(r),
         UNCHANGED <<outbox, pc, copies, sent, answer, client, session, roster, record, conflicted,
                     recorded, revoked, scanned, lost, torn, unfiled>>,
         spent' \in [{"faults", "edits", "admin", "logouts"} -> Nat]
  PROVE  SyncInv'
<1>1. Types /\ LoopHolds(r) /\ WorkHolds(r) /\ Apart
  BY DEF SyncInv, RequestsHold
<1>2. cur[r] \in todo[r] /\ cur[r] \in Copy /\ cur[r].id \in Event /\ "RETRYABLE" \in Result
  BY <1>1 DEF LoopHolds, Busy, Types, Copy, Result
<1>3. /\ EndEvent(r, cur[r], "RETRYABLE")
      /\ tx' \in [Request -> Tx] /\ \A q \in Request : q # r => tx'[q] = tx[q]
      /\ tx'[r].marked = tx[r].marked /\ tx'[r].flagged = tx[r].flagged
      /\ tx'[r].inserted = IF saw[r] # "PRESENT" /\ stage[r] = "logged"
                           THEN tx[r].inserted \ {cur[r].id} ELSE tx[r].inserted
  BY <1>1, <1>2, FailFacts
<1>4. /\ stage' \in [Request -> {"free", "running", "checked", "read", "logged", "responded"}]
      /\ cur' \in [Request -> Copy \cup {NoCopy}] /\ saw' \in [Request -> Mark]
      /\ stage'[r] = "running" /\ cur'[r] = NoCopy /\ saw'[r] = "UNMARKED"
      /\ \A q \in Request : q # r => stage'[q] = stage[q] /\ cur'[q] = cur[q] /\ saw'[q] = saw[q]
  BY <1>1, NextFacts
<1>5. /\ result' \in [Request -> Results] /\ todo' \in [Request -> SUBSET Copy]
      /\ \A q \in Request : q # r => todo'[q] = todo[q] /\ result'[q] = result[q]
  BY <1>1, <1>2, <1>3, EndFacts
<1>6. Alone(r)
  BY <1>3, <1>4, <1>5 DEF Alone
<1>7. LoopHolds(r)'
  BY <1>1, <1>2, <1>3, <1>4, EndedLoop
<1>8. WorkHolds(r)'
  <2>1. /\ tx[r].marked \subseteq tx[r].inserted /\ tx[r].inserted \cap recorded = {}
        /\ tx[r].inserted \subseteq Event
    BY <1>1, TxTypes DEF WorkHolds
  <2>2. cur[r].id \in tx[r].inserted <=> stage[r] = "logged"
    BY <1>1, <1>2, PendingFacts DEF Logging
  <2>3. stage[r] = "logged" => saw[r] # "PRESENT"
    BY <1>1 DEF LoopHolds
  <2>4. cur[r].id \notin tx'[r].inserted /\ tx'[r].inserted = tx[r].inserted \ {cur[r].id}
    BY <1>3, <2>2, <2>3
  <2>5. cur[r].id \notin tx[r].marked
    BY <1>1, <2>1, <2>2 DEF WorkHolds
  <2>6. QED
    BY <1>1, <1>2, <1>3, <1>4, <2>1, <2>4, <2>5, EndedWork
<1>9. \A q \in Request : q # r => tx[q].inserted \cap tx'[r].inserted = {}
  BY <1>1, <1>3, ApartFacts
<1>10. QED
  BY <1>1, <1>3, <1>4, <1>5, <1>6, <1>7, <1>8, <1>9, QuietHolds DEF Types

LEMMA InsertHolds ==
  ASSUME SyncInv, NEW r \in Request, Insert(r)
  PROVE  SyncInv'
<1> DEFINE e == cur[r].id
           logged == [tx EXCEPT ![r].inserted = @ \cup {e}]
<1>1. /\ UNCHANGED <<outbox, pc, copies, sent, answer, client, session, roster, record, conflicted,
                     recorded, revoked, spent, scanned, lost, torn, unfiled>>
      /\ stage[r] = "read" /\ Inserters(e) = {}
  BY DEF Insert, flushVars, serverVars
<1>2. Types /\ LoopHolds(r) /\ WorkHolds(r) /\ Apart
  BY DEF SyncInv, RequestsHold
<1>3. /\ cur[r] \in todo[r] /\ cur[r] \in Copy /\ e \in Event /\ "ACCEPTED" \in Result
      /\ e \notin tx[r].inserted /\ e \notin tx[r].marked /\ \A q \in Request : e \notin tx[q].inserted
  <2>1. cur[r] \in todo[r] /\ "ACCEPTED" \in Result
    BY <1>1, <1>2 DEF LoopHolds, Busy, Result
  <2>2. \A q \in Request : e \notin tx[q].inserted
    BY <1>1 DEF Inserters
  <2>3. QED
    BY <1>1, <1>2, <2>1, <2>2, PendingFacts DEF Logging
<1>4. /\ logged \in [Request -> Tx] /\ logged[r].inserted = tx[r].inserted \cup {e}
      /\ logged[r].marked = tx[r].marked /\ logged[r].flagged = tx[r].flagged
      /\ \A q \in Request : q # r => logged[q] = tx[q]
  <2>1. tx \in [Request -> Tx] /\ tx[r] \in Tx
    BY <1>2 DEF Types
  <2>2. QED
    BY <1>3, <2>1 DEF Tx
<1>5. /\ tx[r].marked \subseteq tx[r].inserted /\ tx[r].inserted \cap recorded = {}
      /\ tx[r].inserted \subseteq Event
  BY <1>2, TxTypes DEF WorkHolds
<1>6. \A q \in Request : q # r => tx[q].inserted \cap logged[r].inserted = {}
  BY <1>2, <1>3, <1>4 DEF Apart
<1>7. CASE e \in recorded /\ StatementFails(r) /\ NextEvent(r)
  BY <1>1, <1>2, <1>7, FailHolds DEF Types
<1> HIDE DEF logged
<1>8. CASE /\ e \notin recorded /\ saw[r] = "PRESENT"
           /\ tx' = logged /\ EndEvent(r, cur[r], "ACCEPTED") /\ NextEvent(r)
  <2>1. /\ stage' \in [Request -> {"free", "running", "checked", "read", "logged", "responded"}]
        /\ cur' \in [Request -> Copy \cup {NoCopy}] /\ saw' \in [Request -> Mark]
        /\ stage'[r] = "running" /\ cur'[r] = NoCopy /\ saw'[r] = "UNMARKED"
        /\ \A q \in Request : q # r => stage'[q] = stage[q] /\ cur'[q] = cur[q] /\ saw'[q] = saw[q]
    BY <1>2, <1>8, NextFacts
  <2>2. /\ result' \in [Request -> Results] /\ todo' \in [Request -> SUBSET Copy]
        /\ \A q \in Request : q # r => todo'[q] = todo[q] /\ result'[q] = result[q]
    BY <1>2, <1>3, <1>8, EndFacts
  <2>3. Alone(r)
    BY <1>4, <1>8, <2>1, <2>2 DEF Alone
  <2>4. LoopHolds(r)'
    BY <1>2, <1>3, <1>8, <2>1, EndedLoop
  <2>5. record[e] \notin {"NONE", "UNMARKED"}
    BY <1>2, <1>8 DEF LoopHolds
  <2>6. /\ tx'[r].inserted = tx[r].inserted \cup {e} /\ tx'[r].marked = tx[r].marked
        /\ tx'[r].flagged = tx[r].flagged
    BY <1>4, <1>8
  <2>7. WorkHolds(r)'
    BY <1>1, <1>2, <1>3, <1>5, <1>8, <2>1, <2>5, <2>6, EndedWork
  <2>8. QED
    BY <1>1, <1>2, <1>4, <1>6, <1>8, <2>1, <2>2, <2>3, <2>4, <2>7, QuietHolds DEF Types
<1>9. CASE /\ e \notin recorded /\ saw[r] # "PRESENT"
           /\ tx' = logged /\ stage' = [stage EXCEPT ![r] = "logged"]
           /\ UNCHANGED <<todo, cur, saw, result>>
  <2>1. /\ stage' \in [Request -> {"free", "running", "checked", "read", "logged", "responded"}]
        /\ stage'[r] = "logged" /\ \A q \in Request : q # r => stage'[q] = stage[q]
    BY <1>2, <1>9 DEF Types
  <2>2. Alone(r)
    BY <1>4, <1>9, <2>1 DEF Alone
  <2>3. LoopHolds(r)'
    BY <1>2, <1>3, <1>9, <2>1 DEF LoopHolds, Busy
  <2>4. /\ tx'[r].inserted = tx[r].inserted \cup {e} /\ tx'[r].marked = tx[r].marked
        /\ tx'[r].flagged = tx[r].flagged
    BY <1>4, <1>9
  <2>5. \A x \in Event : ~Logging(r, x)
    BY <1>1 DEF Logging
  <2>6. WorkHolds(r)'
    <3>1. cur'[r].id = e /\ stage'[r] = "logged" /\ result' = result
      BY <1>9, <2>1
    <3>2. \A x \in tx'[r].inserted : result'[r][x] = "ACCEPTED" \/ Logging(r, x)'
      BY <1>2, <1>5, <2>4, <2>5, <3>1 DEF WorkHolds, Logging
    <3>3. \A x \in tx'[r].inserted \ tx'[r].marked :
            record'[x] \notin {"NONE", "UNMARKED"} \/ Logging(r, x)'
      BY <1>1, <1>2, <1>5, <2>4, <2>5, <3>1 DEF WorkHolds, Logging
    <3>4. /\ tx'[r].marked \subseteq tx'[r].inserted /\ tx'[r].inserted \cap recorded' = {}
          /\ cur'[r].id \in tx'[r].inserted \ tx'[r].marked
      BY <1>1, <1>3, <1>5, <1>9, <2>4, <3>1
    <3>5. \A x \in Event : /\ result'[r][x] \in {"ACCEPTED", "ALREADY_PROCESSED"}
                                => x \in recorded' \cup tx'[r].inserted
                           /\ result'[r][x] = "LOCKED" => x \in tx'[r].flagged \cup unfiled'
      BY <1>1, <1>2, <2>4, <3>1 DEF WorkHolds
    <3>6. QED
      BY <3>2, <3>3, <3>4, <3>5 DEF WorkHolds
  <2>7. /\ \A q \in Request : q # r => tx[q].inserted \cap tx'[r].inserted = {}
        /\ tx' \in [Request -> Tx]
    BY <1>4, <1>6, <1>9
  <2>8. QED
    BY <1>1, <1>2, <1>9, <2>1, <2>2, <2>3, <2>6, <2>7, QuietHolds DEF Types
<1>10. QED
  BY <1>7, <1>8, <1>9 DEF Insert, logged

LEMMA ProjectHolds ==
  ASSUME SyncInv, NEW r \in Request, Project(r)
  PROVE  SyncInv'
<1> DEFINE e == cur[r].id
<1>1. /\ UNCHANGED <<outbox, pc, copies, sent, answer, client, session, roster, record, conflicted,
                     recorded, revoked, spent, scanned, lost, torn, unfiled>>
      /\ stage[r] = "logged" /\ NextEvent(r)
      /\ StatementFails(r) \/ (EndEvent(r, cur[r], "ACCEPTED")
                                /\ tx' = [tx EXCEPT ![r].marked = @ \cup {e}])
  BY DEF Project, flushVars, serverVars
<1>2. Types /\ LoopHolds(r) /\ WorkHolds(r) /\ Apart
  BY DEF SyncInv, RequestsHold
<1>3. /\ cur[r] \in todo[r] /\ cur[r] \in Copy /\ e \in Event /\ "ACCEPTED" \in Result
      /\ e \in tx[r].inserted
  BY <1>1, <1>2 DEF LoopHolds, WorkHolds, Busy, Types, Copy, Result
<1>4. CASE StatementFails(r)
  BY <1>1, <1>2, <1>4, FailHolds DEF Types
<1>5. CASE EndEvent(r, cur[r], "ACCEPTED") /\ tx' = [tx EXCEPT ![r].marked = @ \cup {e}]
  <2>1. /\ tx' \in [Request -> Tx] /\ \A q \in Request : q # r => tx'[q] = tx[q]
        /\ tx'[r].inserted = tx[r].inserted /\ tx'[r].marked = tx[r].marked \cup {e}
        /\ tx'[r].flagged = tx[r].flagged
    <3>1. tx \in [Request -> Tx] /\ tx[r] \in Tx
      BY <1>2 DEF Types
    <3>2. QED
      BY <1>3, <1>5, <3>1 DEF Tx
  <2>2. /\ stage' \in [Request -> {"free", "running", "checked", "read", "logged", "responded"}]
        /\ cur' \in [Request -> Copy \cup {NoCopy}] /\ saw' \in [Request -> Mark]
        /\ stage'[r] = "running" /\ cur'[r] = NoCopy /\ saw'[r] = "UNMARKED"
        /\ \A q \in Request : q # r => stage'[q] = stage[q] /\ cur'[q] = cur[q] /\ saw'[q] = saw[q]
    BY <1>1, <1>2, NextFacts
  <2>3. /\ result' \in [Request -> Results] /\ todo' \in [Request -> SUBSET Copy]
        /\ \A q \in Request : q # r => todo'[q] = todo[q] /\ result'[q] = result[q]
    BY <1>1, <1>2, <1>3, <1>5, EndFacts
  <2>4. Alone(r)
    BY <2>1, <2>2, <2>3 DEF Alone
  <2>5. LoopHolds(r)'
    BY <1>1, <1>2, <1>3, <1>5, <2>2, EndedLoop
  <2>6. WorkHolds(r)'
    <3>1. /\ tx[r].marked \subseteq tx[r].inserted /\ tx[r].inserted \cap recorded = {}
          /\ tx[r].inserted \subseteq Event
      BY <1>2, TxTypes DEF WorkHolds
    <3>2. QED
      BY <1>1, <1>2, <1>3, <1>5, <2>1, <2>2, <3>1, EndedWork
  <2>7. \A q \in Request : q # r => tx[q].inserted \cap tx'[r].inserted = {}
    BY <1>2, <2>1, ApartFacts
  <2>8. QED
    BY <1>1, <1>2, <1>5, <2>1, <2>2, <2>3, <2>4, <2>5, <2>6, <2>7, QuietHolds DEF Types
<1>6. QED
  BY <1>1, <1>4, <1>5

LEMMA WaitFailsHolds ==
  ASSUME SyncInv, NEW r \in Request, WaitFails(r)
  PROVE  SyncInv'
<1>1. /\ UNCHANGED <<outbox, pc, copies, sent, answer, client, session, roster, record, conflicted,
                     recorded, revoked, scanned, lost, torn, unfiled>>
      /\ stage[r] \in {"read", "logged", "running"}
      /\ UNCHANGED spent \/ Spend("faults")
  <2>1. PICK q \in WaitsFor(r) : IF r \in WaitsFor(q) THEN UNCHANGED spent ELSE Fault
    BY DEF WaitFails
  <2>2. UNCHANGED spent \/ Spend("faults")
    BY <2>1 DEF Fault
  <2>3. stage[r] \in {"read", "logged", "running"}
    BY <2>1 DEF WaitsFor
  <2>4. QED
    BY <2>2, <2>3 DEF WaitFails, flushVars, serverVars
<1>2. Types /\ LoopHolds(r) /\ WorkHolds(r) /\ Apart
  BY DEF SyncInv, RequestsHold
<1>3. spent' \in [{"faults", "edits", "admin", "logouts"} -> Nat]
  BY <1>1, <1>2, SpendFacts DEF Types
<1>4. CASE stage[r] # "running"
  BY <1>1, <1>3, <1>4, FailHolds DEF WaitFails
<1>5. CASE stage[r] = "running"
  <2>1. tx' = [tx EXCEPT ![r].dead = TRUE] /\ UNCHANGED <<stage, cur, saw, result, todo>>
    BY <1>5 DEF WaitFails
  <2>2. /\ tx' \in [Request -> Tx] /\ \A q \in Request : q # r => tx'[q] = tx[q]
        /\ tx'[r].inserted = tx[r].inserted /\ tx'[r].marked = tx[r].marked
        /\ tx'[r].flagged = tx[r].flagged
    <3>1. tx \in [Request -> Tx] /\ tx[r] \in Tx
      BY <1>2 DEF Types
    <3>2. QED
      BY <2>1, <3>1 DEF Tx
  <2>3. Alone(r)
    BY <2>1, <2>2 DEF Alone
  <2>4. LoopHolds(r)'
    BY <1>1, <1>2, <1>5, <2>1 DEF LoopHolds, Busy
  <2>5. WorkHolds(r)'
    BY <1>1, <1>2, <1>5, <2>1, <2>2 DEF WorkHolds, Logging
  <2>6. \A q \in Request : q # r => tx[q].inserted \cap tx'[r].inserted = {}
    BY <1>2, <2>2, ApartFacts
  <2>7. QED
    BY <1>1, <1>2, <1>3, <1>5, <2>1, <2>2, <2>3, <2>4, <2>5, <2>6, QuietHolds DEF Types
<1>6. QED
  BY <1>4, <1>5

-------------------------------------------------------------------------------
(* The response and the end of a request *)

LEMMA RespondHolds ==
  ASSUME SyncInv, NEW r \in Request, Respond(r)
  PROVE  SyncInv'
<1>1. /\ UNCHANGED <<outbox, pc, copies, sent, todo, cur, saw, result, tx, session, roster, record,
                     conflicted, recorded, revoked, spent, scanned, lost, torn, unfiled>>
      /\ stage[r] = "running" /\ stage' = [stage EXCEPT ![r] = "responded"]
      /\ client' = [client EXCEPT ![r] = Nobody]
      /\ answer' = IF client[r] = Nobody THEN answer
                   ELSE [answer EXCEPT ![client[r]] = IF tx[r].dead THEN AllFailed ELSE result[r]]
  BY DEF Respond, serverVars
<1>2. Types /\ Apart /\ AnswersHold /\ OutboxHolds /\ CopiesSingle
      /\ LogIsProjected /\ UnfiledHolds /\ \A q \in Request : LoopHolds(q) /\ WorkHolds(q)
  BY DEF SyncInv, RequestsHold
<1>3. /\ stage' \in [Request -> {"free", "running", "checked", "read", "logged", "responded"}]
      /\ client' \in [Request -> Flush \cup {Nobody}]
      /\ stage'[r] = "responded" /\ \A q \in Request : q # r => stage'[q] = stage[q]
  BY <1>1, <1>2 DEF Types
<1>4. /\ answer' \in [Flush -> Results]
      /\ \A f \in Flush : answer'[f] = answer[f] \/ answer'[f] = AllFailed
                          \/ (~tx[r].dead /\ answer'[f] = result[r])
  <2>1. answer \in [Flush -> Results] /\ client[r] \in Flush \cup {Nobody} /\ result[r] \in Results
    BY <1>2 DEF Types
  <2>2. QED
    BY <1>1, <2>1, AllFailedFacts
<1>5. Types'
  BY <1>1, <1>2, <1>3, <1>4 DEF Types
<1>6. /\ \A q \in Request : Ending(q) => Ending(q)'
      /\ ~tx[r].dead => Ending(r)'
  BY <1>1, <1>3 DEF Ending
<1>7. \A e \in Event : (Acked(e) => Acked(e)') /\ (Flagged(e) => Flagged(e)')
  BY <1>1, <1>6 DEF Acked, Flagged
<1>8. ~tx[r].dead => \A e \in Event :
        /\ result[r][e] \in {"ACCEPTED", "ALREADY_PROCESSED"} => Acked(e)'
        /\ result[r][e] = "LOCKED" => Flagged(e)'
  BY <1>1, <1>2, <1>6 DEF WorkHolds, Acked, Flagged
<1>9. AnswersHold'
  <2>1. ASSUME NEW f \in Flush, NEW e \in Event
        PROVE  /\ answer'[f][e] \in {"ACCEPTED", "ALREADY_PROCESSED"} => Acked(e)'
               /\ answer'[f][e] = "LOCKED" => Flagged(e)'
    <3>1. CASE answer'[f] = answer[f]
      BY <1>2, <1>7, <3>1 DEF AnswersHold
    <3>2. CASE answer'[f] = AllFailed
      BY <3>2, AllFailedFacts
    <3>3. CASE ~tx[r].dead /\ answer'[f] = result[r]
      BY <1>8, <3>3
    <3>4. QED
      BY <1>4, <3>1, <3>2, <3>3
  <2>2. QED
    BY <2>1 DEF AnswersHold
<1>10. OutboxHolds'
  BY <1>1, <1>2, <1>7 DEF OutboxHolds
<1>11. RequestsHold'
  <2>1. ASSUME NEW q \in Request PROVE LoopHolds(q)'
    BY <1>1, <1>2, <1>3 DEF LoopHolds, Busy
  <2>2. ASSUME NEW q \in Request PROVE WorkHolds(q)'
    BY <1>1, <1>2, <1>3 DEF WorkHolds, Logging
  <2>3. QED
    BY <2>1, <2>2 DEF RequestsHold
<1>12. CopiesSingle' /\ Apart' /\ LogIsProjected' /\ UnfiledHolds'
  BY <1>1, <1>2 DEF CopiesSingle, Apart, LogIsProjected, UnfiledHolds
<1>13. QED
  BY <1>5, <1>9, <1>10, <1>11, <1>12 DEF SyncInv

\* A request that ends holds nothing, and leaves the others as they are.
LEMMA EndRequestFacts ==
  ASSUME Types, NEW r \in Request, EndRequest(r)
  PROVE  /\ stage' \in [Request -> {"free", "running", "checked", "read", "logged", "responded"}]
         /\ todo' \in [Request -> SUBSET Copy] /\ cur' \in [Request -> Copy \cup {NoCopy}]
         /\ saw' \in [Request -> Mark] /\ result' \in [Request -> Results]
         /\ tx' \in [Request -> Tx] /\ client' \in [Request -> Flush \cup {Nobody}]
         /\ stage'[r] = "free" /\ todo'[r] = {} /\ cur'[r] = NoCopy /\ saw'[r] = "UNMARKED"
         /\ result'[r] = NoResult /\ tx'[r] = NoTx
         /\ Alone(r)
<1>1. NoTx \in Tx /\ NoResult \in Results /\ "UNMARKED" \in Mark
  BY AllFailedFacts DEF NoTx, Tx, Mark
<1>2. /\ stage' \in [Request -> {"free", "running", "checked", "read", "logged", "responded"}]
      /\ stage'[r] = "free" /\ \A q \in Request : q # r => stage'[q] = stage[q]
      /\ client' \in [Request -> Flush \cup {Nobody}]
  BY DEF Types, EndRequest
<1>3. /\ todo' \in [Request -> SUBSET Copy] /\ cur' \in [Request -> Copy \cup {NoCopy}]
      /\ todo'[r] = {} /\ cur'[r] = NoCopy
      /\ \A q \in Request : q # r => todo'[q] = todo[q] /\ cur'[q] = cur[q]
  BY DEF Types, EndRequest
<1>4. /\ saw' \in [Request -> Mark] /\ result' \in [Request -> Results] /\ tx' \in [Request -> Tx]
      /\ saw'[r] = "UNMARKED" /\ result'[r] = NoResult /\ tx'[r] = NoTx
      /\ \A q \in Request : q # r => saw'[q] = saw[q] /\ result'[q] = result[q] /\ tx'[q] = tx[q]
  BY <1>1 DEF Types, EndRequest
<1>5. QED
  BY <1>2, <1>3, <1>4 DEF Alone

\* What a request leaves behind when it ends must carry what it acknowledged.
LEMMA EndHolds ==
  ASSUME SyncInv, NEW r \in Request, EndRequest(r), Types', AnswersKeep,
         UNCHANGED <<outbox, copies, unfiled>>, LogIsProjected', UnfiledHolds',
         recorded \subseteq recorded',
         \A e \in Event : record[e] \notin {"NONE", "UNMARKED"}
                             => record'[e] \notin {"NONE", "UNMARKED"},
         \A q \in Request : q # r => tx[q].inserted \cap recorded' = {},
         \A e \in Event : (Acked(e) => Acked(e)') /\ (Flagged(e) => Flagged(e)')
  PROVE  SyncInv'
<1>1. /\ Types /\ Apart /\ AnswersHold /\ OutboxHolds /\ CopiesSingle
      /\ \A q \in Request : LoopHolds(q) /\ WorkHolds(q)
  BY DEF SyncInv, RequestsHold
<1>2. /\ stage'[r] = "free" /\ todo'[r] = {} /\ cur'[r] = NoCopy /\ saw'[r] = "UNMARKED"
      /\ result'[r] = NoResult /\ tx'[r] = NoTx /\ Alone(r)
  BY <1>1, EndRequestFacts
<1>3. LoopHolds(r)' /\ WorkHolds(r)'
  <2>1. LoopHolds(r)'
    BY <1>2 DEF LoopHolds, Busy, Single
  <2>2. tx'[r].inserted = {} /\ tx'[r].marked = {} /\ \A e \in Event : result'[r][e] = "none"
    BY <1>2, AllFailedFacts DEF NoTx
  <2>3. WorkHolds(r)'
    BY <1>2, <2>2 DEF WorkHolds
  <2>4. QED
    BY <2>1, <2>3
<1>4. ASSUME NEW q \in Request, q # r PROVE LoopHolds(q)' /\ WorkHolds(q)'
  <2>1. /\ stage'[q] = stage[q] /\ todo'[q] = todo[q] /\ cur'[q] = cur[q] /\ saw'[q] = saw[q]
        /\ result'[q] = result[q] /\ tx'[q] = tx[q] /\ tx[q].inserted \subseteq Event
    BY <1>1, <1>2, <1>4, TxTypes DEF Alone
  <2>2. saw[q] = "PRESENT" => cur[q] \in todo[q] /\ cur[q].id \in Event
    BY <1>1 DEF LoopHolds, Busy, Types, Copy
  <2>3. LoopHolds(q)'
    BY <1>1, <2>1, <2>2 DEF LoopHolds, Busy
  <2>4. WorkHolds(q)'
    <3>1. WorkHolds(q) /\ tx[q].inserted \cap recorded' = {}
      BY <1>1, <1>4
    <3>2. \A e \in Event : Logging(q, e)' <=> Logging(q, e)
      BY <2>1 DEF Logging
    <3>3. \A e \in tx'[q].inserted \ tx'[q].marked :
            record'[e] \notin {"NONE", "UNMARKED"} \/ Logging(q, e)'
      BY <2>1, <3>1, <3>2 DEF WorkHolds
    <3>4. \A e \in tx'[q].inserted : result'[q][e] = "ACCEPTED" \/ Logging(q, e)'
      BY <2>1, <3>1, <3>2 DEF WorkHolds
    <3>5. \A e \in Event : /\ result'[q][e] \in {"ACCEPTED", "ALREADY_PROCESSED"}
                                => e \in recorded' \cup tx'[q].inserted
                           /\ result'[q][e] = "LOCKED" => e \in tx'[q].flagged \cup unfiled'
      BY <2>1, <3>1 DEF WorkHolds
    <3>6. QED
      BY <2>1, <3>1, <3>3, <3>4, <3>5 DEF WorkHolds
  <2>5. QED
    BY <2>3, <2>4
<1>5. RequestsHold'
  BY <1>3, <1>4 DEF RequestsHold
<1>6. Apart'
  <2>1. tx'[r].inserted = {} /\ \A q \in Request : q # r => tx'[q] = tx[q]
    BY <1>2 DEF Alone, NoTx
  <2>2. QED
    BY <1>1, <2>1 DEF Apart
<1>7. AnswersHold'
  BY <1>1 DEF AnswersHold, AnswersKeep
<1>8. OutboxHolds' /\ CopiesSingle'
  BY <1>1 DEF OutboxHolds, CopiesSingle
<1>9. QED
  BY <1>5, <1>6, <1>7, <1>8 DEF SyncInv

LEMMA CommitHolds ==
  ASSUME SyncInv, NEW r \in Request, Commit(r)
  PROVE  SyncInv'
<1> DEFINE t == IF tx[r].dead THEN NoTx ELSE tx[r]
<1>1. /\ UNCHANGED <<outbox, pc, copies, sent, answer, session, roster, revoked, spent, scanned, lost,
                     unfiled>>
      /\ EndRequest(r) /\ recorded' = recorded \cup t.inserted
      /\ record' = [e \in Event |-> IF e \in t.marked THEN "PRESENT" ELSE record[e]]
      /\ conflicted' = conflicted \cup t.flagged
      /\ torn' = IF stage[r] = "logged" THEN torn \cup {cur[r].id} ELSE torn
  BY DEF Commit, Apply, flushVars
<1>2. /\ Types /\ Apart /\ LogIsProjected /\ UnfiledHolds /\ LoopHolds(r)
      /\ \A q \in Request : WorkHolds(q)
  BY DEF SyncInv, RequestsHold
<1>3. /\ t.inserted \subseteq tx[r].inserted /\ t.inserted \subseteq Event
      /\ t.flagged \subseteq Event /\ tx[r].inserted \subseteq Event
      /\ ~tx[r].dead => t = tx[r]
      /\ \A e \in t.inserted \ t.marked : record[e] \notin {"NONE", "UNMARKED"} \/ Logging(r, e)
  <2>1. CASE tx[r].dead
    BY <1>2, <2>1, TxTypes DEF NoTx
  <2>2. CASE ~tx[r].dead
    BY <1>2, <2>2, TxTypes DEF WorkHolds
  <2>3. QED
    BY <2>1, <2>2
<1> HIDE DEF t
<1>4. /\ stage' \in [Request -> {"free", "running", "checked", "read", "logged", "responded"}]
      /\ todo' \in [Request -> SUBSET Copy] /\ cur' \in [Request -> Copy \cup {NoCopy}]
      /\ saw' \in [Request -> Mark] /\ result' \in [Request -> Results]
      /\ tx' \in [Request -> Tx] /\ client' \in [Request -> Flush \cup {Nobody}]
      /\ stage'[r] = "free" /\ Alone(r)
  BY <1>1, <1>2, EndRequestFacts
<1>5. /\ record' \in [Event -> Mark]
      /\ \A e \in Event : record[e] \notin {"NONE", "UNMARKED"} \/ e \in t.marked
                           => record'[e] \notin {"NONE", "UNMARKED"}
  BY <1>1, <1>2 DEF Types, Mark
<1>6. stage[r] = "logged" => cur[r].id \in Event
  BY <1>2 DEF LoopHolds, Busy, Types, Copy
<1>7. UNION {roster', conflicted', recorded', revoked', scanned', lost', torn', unfiled'}
         \subseteq Event
  BY <1>1, <1>2, <1>3, <1>6 DEF Types
<1>8. Types'
  BY <1>1, <1>2, <1>4, <1>5, <1>7 DEF Types
<1>9. LogIsProjected'
  <2>1. ASSUME NEW e \in recorded' \ torn' PROVE record'[e] \notin {"NONE", "UNMARKED"}
    <3>1. e \in Event /\ e \notin torn
      BY <1>1, <1>7
    <3>2. CASE e \in recorded
      BY <1>2, <1>5, <3>1, <3>2 DEF LogIsProjected
    <3>3. CASE e \in t.inserted
      <4>1. ~Logging(r, e)
        BY <1>1 DEF Logging
      <4>2. QED
        BY <1>3, <1>5, <3>1, <3>3, <4>1
    <3>4. QED
      BY <1>1, <3>2, <3>3
  <2>2. QED
    BY <2>1 DEF LogIsProjected
<1>10. \A q \in Request : q # r => tx[q].inserted \cap recorded' = {}
  BY <1>1, <1>2, <1>3 DEF WorkHolds, Apart
<1>11. \A q \in Request : q # r => /\ Ending(q) => Ending(q)'
                                   /\ tx'[q] = tx[q]
  BY <1>4 DEF Ending, Alone
<1>12. ASSUME NEW e \in Event PROVE (Acked(e) => Acked(e)') /\ (Flagged(e) => Flagged(e)')
  <2>1. Ending(r) /\ e \in tx[r].inserted => e \in recorded'
    BY <1>1, <1>3 DEF Ending
  <2>2. Ending(r) /\ e \in tx[r].flagged => e \in conflicted'
    BY <1>1, <1>3 DEF Ending
  <2>3. Acked(e) => Acked(e)'
    BY <1>1, <1>11, <2>1 DEF Acked
  <2>4. Flagged(e) => Flagged(e)'
    BY <1>1, <1>11, <2>2 DEF Flagged
  <2>5. QED
    BY <2>3, <2>4
<1>13. AnswersKeep /\ recorded \subseteq recorded'
  BY <1>1 DEF AnswersKeep
<1>14. UnfiledHolds' /\ \A e \in Event : record[e] \notin {"NONE", "UNMARKED"}
                                        => record'[e] \notin {"NONE", "UNMARKED"}
  BY <1>1, <1>2, <1>5 DEF UnfiledHolds
<1>15. QED
  BY <1>1, <1>8, <1>9, <1>10, <1>12, <1>13, <1>14, EndHolds

LEMMA TransactionDiesHolds ==
  ASSUME SyncInv, NEW r \in Request, TransactionDies(r)
  PROVE  SyncInv'
<1>1. /\ UNCHANGED <<outbox, pc, copies, sent, session, roster, record, conflicted, recorded,
                     revoked,
                     scanned, torn, unfiled>>
      /\ EndRequest(r) /\ Spend("faults")
      /\ lost' = IF stage[r] = "responded" /\ ~tx[r].dead
                   THEN lost \cup tx[r].inserted \cup tx[r].flagged ELSE lost
      /\ answer' = IF client[r] = Nobody THEN answer
                   ELSE [answer EXCEPT ![client[r]] = AllFailed]
  BY DEF TransactionDies, serverVars, Fault
<1>2. /\ Types /\ LogIsProjected /\ UnfiledHolds /\ \A q \in Request : WorkHolds(q)
  BY DEF SyncInv, RequestsHold
<1>3. /\ stage' \in [Request -> {"free", "running", "checked", "read", "logged", "responded"}]
      /\ todo' \in [Request -> SUBSET Copy] /\ cur' \in [Request -> Copy \cup {NoCopy}]
      /\ saw' \in [Request -> Mark] /\ result' \in [Request -> Results]
      /\ tx' \in [Request -> Tx] /\ client' \in [Request -> Flush \cup {Nobody}]
      /\ stage'[r] = "free" /\ Alone(r)
  BY <1>1, <1>2, EndRequestFacts
<1>4. /\ spent' \in [{"faults", "edits", "admin", "logouts"} -> Nat]
      /\ UNION {roster', conflicted', recorded', revoked', scanned', lost', torn', unfiled'}
         \subseteq Event
  BY <1>1, <1>2, SpendFacts, TxTypes DEF Types
<1>5. answer' \in [Flush -> Results] /\ AnswersKeep
  <2>1. answer \in [Flush -> Results] /\ client[r] \in Flush \cup {Nobody}
    BY <1>2 DEF Types
  <2>2. QED
    BY <1>1, <2>1, AllFailedFacts DEF AnswersKeep
<1>6. Types'
  BY <1>1, <1>2, <1>3, <1>4, <1>5 DEF Types
<1>7. \A q \in Request : q # r => /\ Ending(q) => Ending(q)'
                                  /\ tx'[q] = tx[q]
  BY <1>3 DEF Ending, Alone
<1>8. ASSUME NEW e \in Event PROVE (Acked(e) => Acked(e)') /\ (Flagged(e) => Flagged(e)')
  <2>1. /\ Ending(r) /\ e \in tx[r].inserted \cup tx[r].flagged => e \in lost'
        /\ lost \subseteq lost'
    BY <1>1 DEF Ending
  <2>2. Acked(e) => Acked(e)'
    BY <1>1, <1>7, <2>1 DEF Acked
  <2>3. Flagged(e) => Flagged(e)'
    BY <1>1, <1>7, <2>1 DEF Flagged
  <2>4. QED
    BY <2>2, <2>3
<1>9. /\ LogIsProjected' /\ UnfiledHolds'
      /\ \A q \in Request : q # r => tx[q].inserted \cap recorded' = {}
  BY <1>1, <1>2 DEF LogIsProjected, UnfiledHolds, WorkHolds
<1>10. QED
  BY <1>1, <1>5, <1>6, <1>8, <1>9, EndHolds

-------------------------------------------------------------------------------
(* The others *)

\* An edit leaves a record marked.
LEMMA EditFacts ==
  ASSUME Types, NEW e \in Event, NEW to \in {"PRESENT", "OVERRIDE"}, Edit(e, to)
  PROVE  /\ record' \in [Event -> Mark]
         /\ \A x \in Event : record[x] \notin {"NONE", "UNMARKED"}
                              => record'[x] \notin {"NONE", "UNMARKED"}
         /\ \A x \in Event : record'[x] = "NONE" => record[x] = "NONE"
         /\ UNCHANGED <<session, unfiled>>
  BY DEF Types, Edit, Mark

LEMMA OfficeHolds ==
  ASSUME SyncInv, OfficeStep
  PROVE  SyncInv'
<1>1. /\ UNCHANGED <<outbox, pc, copies, sent, answer, client, stage, todo, cur, saw, result, tx,
                     roster, conflicted, recorded, scanned, lost, torn>>
      /\ \/ UNCHANGED record
         \/ \E e \in Event, to \in {"PRESENT", "OVERRIDE"} : Edit(e, to)
  BY DEF OfficeStep, Edit, SetSession, Revoke, flushVars, requestVars
<1>2. /\ Types /\ Apart /\ AnswersHold /\ OutboxHolds /\ CopiesSingle
      /\ LogIsProjected /\ UnfiledHolds /\ \A q \in Request : LoopHolds(q) /\ WorkHolds(q)
  BY DEF SyncInv, RequestsHold
<1>3. /\ record' \in [Event -> Mark]
      /\ \A x \in Event : record[x] \notin {"NONE", "UNMARKED"}
                           => record'[x] \notin {"NONE", "UNMARKED"}
      /\ \A x \in Event : record'[x] = "NONE" => record[x] = "NONE"
  BY <1>1, <1>2, EditFacts DEF Types
<1>4. spent' \in [{"faults", "edits", "admin", "logouts"} -> Nat]
  BY <1>2, SpendFacts DEF OfficeStep, Edit, SetSession, Revoke
<1>5. session' \in {"OPEN", "FINALIZED", "REOPENED"} /\ revoked' \subseteq Event
      /\ unfiled \subseteq unfiled' /\ unfiled' \subseteq Event
  BY <1>2 DEF OfficeStep, Edit, SetSession, Revoke, Types
<1>6. Types'
  BY <1>1, <1>2, <1>3, <1>4, <1>5 DEF Types
<1>7. RequestsHold'
  <2>1. ASSUME NEW q \in Request PROVE LoopHolds(q)'
    <3>1. saw[q] = "PRESENT" => cur[q].id \in Event
      BY <1>2 DEF LoopHolds, Busy, Types, Copy
    <3>2. QED
      BY <1>1, <1>2, <1>3, <3>1 DEF LoopHolds, Busy
  <2>2. ASSUME NEW q \in Request PROVE WorkHolds(q)'
    <3>1. tx[q].inserted \subseteq Event
      BY <1>2, TxTypes
    <3>2. QED
      BY <1>1, <1>2, <1>3, <1>5, <3>1 DEF WorkHolds, Logging
  <2>3. QED
    BY <2>1, <2>2 DEF RequestsHold
<1>8. AnswersHold' /\ OutboxHolds'
  <2>1. \A e \in Event : (Acked(e)' <=> Acked(e)) /\ (Flagged(e) => Flagged(e)')
    BY <1>1, <1>5 DEF Acked, Flagged, Ending
  <2>2. QED
    BY <1>1, <1>2, <2>1 DEF AnswersHold, OutboxHolds
<1>9. CopiesSingle' /\ Apart'
  BY <1>1, <1>2 DEF CopiesSingle, Apart
<1>10. LogIsProjected'
  BY <1>1, <1>2, <1>3 DEF LogIsProjected, Types
<1>11. UnfiledHolds'
  <2>1. CASE UNCHANGED <<session, unfiled>>
    BY <1>2, <1>3, <2>1 DEF UnfiledHolds
  <2>2. ASSUME NEW status \in {"FINALIZED", "REOPENED"}, SetSession(status)
        PROVE  UnfiledHolds'
    BY <1>2, <2>2 DEF SetSession, UnfiledHolds, Types
  <2>3. QED
    BY <2>1, <2>2 DEF OfficeStep, Edit, Revoke
<1>12. QED
  BY <1>6, <1>7, <1>8, <1>9, <1>10, <1>11 DEF SyncInv

-------------------------------------------------------------------------------
(* The theorems *)

LEMMA InitHolds == Init => SyncInv
<1> SUFFICES ASSUME Init PROVE SyncInv
  OBVIOUS
<1>1. /\ NoRow \in Row /\ NoResult \in Results /\ NoTx \in Tx /\ {"NONE", "UNMARKED"} \subseteq Mark
      /\ NoTx.inserted = {} /\ NoTx.marked = {} /\ \A e \in Event : NoResult[e] = "none"
  BY AllFailedFacts DEF NoRow, Row, NoTx, Tx, Mark
<1>2. spent \in [{"faults", "edits", "admin", "logouts"} -> Nat]
  BY DEF Init
<1>3. Types
  <2>1. /\ outbox \in [Event -> Row] /\ pc \in [Flush -> {"idle", "requeued", "pending",
                                                          "sending", "waiting"}]
        /\ copies \in [Flush -> SUBSET Copy] /\ sent \in [Flush -> SUBSET Copy]
        /\ answer \in [Flush -> Results]
    BY <1>1 DEF Init
  <2>2. /\ client \in [Request -> Flush \cup {Nobody}]
        /\ stage \in [Request -> {"free", "running", "checked", "read", "logged", "responded"}]
        /\ todo \in [Request -> SUBSET Copy] /\ cur \in [Request -> Copy \cup {NoCopy}]
        /\ saw \in [Request -> Mark] /\ result \in [Request -> Results]
        /\ tx \in [Request -> Tx]
    BY <1>1 DEF Init
  <2>3. /\ session \in {"OPEN", "FINALIZED", "REOPENED"} /\ record \in [Event -> Mark]
        /\ UNION {roster, conflicted, recorded, revoked, scanned, lost, torn, unfiled} \subseteq Event
    BY <1>1 DEF Init
  <2>4. QED
    BY <1>2, <2>1, <2>2, <2>3 DEF Types
<1>4. RequestsHold
  <2>1. ASSUME NEW r \in Request PROVE LoopHolds(r)
    BY DEF Init, LoopHolds, Busy, Single
  <2>2. ASSUME NEW r \in Request PROVE WorkHolds(r)
    <3>1. tx[r] = NoTx /\ result[r] = NoResult /\ stage[r] = "free"
      BY DEF Init
    <3>2. QED
      BY <1>1, <3>1 DEF WorkHolds
  <2>3. QED
    BY <2>1, <2>2 DEF RequestsHold
<1>5. CopiesSingle /\ Apart
  BY <1>1 DEF Init, CopiesSingle, Single, Apart
<1>6. AnswersHold /\ OutboxHolds
  <2>1. \A e \in Event : outbox[e].status = "NONE"
    BY DEF Init, NoRow
  <2>2. \A f \in Flush, e \in Event : answer[f][e] = "none"
    BY <1>1 DEF Init
  <2>3. QED
    BY <2>1, <2>2 DEF AnswersHold, OutboxHolds
<1>7. LogIsProjected /\ UnfiledHolds
  BY DEF Init, LogIsProjected, UnfiledHolds
<1>8. QED
  BY <1>3, <1>4, <1>5, <1>6, <1>7 DEF SyncInv

LEMMA NextHolds == SyncInv /\ [Next]_vars => SyncInv'
<1> SUFFICES ASSUME SyncInv, [Next]_vars PROVE SyncInv'
  OBVIOUS
<1>1. ASSUME NEW e \in Event, Scan(e) PROVE SyncInv'
  BY <1>1, ScanHolds
<1>2. ASSUME NEW f \in Flush, Requeue(f) \/ FlushStep(f) \/ LoseConnection(f) \/ CloseTab(f)
      PROVE  SyncInv'
  BY <1>2, RequeueHolds, ReadHolds, AnsweredHolds, SendHolds, LoseConnectionHolds, CloseTabHolds
  DEF FlushStep
<1>3. ASSUME NEW r \in Request, RequestStep(r) PROVE SyncInv'
  BY <1>3, RefuseHolds, AdmitHolds, ReadRecordHolds, InsertHolds, ProjectHolds, WaitFailsHolds,
     RespondHolds, CommitHolds DEF RequestStep
<1>4. ASSUME NEW r \in Request, TransactionDies(r) PROVE SyncInv'
  BY <1>4, TransactionDiesHolds
<1>5. CASE UNCHANGED vars
  <2>1. /\ UNCHANGED <<outbox, pc, copies, sent, answer, client, stage, todo, cur, saw, result, tx,
                       session, roster, record, conflicted, recorded, revoked, spent, scanned, lost,
                       torn, unfiled>>
    BY <1>5 DEF vars, flushVars, requestVars, serverVars
  <2>2. Types' /\ CopiesSingle' /\ OutboxKeeps /\ AnswersKeep
    BY <2>1 DEF SyncInv, Types, CopiesSingle, OutboxKeeps, OutboxHolds, AnswersKeep
  <2>3. QED
    BY <2>1, <2>2, BrowserHolds
<1>6. QED
  BY <1>1, <1>2, <1>3, <1>4, <1>5, LogoutHolds, OfficeHolds DEF Next

LEMMA SyncCorrect == Spec => []SyncInv
  BY InitHolds, NextHolds, PTL DEF Spec

\* The state stays within its types, and a request that works on an event has it
\* on its list, whatever fails under it.
THEOREM TypeCorrect == Spec => []TypeOK
<1>1. SyncInv => TypeOK
  <2> SUFFICES ASSUME SyncInv PROVE TypeOK
    OBVIOUS
  <2>1. Types /\ \A r \in Request : LoopHolds(r)
    BY DEF SyncInv, RequestsHold
  <2>2. \A r \in Request : Busy(r) <=> cur[r] \in todo[r]
    BY <2>1, NoCopyFacts DEF LoopHolds, Types
  <2>3. QED
    BY <2>1, <2>2 DEF TypeOK, Types, Busy
<1>2. QED
  BY <1>1, SyncCorrect, PTL

\* A row is SYNCED only when the server has the event, for any number of flushes
\* and requests and however often a batch is sent, lost or aborted.
THEOREM SyncedIsRecordedCorrect == Spec => []SyncedIsRecorded
<1>1. SyncInv => SyncedIsRecorded
  BY DEF SyncInv, OutboxHolds, SyncedIsRecorded, Acked, Ending
<1>2. QED
  BY <1>1, SyncCorrect, PTL

\* What the teacher's device shows as a conflict is flagged on the register.
THEOREM ConflictIsFlaggedCorrect == Spec => []ConflictIsFlagged
<1>1. SyncInv => ConflictIsFlagged
  BY DEF SyncInv, OutboxHolds, ConflictIsFlagged, Flagged, Ending
<1>2. QED
  BY <1>1, SyncCorrect, PTL

\* A recorded scan left its student marked, except where a cut connection
\* committed between the log and the projection.
THEOREM LogIsProjectedCorrect == Spec => []LogIsProjected
<1>1. SyncInv => LogIsProjected
  BY DEF SyncInv
<1>2. QED
  BY <1>1, SyncCorrect, PTL

\* A retry of a known scan changes no record.
THEOREM ResendIsHarmlessCorrect == Spec => ResendIsHarmless
<1>1. SyncInv /\ [Next]_vars
        => [requestVars' # requestVars => \A e \in recorded : record'[e] = record[e]]_vars
  <2> SUFFICES ASSUME SyncInv, Next, requestVars' # requestVars, NEW e \in recorded
               PROVE  record'[e] = record[e]
    OBVIOUS
  <2>1. e \in Event /\ \A r \in Request : WorkHolds(r)
    BY DEF SyncInv, RequestsHold, Types
  <2>2. ASSUME NEW r \in Request, Commit(r) PROVE record'[e] = record[e]
    <3> DEFINE t == IF tx[r].dead THEN NoTx ELSE tx[r]
    <3>1. record' = [x \in Event |-> IF x \in t.marked THEN "PRESENT" ELSE record[x]]
      BY <2>2 DEF Commit, Apply
    <3>2. e \notin t.marked
      BY <2>1 DEF WorkHolds, NoTx
    <3>3. QED
      BY <2>1, <3>1, <3>2
  <2>3. ASSUME NEW r \in Request, RequestStep(r), ~Commit(r) PROVE record' = record
    BY <2>3 DEF RequestStep, Refuse, Admit, ReadRecord, Insert, Project, WaitFails, Respond,
                serverVars
  <2>4. ASSUME NEW f \in Flush, Requeue(f) \/ FlushStep(f) \/ LoseConnection(f) \/ CloseTab(f)
        PROVE  record' = record
    BY <2>4 DEF Requeue, FlushStep, ReadPending, ReadFailed, Answered, Send, LoseConnection,
                CloseTab, serverVars
  <2>5. (\E x \in Event : Scan(x)) \/ Logout \/ (\E r \in Request : TransactionDies(r))
          => record' = record
    BY DEF Scan, Logout, TransactionDies, serverVars
  <2>6. ~OfficeStep
    BY DEF OfficeStep, Edit, SetSession, Revoke
  <2>7. QED
    BY <2>2, <2>3, <2>4, <2>5, <2>6 DEF Next
<1>2. QED
  BY <1>1, SyncCorrect, PTL DEF Spec, ResendIsHarmless
=============================================================================
