------------------------------ MODULE AbsenceSms ------------------------------
(***************************************************************************)
(* The absence SMS of one attendance session: finalization queues a        *)
(* notification job per absent student, teachers and admins keep editing   *)
(* the register, worker replicas claim jobs and submit them to the SMS     *)
(* gateway, the gateway calls back, an admin presses "retry".              *)
(*                                                                         *)
(* Every action is one committed transaction of the code, or the part of a *)
(* transaction other transactions can tell apart: its reads, its call to   *)
(* the gateway and its commit are separate steps.                          *)
(***************************************************************************)
EXTENDS Integers, FiniteSets

CONSTANTS
  Student,           \* the roster of the session
  Worker,            \* concurrent runs of processNotificationQueue
  NoPhone,           \* students whose primary guardian has no phone
  Silent,            \* students whose guardian opted out or is not on the allowlist
  Delayed,           \* ABSENCE_SMS_DELAY_MINUTES > 0
  Metered,           \* segment_balance IS NOT NULL
  InitialBalance,    \* segments the school has bought
  MaxRetries,        \* options.maxRetries of the worker
  BatchLimit,        \* options.limit of the worker
  MaxFinalizations,  \* bound: finalizations of the session
  MaxEdits,          \* bound: edits of the register
  MaxFaults,         \* bound: crashes, dead transactions, lost answers, slow workers
  MaxClicks,         \* bound: presses of "retry"
  MaxToggles         \* bound: changes of consent and of the SMS settings

ASSUME SmsAssumption ==
  /\ NoPhone \subseteq Student /\ Silent \subseteq Student
  /\ Delayed \in BOOLEAN /\ Metered \in BOOLEAN
  /\ InitialBalance \in Nat /\ MaxRetries \in Nat \ {0}
  /\ BatchLimit \in Nat \ {0} /\ MaxFinalizations \in Nat
  /\ "nobody" \notin Worker

NoClaim == [id |-> <<>>, att |-> 0]
NoEdit  == [from |-> "none", to |-> "none"]
Nobody  == "nobody"

(***************************************************************************)
(* Rows of notification_jobs. The unique index on (attendance_record_id,   *)
(* kind) leaves room for one ABSENCE and one CORRECTION row per record;    *)
(* the rows written for a guardian who cannot be reached have no record id *)
(* and are unique per finalized version.                                   *)
(***************************************************************************)
Job == (Student \X {"ABSENCE", "CORRECTION"} \X {0})
         \cup (Student \X {"NOTICE"} \X (1..MaxFinalizations))

Absence(s)    == <<s, "ABSENCE", 0>>
Correction(s) == <<s, "CORRECTION", 0>>
Notice(s, v)  == <<s, "NOTICE", v>>
Pupil(j)      == j[1]
Kind(j)       == j[2]

Claimable == {"QUEUED", "FAILED", "SCHEDULED"}
JobStatus == Claimable \cup
  {"NONE", "SENDING", "SENT", "DELIVERED", "PERMANENT_FAILURE", "CANCELLED"}
Mark     == {"UNMARKED", "ABSENT", "PRESENT"}
Policies == {"ON", "SMS_DISABLED", "SCHOOL_DISABLED", "MISCONFIGURED"}
Answers  == {"none", "ACCEPTED", "LOST", "TRANSIENT", "REJECTED"}
Claims   == [id : Job, att : Nat]

VARIABLES
  session,      \* attendance_sessions.status
  version,      \* finalized_attendance_version, counted
  record,       \* attendance_records.status
  edit,         \* an edit of the record between its read and its write
  consent,      \* students with consent for ABSENCE_SMS
  policy,       \* school_sms_settings and schools.status
  status,       \* notification_jobs.status, NONE when there is no row
  attempts,     \* notification_jobs.attempt_count
  staleClaim,   \* claimed_at is more than ten minutes ago
  messageId,    \* provider_message_id is set
  balance,      \* school_sms_settings.segment_balance, as committed
  balanceLock,  \* transaction that holds the row lock on the settings
  pc, batch, cur, answer,  \* the workers
  callbacks,    \* callbacks between their read and their write
  spent,        \* how much of each bound is used
  sends,        \* history: submissions of the job the gateway accepted
  faults,       \* history: events that can cause a second submission
  sentLog,      \* history: rows of notification_attempts with status SENT
  overtaken     \* history: an edit of the record that came after the worker's check

registerVars == <<session, version, record, edit>>
settingVars  == <<consent, policy>>
jobVars      == <<status, attempts, staleClaim, messageId>>
balanceVars  == <<balance, balanceLock>>
workerVars   == <<pc, batch, cur, answer>>
historyVars  == <<sends, faults, sentLog, overtaken>>
vars == <<registerVars, settingVars, jobVars, balanceVars, workerVars, callbacks,
          spent, historyVars>>

Spend(what) == spent' = [spent EXCEPT ![what] = @ + 1]

Init ==
  /\ session = "OPEN" /\ version = 0
  /\ record = [s \in Student |-> "UNMARKED"]
  /\ edit = [s \in Student |-> NoEdit]
  /\ consent = Student /\ policy = "ON"
  /\ status = [j \in Job |-> "NONE"]
  /\ attempts = [j \in Job |-> 0]
  /\ staleClaim = [j \in Job |-> FALSE]
  /\ messageId = [j \in Job |-> FALSE]
  /\ balance = InitialBalance /\ balanceLock = Nobody
  /\ pc = [w \in Worker |-> "idle"]
  /\ batch = [w \in Worker |-> {}]
  /\ cur = [w \in Worker |-> NoClaim]
  /\ answer = [w \in Worker |-> "none"]
  /\ callbacks = {}
  /\ spent = [edits |-> 0, faults |-> 0, clicks |-> 0, toggles |-> 0]
  /\ sends = [j \in Job |-> 0]
  /\ faults = [j \in Job |-> 0]
  /\ sentLog = 0
  /\ overtaken = [w \in Worker |-> "no"]

-------------------------------------------------------------------------------
(* The register: edits, finalization, reopening *)

\* A scan or a manual edit reads the record without a lock ...
EditRead(s, to) ==
  /\ edit[s] = NoEdit /\ record[s] # to
  /\ spent.edits < MaxEdits /\ Spend("edits")
  /\ edit' = [edit EXCEPT ![s] = [from |-> record[s], to |-> to]]
  /\ UNCHANGED <<session, version, record, settingVars, jobVars,
                 balanceVars, workerVars, callbacks, historyVars>>

\* Workers that passed their check on s and have not submitted yet.
PastCheck(s) == {w \in Worker : pc[w] = "checked" /\ cur[w].id = Absence(s)}

\* Mutant of Corrected: a text that is still in flight is corrected like a sent one.
Corrected_InFlight(s) ==
  IF status[Absence(s)] = "SCHEDULED"
    THEN status' = [status EXCEPT ![Absence(s)] = "CANCELLED"]
    ELSE IF status[Absence(s)] \in {"SENDING", "SENT"} /\ status[Correction(s)] = "NONE"
      THEN status' = [status EXCEPT ![Correction(s)] = "SCHEDULED"]
      ELSE status' = status

\* onAttendanceCorrected
Corrected(s) ==
  IF status[Absence(s)] = "SCHEDULED"
    THEN status' = [status EXCEPT ![Absence(s)] = "CANCELLED"]
    ELSE IF status[Absence(s)] = "SENT" /\ status[Correction(s)] = "NONE"
      THEN status' = [status EXCEPT ![Correction(s)] = "SCHEDULED"]
      ELSE status' = status

\* ... and later writes it.
EditWrite(s) ==
  /\ edit[s] # NoEdit
  /\ record' = [record EXCEPT ![s] = edit[s].to]
  /\ edit' = [edit EXCEPT ![s] = NoEdit]
  /\ IF edit[s].from = "ABSENT" /\ edit[s].to # "ABSENT"
       THEN Corrected(s)
       ELSE status' = status
  /\ overtaken' = [w \in Worker |->
       IF w \notin PastCheck(s) THEN overtaken[w]
       ELSE IF edit[s].from = "ABSENT" THEN "corrected" ELSE "marked"]
  /\ UNCHANGED <<session, version, settingVars, attempts, staleClaim, messageId,
                 balanceVars, workerVars, callbacks, spent, sends, faults, sentLog>>

\* The row createAbsenceNotificationJobs inserts for an absent student, unless
\* a unique index already has one (onConflictDoNothing).
NewJob(s) == IF s \in NoPhone \cup Silent THEN Notice(s, version + 1) ELSE Absence(s)

NewStatus(s) ==
  CASE s \in NoPhone -> "PERMANENT_FAILURE"
    [] s \in Silent \ NoPhone -> "CANCELLED"
    [] OTHER -> IF Delayed THEN "SCHEDULED" ELSE "QUEUED"

\* updateSessionStatus(FINALIZED). The transaction holds the session row, which
\* every edit needs for its foreign key, so nothing comes between its steps: mark
\* the UNMARKED records when autoMark is set, queue a job per absent student.
Finalize(autoMark) ==
  LET marked(s) == IF autoMark /\ record[s] = "UNMARKED" THEN "ABSENT" ELSE record[s]
      new == IF policy = "SMS_DISABLED" THEN {}
             ELSE {s \in Student : marked(s) = "ABSENT" /\ status[NewJob(s)] = "NONE"}
  IN
  /\ session # "FINALIZED" /\ version < MaxFinalizations
  /\ session' = "FINALIZED" /\ version' = version + 1
  /\ record' = [s \in Student |-> marked(s)]
  /\ status' = [j \in Job |-> IF Pupil(j) \in new /\ j = NewJob(Pupil(j))
                                THEN NewStatus(Pupil(j)) ELSE status[j]]
  /\ UNCHANGED <<edit, settingVars, attempts, staleClaim, messageId, balanceVars,
                 workerVars, callbacks, spent, historyVars>>

\* updateSessionStatus(REOPENED), by an admin
Reopen ==
  /\ session # "REOPENED"
  /\ session' = "REOPENED"
  /\ UNCHANGED <<version, record, edit, settingVars, jobVars, balanceVars,
                 workerVars, callbacks, spent, historyVars>>

\* recordConsent and withdrawConsent
ToggleConsent(s) ==
  /\ spent.toggles < MaxToggles /\ Spend("toggles")
  /\ consent' = IF s \in consent THEN consent \ {s} ELSE consent \cup {s}
  /\ UNCHANGED <<registerVars, policy, jobVars, balanceVars, workerVars, callbacks, historyVars>>

\* PUT /settings, and the platform suspending or reactivating the school
SetPolicy(p) ==
  /\ p # policy
  /\ spent.toggles < MaxToggles /\ Spend("toggles")
  /\ policy' = p
  /\ UNCHANGED <<registerVars, consent, jobVars, balanceVars, workerVars, callbacks, historyVars>>

-------------------------------------------------------------------------------
(* The worker: processNotificationQueue *)

\* Mutant of Stale: claims never go stale.
Stale_Never == {}
Stale == {j \in Job : status[j] = "SENDING" /\ staleClaim[j]}
\* Mutant of Eligible: a claimed job can be claimed again.
Eligible_WhileSending(j) ==
  status[j] \in Claimable \cup {"SENDING"} /\ attempts[j] < MaxRetries
Eligible(j) == (status[j] \in Claimable \/ j \in Stale) /\ attempts[j] < MaxRetries
Holds(w, j) == \E c \in batch[w] : c.id = j

\* claimEligibleJobs: requeue stale claims, then claim a batch (FOR UPDATE SKIP
\* LOCKED). Any part of the eligible rows may be due (send_after and
\* next_attempt_at) and not locked. A claim copies attempt_count.
Claim(w) ==
  /\ pc[w] = "idle" /\ batch[w] = {}
  /\ \E picked \in SUBSET {j \in Job : Eligible(j)} :
       /\ Cardinality(picked) <= BatchLimit
       /\ picked \cup Stale # {}
       /\ status' = [j \in Job |-> IF j \in picked THEN "SENDING"
                                   ELSE IF j \in Stale THEN "QUEUED" ELSE status[j]]
       /\ staleClaim' = [j \in Job |-> staleClaim[j] /\ j \notin picked \cup Stale]
       /\ batch' = [batch EXCEPT ![w] = {[id |-> j, att |-> attempts[j]] : j \in picked}]
       /\ faults' = [j \in Job |-> IF j \in Stale THEN faults[j] + 1 ELSE faults[j]]
  /\ UNCHANGED <<registerVars, settingVars, attempts, messageId, balanceVars, pc, cur,
                 answer, callbacks, spent, sends, sentLog, overtaken>>

\* Ten minutes pass on a claim: its worker is gone, or merely slow.
ClaimAges(j) ==
  /\ status[j] = "SENDING" /\ ~staleClaim[j]
  /\ staleClaim' = [staleClaim EXCEPT ![j] = TRUE]
  /\ IF \E w \in Worker : Holds(w, j)
       THEN spent.faults < MaxFaults /\ Spend("faults")
       ELSE UNCHANGED spent
  /\ UNCHANGED <<registerVars, settingVars, status, attempts, messageId, balanceVars,
                 workerVars, callbacks, historyVars>>

\* Mutant of Drop: the worker forgets to let go of its current claim.
Drop_KeepsClaim(w, claims) ==
  /\ batch' = [batch EXCEPT ![w] = @ \ claims]
  /\ pc' = [pc EXCEPT ![w] = "idle"]
  /\ answer' = [answer EXCEPT ![w] = "none"]
  /\ UNCHANGED cur

\* Worker w is done with some of its claims and takes up no other yet.
Drop(w, claims) ==
  /\ batch' = [batch EXCEPT ![w] = @ \ claims]
  /\ pc' = [pc EXCEPT ![w] = "idle"]
  /\ cur' = [cur EXCEPT ![w] = NoClaim]
  /\ answer' = [answer EXCEPT ![w] = "none"]

\* The write that ends the processing of claim c of worker w. It addresses the
\* row by id alone: neither its status nor its claimant is looked at again.
Settle(w, c, newStatus, newAttempts) ==
  /\ status' = [status EXCEPT ![c.id] = newStatus]
  /\ attempts' = [attempts EXCEPT ![c.id] = newAttempts]
  /\ staleClaim' = [staleClaim EXCEPT ![c.id] = FALSE]
  /\ Drop(w, {c})

\* Mutant of Verdict: the record is not read again before the text goes out.
Verdict_NoRecheck(j) ==
  CASE policy \in {"SCHOOL_DISABLED", "SMS_DISABLED"} -> "CANCELLED"
    [] Pupil(j) \notin consent -> "CANCELLED"
    [] Kind(j) = "NOTICE" -> "CANCELLED"
    [] policy = "MISCONFIGURED" -> "PERMANENT_FAILURE"
    [] OTHER -> "OK"

\* Mutant of Verdict: a job without a message is not refused.
Verdict_NoBodyCheck(j) ==
  CASE policy \in {"SCHOOL_DISABLED", "SMS_DISABLED"} -> "CANCELLED"
    [] Kind(j) = "ABSENCE" /\ record[Pupil(j)] # "ABSENT" -> "CANCELLED"
    [] Pupil(j) \notin consent -> "CANCELLED"
    [] policy = "MISCONFIGURED" -> "PERMANENT_FAILURE"
    [] OTHER -> "OK"

\* The checks of processClaimedJob, in its order
Verdict(j) ==
  CASE policy \in {"SCHOOL_DISABLED", "SMS_DISABLED"} -> "CANCELLED"
    [] Kind(j) = "ABSENCE" /\ record[Pupil(j)] # "ABSENT" -> "CANCELLED"
    [] Pupil(j) \notin consent -> "CANCELLED"
    [] Kind(j) = "NOTICE" -> "CANCELLED"
    [] policy = "MISCONFIGURED" -> "PERMANENT_FAILURE"
    [] OTHER -> "OK"

CheckPasses(w) ==
  /\ pc[w] = "idle"
  /\ \E c \in batch[w] :
       /\ Verdict(c.id) = "OK"
       /\ cur' = [cur EXCEPT ![w] = c]
  /\ pc' = [pc EXCEPT ![w] = "checked"]
  /\ overtaken' = [overtaken EXCEPT ![w] = "no"]
  /\ UNCHANGED <<registerVars, settingVars, jobVars, balanceVars, batch, answer,
                 callbacks, spent, sends, faults, sentLog>>

CheckRefuses(w) ==
  /\ pc[w] = "idle"
  /\ \E c \in batch[w] :
       \/ Verdict(c.id) = "CANCELLED" /\ Settle(w, c, "CANCELLED", attempts[c.id])
       \/ /\ Verdict(c.id) = "PERMANENT_FAILURE"
          /\ Settle(w, c, "PERMANENT_FAILURE", c.att + 1)
  /\ UNCHANGED <<registerVars, settingVars, messageId, balanceVars, callbacks,
                 spent, historyVars>>

\* Mutant of CanReserve: the balance is read without waiting for its row lock.
CanReserve_NoRowLock == Metered => balance >= 1

\* The conditional decrement of segment_balance waits for the row lock and
\* finds enough ...
CanReserve == Metered => (balanceLock = Nobody /\ balance >= 1)

\* ... or too little ...
OutOfBalance(w) ==
  /\ pc[w] = "checked"
  /\ Metered /\ balanceLock = Nobody /\ balance < 1
  /\ Settle(w, cur[w], "PERMANENT_FAILURE", cur[w].att + 1)
  /\ UNCHANGED <<registerVars, settingVars, messageId, balanceVars, callbacks,
                 spent, historyVars>>

\* ... and then the gateway is called inside the transaction.
\* LOST: the gateway accepted, its answer did not arrive.
Submit(w) ==
  /\ pc[w] = "checked"
  /\ CanReserve
  /\ balanceLock' = IF Metered THEN w ELSE balanceLock
  /\ pc' = [pc EXCEPT ![w] = "answered"]
  /\ \E a \in Answers \ {"none"} :
       /\ answer' = [answer EXCEPT ![w] = a]
       /\ sends' = IF a \in {"ACCEPTED", "LOST"}
                     THEN [sends EXCEPT ![cur[w].id] = @ + 1] ELSE sends
       /\ IF a = "LOST"
            THEN /\ spent.faults < MaxFaults /\ Spend("faults")
                 /\ faults' = [faults EXCEPT ![cur[w].id] = @ + 1]
            ELSE UNCHANGED <<spent, faults>>
  /\ UNCHANGED <<registerVars, settingVars, jobVars, balance, batch, cur, callbacks,
                 sentLog, overtaken>>

FailureStatus(n) == IF n >= MaxRetries THEN "PERMANENT_FAILURE" ELSE "FAILED"

ReleaseLock(w) == balanceLock' = IF balanceLock = w THEN Nobody ELSE balanceLock

CommitSent(w) ==
  /\ pc[w] = "answered" /\ answer[w] = "ACCEPTED"
  /\ Settle(w, cur[w], "SENT", cur[w].att + 1)
  /\ messageId' = [messageId EXCEPT ![cur[w].id] = TRUE]
  /\ balance' = IF Metered THEN balance - 1 ELSE balance
  /\ sentLog' = sentLog + 1
  /\ ReleaseLock(w)
  /\ UNCHANGED <<registerVars, settingVars, callbacks, spent, sends, faults, overtaken>>

\* The decrement is given back and the attempt is recorded.
CommitFailed(w) ==
  /\ pc[w] = "answered" /\ answer[w] # "ACCEPTED"
  /\ Settle(w, cur[w],
            IF answer[w] = "REJECTED" THEN "PERMANENT_FAILURE"
                                      ELSE FailureStatus(cur[w].att + 1),
            cur[w].att + 1)
  /\ ReleaseLock(w)
  /\ UNCHANGED <<registerVars, settingVars, messageId, balance, callbacks, spent, historyVars>>

\* The tenant transaction dies (idle_in_transaction_session_timeout, a lost
\* connection): the row and the balance are as before the claim was processed.
TransactionDies(w) ==
  /\ spent.faults < MaxFaults /\ Spend("faults")
  /\ \/ /\ pc[w] = "idle"
        /\ \E c \in batch[w] : cur' = [cur EXCEPT ![w] = c]
     \/ /\ pc[w] \in {"checked", "answered"}
        /\ cur' = cur
  /\ pc' = [pc EXCEPT ![w] = "failed"]
  /\ answer' = [answer EXCEPT ![w] = "none"]
  /\ faults' = IF answer[w] = "ACCEPTED"
                 THEN [faults EXCEPT ![cur[w].id] = @ + 1] ELSE faults
  /\ ReleaseLock(w)
  /\ UNCHANGED <<registerVars, settingVars, jobVars, balance, batch, callbacks, sends,
                 sentLog, overtaken>>

\* recordFailure, in a transaction of its own
RecordFailure(w) ==
  /\ pc[w] = "failed"
  /\ Settle(w, cur[w], FailureStatus(cur[w].att + 1), cur[w].att + 1)
  /\ UNCHANGED <<registerVars, settingVars, messageId, balanceVars, callbacks, spent, historyVars>>

\* recordFailure fails too: the error is logged, the row stays SENDING.
RecordFailureFails(w) ==
  /\ pc[w] = "failed"
  /\ spent.faults < MaxFaults /\ Spend("faults")
  /\ Drop(w, {cur[w]})
  /\ UNCHANGED <<registerVars, settingVars, jobVars, balanceVars, callbacks, historyVars>>

\* The process dies, or is past the five seconds of a graceful shutdown.
Crash(w) ==
  /\ batch[w] # {}
  /\ spent.faults < MaxFaults /\ Spend("faults")
  /\ Drop(w, batch[w])
  /\ ReleaseLock(w)
  /\ UNCHANGED <<registerVars, settingVars, jobVars, balance, callbacks, historyVars>>

-------------------------------------------------------------------------------
(* The routes on jobs *)

\* POST /jobs/:jobId/retry: any row, whatever its status
Retry(j) ==
  /\ status[j] # "NONE"
  /\ spent.clicks < MaxClicks /\ Spend("clicks")
  /\ status' = [status EXCEPT ![j] = "QUEUED"]
  /\ attempts' = [attempts EXCEPT ![j] = @ + 1]
  /\ faults' = [faults EXCEPT ![j] = @ + 1]
  /\ UNCHANGED <<registerVars, settingVars, staleClaim, messageId, balanceVars,
                 workerVars, callbacks, sends, sentLog, overtaken>>

\* POST /callback reads the job by provider_message_id in one transaction ...
CallbackRead(j, outcome) ==
  /\ messageId[j] /\ status[j] # "DELIVERED"
  /\ callbacks' = callbacks \cup {[job |-> j, outcome |-> outcome]}
  /\ callbacks' # callbacks
  /\ UNCHANGED <<registerVars, settingVars, jobVars, balanceVars, workerVars, spent, historyVars>>

\* ... and writes the outcome in another, whatever the status is by then.
CallbackWrite(cb) ==
  /\ cb \in callbacks
  /\ callbacks' = callbacks \ {cb}
  /\ status' = [status EXCEPT ![cb.job] =
                  IF cb.outcome = "DELIVERED" THEN "DELIVERED" ELSE "PERMANENT_FAILURE"]
  /\ UNCHANGED <<registerVars, settingVars, attempts, staleClaim, messageId, balanceVars,
                 workerVars, spent, historyVars>>

-------------------------------------------------------------------------------
WorkerStep(w) ==
  \/ Claim(w) \/ CheckPasses(w) \/ CheckRefuses(w) \/ OutOfBalance(w) \/ Submit(w)
  \/ CommitSent(w) \/ CommitFailed(w) \/ RecordFailure(w)

WorkerFault(w) == TransactionDies(w) \/ RecordFailureFails(w) \/ Crash(w)

RegisterStep ==
  \/ \E s \in Student, to \in {"PRESENT", "ABSENT"} : EditRead(s, to)
  \/ \E s \in Student : EditWrite(s)
  \/ \E autoMark \in BOOLEAN : Finalize(autoMark)
  \/ Reopen

Next ==
  \/ RegisterStep
  \/ \E s \in Student : ToggleConsent(s)
  \/ \E p \in Policies : SetPolicy(p)
  \/ \E w \in Worker : WorkerStep(w)
  \/ \E w \in Worker : WorkerFault(w)
  \/ \E j \in Job : ClaimAges(j)
  \/ \E j \in Job : Retry(j)
  \/ \E j \in Job, outcome \in {"DELIVERED", "FAILED"} : CallbackRead(j, outcome)
  \/ \E cb \in callbacks : CallbackWrite(cb)

Spec == Init /\ [][Next]_vars

\* sms-worker.ts ticks for ever and is restarted by the container runtime, and
\* the ten minutes of an orphaned claim pass; nobody else has to act.
Fairness ==
  /\ \A w \in Worker : WF_vars(WorkerStep(w))
  /\ \A j \in Job : WF_vars(ClaimAges(j))

FairSpec == Spec /\ Fairness

-------------------------------------------------------------------------------
(* Properties *)

\* The state stays within its types: statuses the schema knows, counters that
\* never go below zero, a worker record that names a claim of its own batch.
TypeOK ==
  /\ session \in {"OPEN", "FINALIZED", "REOPENED"} /\ version \in 0..MaxFinalizations
  /\ record \in [Student -> Mark]
  /\ edit \in [Student -> {NoEdit} \cup [from : Mark, to : {"PRESENT", "ABSENT"}]]
  /\ consent \subseteq Student /\ policy \in Policies
  /\ status \in [Job -> JobStatus] /\ attempts \in [Job -> Nat]
  /\ staleClaim \in [Job -> BOOLEAN] /\ messageId \in [Job -> BOOLEAN]
  /\ balance \in Int /\ balanceLock \in Worker \cup {Nobody}
  /\ pc \in [Worker -> {"idle", "checked", "answered", "failed"}]
  /\ batch \in [Worker -> SUBSET Claims] /\ answer \in [Worker -> Answers]
  /\ cur \in [Worker -> Claims \cup {NoClaim}]
  /\ \A w \in Worker : IF pc[w] = "idle" THEN cur[w] = NoClaim ELSE cur[w] \in batch[w]
  /\ callbacks \subseteq [job : Job, outcome : {"DELIVERED", "FAILED"}]
  /\ spent \in [{"edits", "faults", "clicks", "toggles"} -> Nat]
  /\ sends \in [Job -> Nat] /\ faults \in [Job -> Nat] /\ sentLog \in Nat
  /\ overtaken \in [Worker -> {"no", "marked", "corrected"}]
Spent == balance + sentLog = InitialBalance
\* The money adds up: the committed balance and the SENT rows of the attempt
\* log account for every segment bought, whatever crashes, dead transactions
\* and stale claims come between, and concurrent workers cannot overdraw it.
BalanceAccounted == Metered => Spent /\ balance >= 0

\* A job is submitted to the gateway once, and once more for each event that
\* can repeat it: a stale claim requeued, an admin retry, an answer lost after
\* acceptance, a transaction dead after acceptance. Concurrent workers,
\* re-finalization and late failures written over a SENT row add nothing.
NoUnexplainedDuplicate == \A j \in Job : sends[j] <= 1 + faults[j]

\* The "child marked present" message exists only for a student whose absence
\* message the gateway accepted (onAttendanceCorrected looks for SENT).
CorrectionFollowsAbsence ==
  \A s \in Student : status[Correction(s)] # "NONE" => sends[Absence(s)] > 0

\* A worker about to submit an absence SMS for a student who is not ABSENT was
\* overtaken by the correction between its check and its call: no claim made
\* or checked after the correction gets through, even a requeued one.
OnlyOvertakenMisinform ==
  \A w \in Worker : pc[w] = "checked" /\ Kind(cur[w].id) = "ABSENCE"
                      /\ record[Pupil(cur[w].id)] # "ABSENT" => overtaken[w] # "no"

\* The rows for guardians who cannot be reached (no phone, opted out, not on
\* the allowlist) are never submitted, not even after an admin retry.
UnreachableNeverTexted == \A j \in Job : Kind(j) = "NOTICE" => sends[j] = 0

Open(j) == status[j] = "SENDING" \/ (status[j] \in Claimable /\ attempts[j] < MaxRetries)
\* Every job a worker may claim, or has claimed, is settled: crashes, slow
\* workers and dead transactions leave no job in SENDING for ever.
JobsSettle == \A j \in Job : Open(j) ~> ~Open(j)
\* "Already sent -> send a correction, immediately" (absenceScheduler.ts): a
\* correction of a DELIVERED absence queues the correction message.
DeliveredIsCorrected ==
  [][\A s \in Student :
       /\ status[Absence(s)] = "DELIVERED"
       /\ edit[s].from = "ABSENT" /\ edit[s].to = "PRESENT" /\ edit'[s] = NoEdit
       => status'[Correction(s)] # "NONE"]_vars

\* Finalization "queues parent absence SMS jobs" (STATUS.md): a student found
\* absent has a job that is not CANCELLED.
AbsentIsQueued ==
  [][\A s \in Student \ (NoPhone \cup Silent) :
       /\ version' > version /\ policy = "ON" /\ record'[s] = "ABSENT"
       => status'[Absence(s)] # "CANCELLED"]_vars

\* "Retry Failed Job" (NotificationOperations.tsx): a failed job put back in the
\* queue is one that a worker can claim.
RetriedIsClaimable ==
  [][\A j \in Job : status[j] = "PERMANENT_FAILURE" /\ status'[j] = "QUEUED"
       => attempts'[j] < MaxRetries]_vars
===============================================================================
