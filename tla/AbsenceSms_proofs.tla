-------------------------- MODULE AbsenceSms_proofs --------------------------
(* Theorems about AbsenceSms, for every roster, number of workers and bound *)
EXTENDS AbsenceSms, FiniteSetTheorems, TLAPS

\* The rows that exist for a student are jobs.
LEMMA JobsOfStudents ==
  \A s \in Student : /\ Absence(s) \in Job /\ Correction(s) \in Job
                     /\ Kind(Correction(s)) = "CORRECTION" /\ Kind(Absence(s)) = "ABSENCE"
                     /\ Pupil(Correction(s)) = s /\ Pupil(Absence(s)) = s
  BY DEF Absence, Correction, Job, Kind, Pupil

\* Every job belongs to a student of the roster.
LEMMA PupilOfJob == \A j \in Job : Pupil(j) \in Student
  BY DEF Job, Pupil

\* The mark of an idle register is not an edit in progress.
LEMMA NoEditTyped == NoEdit \notin [from : Mark, to : {"PRESENT", "ABSENT"}]
  BY DEF NoEdit, Mark

\* Initially every variable is of its type.
LEMMA InitType == Init => TypeOK
  BY SmsAssumption
  DEF Init, TypeOK, Mark, NoEdit, Policies, JobStatus, Nobody, Claims, Answers, NoClaim,
      Claimable

\* The end of a claim leaves the rows and the workers typed.
LEMMA SettleType ==
  ASSUME TypeOK, NEW w \in Worker, NEW c \in batch[w],
         NEW newStatus \in JobStatus, NEW n \in Nat, Settle(w, c, newStatus, n)
  PROVE  /\ status' \in [Job -> JobStatus] /\ attempts' \in [Job -> Nat]
         /\ staleClaim' \in [Job -> BOOLEAN]
         /\ pc' \in [Worker -> {"idle", "checked", "answered", "failed"}]
         /\ batch' \in [Worker -> SUBSET Claims] /\ answer' \in [Worker -> Answers]
         /\ cur' \in [Worker -> Claims \cup {NoClaim}]
         /\ \A v \in Worker : IF pc'[v] = "idle" THEN cur'[v] = NoClaim
                                                 ELSE cur'[v] \in batch'[v]
  <1>1. c \in Claims
    BY DEF TypeOK
  <1>2. c.id \in Job
    BY <1>1 DEF Claims
  <1>3. /\ status' \in [Job -> JobStatus] /\ attempts' \in [Job -> Nat]
        /\ staleClaim' \in [Job -> BOOLEAN]
    BY <1>2 DEF TypeOK, Settle
  <1>4. QED
    BY <1>3 DEF TypeOK, Settle, Drop, Answers

\* Every step keeps the types.
LEMMA NextType == TypeOK /\ [Next]_vars => TypeOK'
<1> SUFFICES ASSUME TypeOK, [Next]_vars PROVE TypeOK'
  OBVIOUS
<1> USE SmsAssumption
<1>1. ASSUME NEW s \in Student, NEW to \in {"PRESENT", "ABSENT"}, EditRead(s, to)
      PROVE  TypeOK'
  BY <1>1, NoEditTyped
  DEF TypeOK, EditRead, Spend, settingVars, jobVars, balanceVars, workerVars, historyVars
<1>2. ASSUME NEW s \in Student, EditWrite(s)
      PROVE  TypeOK'
  <2>1. edit[s] \in [from : Mark, to : {"PRESENT", "ABSENT"}]
    BY <1>2 DEF TypeOK, EditWrite
  <2>2. status' \in [Job -> JobStatus]
    <3>1. \/ status' = status
          \/ status' = [status EXCEPT ![Absence(s)] = "CANCELLED"]
          \/ status' = [status EXCEPT ![Correction(s)] = "SCHEDULED"]
      BY <1>2 DEF EditWrite, Corrected
    <3>2. "CANCELLED" \in JobStatus /\ "SCHEDULED" \in JobStatus
      BY DEF JobStatus, Claimable
    <3>3. QED
      BY <3>1, <3>2 DEF TypeOK
  <2>3. /\ record' \in [Student -> Mark]
        /\ edit' \in [Student -> {NoEdit} \cup [from : Mark, to : {"PRESENT", "ABSENT"}]]
    BY <1>2, <2>1 DEF TypeOK, EditWrite, Mark
  <2>4. overtaken' \in [Worker -> {"no", "marked", "corrected"}]
    BY <1>2 DEF TypeOK, EditWrite
  <2>5. QED
    BY <1>2, <2>2, <2>3, <2>4
    DEF TypeOK, EditWrite, settingVars, balanceVars, workerVars
<1>3. ASSUME NEW autoMark \in BOOLEAN, Finalize(autoMark)
      PROVE  TypeOK'
  <2>1. status' \in [Job -> JobStatus]
    BY <1>3, PupilOfJob DEF TypeOK, Finalize, NewStatus, JobStatus, Claimable
  <2>2. version' \in 0..MaxFinalizations /\ record' \in [Student -> Mark]
    BY <1>3 DEF TypeOK, Finalize, Mark
  <2>3. QED
    BY <1>3, <2>1, <2>2
    DEF TypeOK, Finalize, settingVars, balanceVars, workerVars, historyVars
<1>4. ASSUME Reopen
      PROVE  TypeOK'
  BY <1>4 DEF TypeOK, Reopen, settingVars, jobVars, balanceVars, workerVars, historyVars
<1>5. ASSUME NEW s \in Student, ToggleConsent(s)
      PROVE  TypeOK'
  BY <1>5
  DEF TypeOK, ToggleConsent, Spend, registerVars, jobVars, balanceVars, workerVars,
      historyVars
<1>6. ASSUME NEW p \in Policies, SetPolicy(p)
      PROVE  TypeOK'
  BY <1>6
  DEF TypeOK, SetPolicy, Spend, registerVars, jobVars, balanceVars, workerVars,
      historyVars
<1>7. ASSUME NEW w \in Worker, Claim(w)
      PROVE  TypeOK'
  BY <1>7
  DEF TypeOK, Claim, Stale, Eligible, JobStatus, Claimable, Claims, registerVars,
      settingVars, balanceVars
<1>8. ASSUME NEW w \in Worker, CheckPasses(w)
       PROVE  TypeOK'
  BY <1>8
  DEF TypeOK, CheckPasses, registerVars, settingVars, jobVars, balanceVars
<1>9. ASSUME NEW w \in Worker, CheckRefuses(w)
       PROVE  TypeOK'
  <2>1. PICK c \in batch[w] :
          \/ Settle(w, c, "CANCELLED", attempts[c.id])
          \/ Settle(w, c, "PERMANENT_FAILURE", c.att + 1)
    BY <1>9 DEF CheckRefuses
  <2>2. /\ c \in batch[w]
        /\ c.id \in Job /\ c.att + 1 \in Nat /\ attempts[c.id] \in Nat
        /\ "CANCELLED" \in JobStatus /\ "PERMANENT_FAILURE" \in JobStatus
    <3>1. c \in Claims
      BY <2>1 DEF TypeOK
    <3>2. c.id \in Job /\ c.att + 1 \in Nat
      BY <3>1 DEF Claims
    <3>3. QED
      BY <2>1, <3>2 DEF TypeOK, JobStatus
  <2>3. CASE Settle(w, c, "CANCELLED", attempts[c.id])
    BY <1>9, <2>2, <2>3, SettleType
    DEF TypeOK, CheckRefuses, JobStatus, registerVars, settingVars, balanceVars,
        historyVars
  <2>4. CASE Settle(w, c, "PERMANENT_FAILURE", c.att + 1)
    BY <1>9, <2>2, <2>4, SettleType
    DEF TypeOK, CheckRefuses, JobStatus, registerVars, settingVars, balanceVars,
        historyVars
  <2>5. QED
    BY <2>1, <2>3, <2>4
<1>10. ASSUME NEW w \in Worker, OutOfBalance(w)
       PROVE  TypeOK'
  <2>1. cur[w] \in batch[w] /\ cur[w].att + 1 \in Nat
    BY <1>10 DEF TypeOK, OutOfBalance, Claims
  <2>2. QED
    BY <1>10, <2>1, SettleType
    DEF TypeOK, OutOfBalance, JobStatus, registerVars, settingVars, balanceVars,
        historyVars
<1>11. ASSUME NEW w \in Worker, Submit(w)
       PROVE  TypeOK'
  <2>1. cur[w].id \in Job
    BY <1>11 DEF TypeOK, Submit, Claims
  <2>2. sends' \in [Job -> Nat] /\ faults' \in [Job -> Nat]
    BY <1>11, <2>1 DEF TypeOK, Submit
  <2>3. /\ spent' \in [{"edits", "faults", "clicks", "toggles"} -> Nat]
        /\ answer' \in [Worker -> Answers]
    BY <1>11 DEF TypeOK, Submit, Spend, Answers
  <2>4. QED
    BY <1>11, <2>2, <2>3
    DEF TypeOK, Submit, registerVars, settingVars, jobVars
<1>12. ASSUME NEW w \in Worker, CommitSent(w)
       PROVE  TypeOK'
  <2>1. cur[w] \in batch[w] /\ cur[w].att + 1 \in Nat /\ cur[w].id \in Job
    BY <1>12 DEF TypeOK, CommitSent, Claims
  <2>2. "SENT" \in JobStatus /\ Settle(w, cur[w], "SENT", cur[w].att + 1)
    BY <1>12 DEF CommitSent, JobStatus
  <2>3. messageId' \in [Job -> BOOLEAN]
    BY <1>12 DEF TypeOK, CommitSent
  <2>4. balance' \in Int /\ sentLog' \in Nat
    BY <1>12 DEF TypeOK, CommitSent
  <2>5. balanceLock' \in Worker \cup {Nobody}
    BY <1>12 DEF TypeOK, CommitSent, ReleaseLock
  <2>6. QED
    BY <1>12, <2>1, <2>2, <2>3, <2>4, <2>5, SettleType
    DEF TypeOK, CommitSent, registerVars, settingVars
<1>13. ASSUME NEW w \in Worker, CommitFailed(w)
       PROVE  TypeOK'
  <2>1. cur[w] \in batch[w] /\ cur[w].att + 1 \in Nat
    BY <1>13 DEF TypeOK, CommitFailed, Claims
  <2>2. QED
    BY <1>13, <2>1, SettleType
    DEF TypeOK, CommitFailed, FailureStatus, ReleaseLock, JobStatus, Claimable,
        registerVars, settingVars, historyVars
<1>14. ASSUME NEW w \in Worker, RecordFailure(w)
       PROVE  TypeOK'
  <2>1. cur[w] \in batch[w] /\ cur[w].att + 1 \in Nat
    BY <1>14 DEF TypeOK, RecordFailure, Claims
  <2>2. QED
    BY <1>14, <2>1, SettleType
    DEF TypeOK, RecordFailure, FailureStatus, JobStatus, Claimable, registerVars,
        settingVars, balanceVars, historyVars
<1>15. ASSUME NEW w \in Worker, TransactionDies(w)
       PROVE  TypeOK'
  <2>1. cur' \in [Worker -> Claims \cup {NoClaim}] /\ cur'[w] \in batch[w]
    BY <1>15 DEF TypeOK, TransactionDies
  <2>2. /\ cur' \in [Worker -> Claims \cup {NoClaim}]
        /\ \A v \in Worker : IF pc'[v] = "idle" THEN cur'[v] = NoClaim ELSE cur'[v] \in batch'[v]
    BY <1>15, <2>1 DEF TypeOK, TransactionDies
  <2>3. faults' = faults \/ faults' = [faults EXCEPT ![cur[w].id] = @ + 1]
    BY <1>15 DEF TransactionDies
  <2>4. faults' \in [Job -> Nat]
    BY <2>3 DEF TypeOK
  <2>5. /\ spent' \in [{"edits", "faults", "clicks", "toggles"} -> Nat]
        /\ balanceLock' \in Worker \cup {Nobody} /\ answer' \in [Worker -> Answers]
        /\ pc' \in [Worker -> {"idle", "checked", "answered", "failed"}]
    BY <1>15 DEF TypeOK, TransactionDies, Spend, ReleaseLock, Answers
  <2>6. QED
    BY <1>15, <2>2, <2>4, <2>5
    DEF TypeOK, TransactionDies, registerVars, settingVars, jobVars
<1>16. ASSUME NEW w \in Worker, RecordFailureFails(w)
       PROVE  TypeOK'
  BY <1>16
  DEF TypeOK, RecordFailureFails, Spend, Drop, Answers, registerVars, settingVars,
      jobVars, balanceVars, historyVars
<1>17. ASSUME NEW w \in Worker, Crash(w)
       PROVE  TypeOK'
  BY <1>17
  DEF TypeOK, Crash, Spend, Drop, ReleaseLock, Answers, registerVars, settingVars,
      jobVars, historyVars
<1>18. ASSUME NEW j \in Job, ClaimAges(j)
       PROVE  TypeOK'
  BY <1>18
  DEF TypeOK, ClaimAges, Spend, registerVars, settingVars, balanceVars, workerVars,
      historyVars
<1>19. ASSUME NEW j \in Job, Retry(j)
       PROVE  TypeOK'
  BY <1>19
  DEF TypeOK, Retry, Spend, JobStatus, Claimable, registerVars, settingVars, balanceVars,
      workerVars
<1>20. ASSUME NEW j \in Job, NEW outcome \in {"DELIVERED", "FAILED"}, CallbackRead(j, outcome)
       PROVE  TypeOK'
  BY <1>20
  DEF TypeOK, CallbackRead, registerVars, settingVars, jobVars, balanceVars, workerVars,
      historyVars
<1>21. ASSUME NEW cb \in callbacks, CallbackWrite(cb)
       PROVE  TypeOK'
  BY <1>21
  DEF TypeOK, CallbackWrite, JobStatus, registerVars, settingVars, balanceVars,
      workerVars, historyVars
<1>22. CASE UNCHANGED vars
  BY <1>22
  DEF TypeOK, vars, registerVars, settingVars, jobVars, balanceVars, workerVars,
      historyVars
<1>23. QED
  BY <1>1, <1>2, <1>3, <1>4, <1>5, <1>6, <1>7, <1>8, <1>9, <1>10, <1>11,
     <1>12, <1>13, <1>14, <1>15, <1>16, <1>17, <1>18, <1>19, <1>20, <1>21, <1>22
  DEF Next, RegisterStep, WorkerStep, WorkerFault

\* Type correctness of the absence-SMS pipeline.
THEOREM TypeCorrect == Spec => []TypeOK
  BY InitType, NextType, PTL DEF Spec
-------------------------------------------------------------------------------
(* The money *)

\* The worker that called the gateway holds the row of the settings and has
\* taken a segment that was there: nobody else can take it before it commits.
Reserved == \A w \in Worker : pc[w] = "answered" => balanceLock = w /\ balance >= 1

MoneyInv == Metered => Spent /\ balance >= 0 /\ Reserved

\* Every step keeps the balance accounted for and the reservation exclusive.
LEMMA MoneyStep == TypeOK /\ MoneyInv /\ [Next]_vars => MoneyInv'
<1> SUFFICES ASSUME TypeOK, MoneyInv, [Next]_vars, Metered
             PROVE  (Spent /\ balance >= 0 /\ Reserved)'
  BY DEF MoneyInv
<1> USE SmsAssumption DEF MoneyInv, Spent, Reserved
<1>1. CASE UNCHANGED <<balanceVars, sentLog, pc>>
  BY <1>1 DEF balanceVars
<1>2. ASSUME NEW w \in Worker, CheckPasses(w)
      PROVE  (Spent /\ balance >= 0 /\ Reserved)'
  BY <1>2 DEF TypeOK, CheckPasses, balanceVars
<1>3. ASSUME NEW w \in Worker,
             CheckRefuses(w) \/ OutOfBalance(w) \/ RecordFailure(w)
      PROVE  (Spent /\ balance >= 0 /\ Reserved)'
  <2>1. pc' = [pc EXCEPT ![w] = "idle"] /\ UNCHANGED <<balance, balanceLock, sentLog>>
    BY <1>3
    DEF CheckRefuses, OutOfBalance, RecordFailure, Settle, Drop, balanceVars, historyVars
  <2>2. \A v \in Worker : pc'[v] = "answered" => pc[v] = "answered"
    BY <2>1 DEF TypeOK
  <2>3. QED
    BY <2>1, <2>2
<1>4. ASSUME NEW w \in Worker, RecordFailureFails(w)
      PROVE  (Spent /\ balance >= 0 /\ Reserved)'
  BY <1>4 DEF TypeOK, RecordFailureFails, Drop, balanceVars, historyVars
<1>5. ASSUME NEW w \in Worker, Submit(w)
      PROVE  (Spent /\ balance >= 0 /\ Reserved)'
  BY <1>5 DEF TypeOK, Submit, CanReserve, Nobody
<1>6. ASSUME NEW w \in Worker, CommitSent(w)
      PROVE  (Spent /\ balance >= 0 /\ Reserved)'
  BY <1>6 DEF TypeOK, CommitSent, Settle, Drop, ReleaseLock
<1>7. ASSUME NEW w \in Worker, CommitFailed(w)
      PROVE  (Spent /\ balance >= 0 /\ Reserved)'
  BY <1>7 DEF TypeOK, CommitFailed, Settle, Drop, ReleaseLock, historyVars
<1>8. ASSUME NEW w \in Worker, TransactionDies(w)
      PROVE  (Spent /\ balance >= 0 /\ Reserved)'
  BY <1>8 DEF TypeOK, TransactionDies, ReleaseLock
<1>9. ASSUME NEW w \in Worker, Crash(w)
      PROVE  (Spent /\ balance >= 0 /\ Reserved)'
  BY <1>9 DEF TypeOK, Crash, Drop, ReleaseLock, historyVars
<1>10. ASSUME RegisterStep
       PROVE  UNCHANGED <<balanceVars, sentLog, pc>>
  BY <1>10
  DEF RegisterStep, EditRead, EditWrite, Finalize, Reopen, workerVars, historyVars
<1>11. ASSUME NEW s \in Student, ToggleConsent(s)
       PROVE  UNCHANGED <<balanceVars, sentLog, pc>>
  BY <1>11 DEF ToggleConsent, workerVars, historyVars
<1>12. ASSUME NEW p \in Policies, SetPolicy(p)
       PROVE  UNCHANGED <<balanceVars, sentLog, pc>>
  BY <1>12 DEF SetPolicy, workerVars, historyVars
<1>13. ASSUME NEW w \in Worker, Claim(w)
       PROVE  UNCHANGED <<balanceVars, sentLog, pc>>
  BY <1>13 DEF Claim
<1>14. ASSUME NEW j \in Job, ClaimAges(j) \/ Retry(j)
       PROVE  UNCHANGED <<balanceVars, sentLog, pc>>
  BY <1>14 DEF ClaimAges, Retry, workerVars, historyVars
<1>15. ASSUME NEW j \in Job, NEW outcome \in {"DELIVERED", "FAILED"}, CallbackRead(j, outcome)
       PROVE  UNCHANGED <<balanceVars, sentLog, pc>>
  BY <1>15 DEF CallbackRead, workerVars, historyVars
<1>16. ASSUME NEW cb \in callbacks, CallbackWrite(cb)
       PROVE  UNCHANGED <<balanceVars, sentLog, pc>>
  BY <1>16 DEF CallbackWrite, workerVars, historyVars
<1>17. CASE UNCHANGED vars
  BY <1>17, <1>1 DEF vars, balanceVars, workerVars, historyVars
<1>18. QED
  BY <1>1, <1>2, <1>3, <1>4, <1>5, <1>6, <1>7, <1>8, <1>9, <1>10, <1>11, <1>12, <1>13,
     <1>14, <1>15, <1>16, <1>17
  DEF Next, WorkerStep, WorkerFault

\* Every segment the school bought is either on its balance or in a SENT row of
\* the attempt log, and workers cannot overdraw the balance.
THEOREM MoneyCorrect == Spec => []BalanceAccounted
<1>1. Init => MoneyInv
  BY SmsAssumption DEF Init, MoneyInv, Spent, Reserved
<1>2. MoneyInv => BalanceAccounted
  BY DEF MoneyInv, BalanceAccounted
<1>3. QED
  BY <1>1, <1>2, MoneyStep, TypeCorrect, PTL DEF Spec

-------------------------------------------------------------------------------
(* What the guardian was told *)

\* The statuses that say a text went out.
Went == {"SENT", "DELIVERED"}

\* Whatever says that the gateway accepted a job is true.
Told ==
  /\ \A j \in Job : status[j] \in Went \/ messageId[j] => sends[j] > 0
  /\ \A cb \in callbacks : sends[cb.job] > 0
  /\ \A w \in Worker : pc[w] = "answered" /\ answer[w] = "ACCEPTED" => sends[cur[w].id] > 0

\* Whatever refers to a row refers to one that exists.
Exists ==
  /\ \A w \in Worker : \A c \in batch[w] : status[c.id] # "NONE"
  /\ \A j \in Job : messageId[j] => status[j] # "NONE"
  /\ \A cb \in callbacks : status[cb.job] # "NONE"

CorrectionInv == Told /\ Exists /\ CorrectionFollowsAbsence

\* Submissions are not taken back.
LEMMA SendsGrow ==
  TypeOK /\ [Next]_vars => \A j \in Job : sends[j] > 0 => sends'[j] > 0
<1> SUFFICES ASSUME TypeOK, [Next]_vars, NEW j \in Job, sends[j] > 0
             PROVE  sends'[j] > 0
  OBVIOUS
<1>1. ASSUME NEW w \in Worker, Submit(w)
      PROVE  sends'[j] > 0
  BY <1>1 DEF TypeOK, Submit
<1>2. ASSUME NEW w \in Worker, WorkerStep(w), ~Submit(w)
      PROVE  sends' = sends
  BY <1>2
  DEF WorkerStep, Claim, CheckPasses, CheckRefuses, OutOfBalance, CommitSent,
      CommitFailed, RecordFailure, historyVars
<1>3. ASSUME NEW w \in Worker, WorkerFault(w)
      PROVE  sends' = sends
  BY <1>3 DEF WorkerFault, TransactionDies, RecordFailureFails, Crash, historyVars
<1>4. ASSUME RegisterStep
      PROVE  sends' = sends
  BY <1>4
  DEF RegisterStep, EditRead, EditWrite, Finalize, Reopen, historyVars
<1>5. QED
  BY <1>1, <1>2, <1>3, <1>4
  DEF Next, ToggleConsent, SetPolicy, ClaimAges, Retry, CallbackRead, CallbackWrite, vars,
      historyVars

\* A row that exists is not deleted, and the only rows that appear are those of
\* finalization and of onAttendanceCorrected.
LEMMA RowsStay ==
  TypeOK /\ Exists /\ [Next]_vars =>
    \A j \in Job : /\ status[j] # "NONE" => status'[j] # "NONE"
                   /\ status[j] = "NONE" /\ Kind(j) = "CORRECTION" /\ status'[j] # "NONE"
                        => status[Absence(Pupil(j))] = "SENT"
<1> DEFINE P == \A j \in Job :
              /\ status[j] # "NONE" => status'[j] # "NONE"
              /\ status[j] = "NONE" /\ Kind(j) = "CORRECTION" /\ status'[j] # "NONE"
                   => status[Absence(Pupil(j))] = "SENT"
<1> SUFFICES ASSUME TypeOK, Exists, [Next]_vars PROVE P
  OBVIOUS
<1> USE SmsAssumption
<1>1. ASSUME NEW s \in Student, EditWrite(s) PROVE P
  <2>1. \/ status' = status
        \/ status' = [status EXCEPT ![Absence(s)] = "CANCELLED"]
        \/ /\ status' = [status EXCEPT ![Correction(s)] = "SCHEDULED"]
           /\ status[Absence(s)] = "SENT"
    BY <1>1 DEF EditWrite, Corrected
  <2>2. CASE status' = [status EXCEPT ![Absence(s)] = "CANCELLED"]
    BY <2>2, JobsOfStudents DEF TypeOK
  <2>3. CASE /\ status' = [status EXCEPT ![Correction(s)] = "SCHEDULED"]
             /\ status[Absence(s)] = "SENT"
    BY <2>3, JobsOfStudents DEF TypeOK
  <2>4. QED
    BY <2>1, <2>2, <2>3
<1>2. ASSUME NEW autoMark \in BOOLEAN, Finalize(autoMark) PROVE P
  <2>1. \A s \in Student : NewStatus(s) # "NONE" /\ Kind(NewJob(s)) # "CORRECTION"
    BY DEF NewStatus, NewJob, Kind, Notice, Absence
  <2>2. QED
    BY <1>2, <2>1, PupilOfJob DEF Finalize
<1>3. ASSUME NEW w \in Worker, Claim(w) PROVE P
  BY <1>3 DEF TypeOK, Claim, Stale, Eligible, Claimable
<1>4. ASSUME NEW w \in Worker, NEW c \in batch[w], NEW new, new # "NONE", NEW n,
             Settle(w, c, new, n)
      PROVE  P
  BY <1>4 DEF TypeOK, Exists, Settle
<1>5. ASSUME NEW w \in Worker, CheckRefuses(w) PROVE P
  BY <1>5, <1>4 DEF CheckRefuses
<1>6. ASSUME NEW w \in Worker,
             OutOfBalance(w) \/ CommitSent(w) \/ CommitFailed(w) \/ RecordFailure(w)
      PROVE  P
  <2>1. cur[w] \in batch[w]
    BY <1>6 DEF TypeOK, OutOfBalance, CommitSent, CommitFailed, RecordFailure
  <2>2. \A n : FailureStatus(n) # "NONE"
    BY DEF FailureStatus
  <2>3. QED
    BY <1>6, <1>4, <2>1, <2>2 DEF OutOfBalance, CommitSent, CommitFailed, RecordFailure
<1>7. ASSUME NEW j \in Job, Retry(j) PROVE P
  BY <1>7 DEF TypeOK, Retry
<1>8. ASSUME NEW cb \in callbacks, CallbackWrite(cb) PROVE P
  BY <1>8 DEF TypeOK, Exists, CallbackWrite
<1>9. CASE status' = status
  BY <1>9
<1>10. QED
  BY <1>1, <1>2, <1>3, <1>5, <1>6, <1>7, <1>8, <1>9
  DEF Next, RegisterStep, EditRead, Reopen, ToggleConsent, SetPolicy, WorkerStep,
      CheckPasses, Submit, WorkerFault, TransactionDies, RecordFailureFails, Crash,
      ClaimAges, CallbackRead, vars, jobVars

\* A row becomes SENT only from an answer of the gateway, DELIVERED only from
\* its callback.
LEMMA WentStep ==
  TypeOK /\ [Next]_vars =>
    \A j \in Job : (status'[j] \in Went \/ messageId'[j]) =>
      \/ status[j] \in Went \/ messageId[j]
      \/ \E w \in Worker : pc[w] = "answered" /\ answer[w] = "ACCEPTED" /\ cur[w].id = j
      \/ \E cb \in callbacks : cb.job = j
<1> DEFINE P == \A j \in Job : (status'[j] \in Went \/ messageId'[j]) =>
                  \/ status[j] \in Went \/ messageId[j]
                  \/ \E w \in Worker : pc[w] = "answered" /\ answer[w] = "ACCEPTED" /\ cur[w].id = j
                  \/ \E cb \in callbacks : cb.job = j
<1> SUFFICES ASSUME TypeOK, [Next]_vars PROVE P
  OBVIOUS
<1> USE SmsAssumption DEF Went
<1>1. ASSUME NEW s \in Student, EditWrite(s) PROVE P
  <2>1. messageId' = messageId /\ \A j \in Job : status'[j] \in {status[j], "CANCELLED", "SCHEDULED"}
    BY <1>1 DEF TypeOK, EditWrite, Corrected
  <2>2. QED
    BY <2>1
<1>2. ASSUME NEW autoMark \in BOOLEAN, Finalize(autoMark) PROVE P
  <2>1. \A s \in Student : NewStatus(s) \notin Went
    BY DEF NewStatus
  <2>2. QED
    BY <1>2, <2>1, PupilOfJob DEF Finalize
<1>3. ASSUME NEW w \in Worker, Claim(w) PROVE P
  BY <1>3 DEF TypeOK, Claim
<1>4. ASSUME NEW w \in Worker, NEW c, NEW new, new \notin Went, NEW n,
             Settle(w, c, new, n), UNCHANGED messageId
      PROVE  P
  BY <1>4 DEF TypeOK, Settle
<1>5. ASSUME NEW w \in Worker, CheckRefuses(w) PROVE P
  BY <1>5, <1>4 DEF CheckRefuses
<1>6. ASSUME NEW w \in Worker, OutOfBalance(w) \/ CommitFailed(w) \/ RecordFailure(w)
      PROVE  P
  <2>1. \A n : FailureStatus(n) \notin Went
    BY DEF FailureStatus
  <2>2. QED
    BY <1>6, <1>4, <2>1 DEF OutOfBalance, CommitFailed, RecordFailure
<1>7. ASSUME NEW w \in Worker, CommitSent(w) PROVE P
  BY <1>7 DEF TypeOK, CommitSent, Settle
<1>8. ASSUME NEW j \in Job, Retry(j) PROVE P
  BY <1>8 DEF TypeOK, Retry, jobVars
<1>9. ASSUME NEW cb \in callbacks, CallbackWrite(cb) PROVE P
  BY <1>9 DEF TypeOK, CallbackWrite
<1>10. CASE UNCHANGED <<status, messageId>>
  BY <1>10
<1>11. QED
  BY <1>1, <1>2, <1>3, <1>5, <1>6, <1>7, <1>8, <1>9, <1>10
  DEF Next, RegisterStep, EditRead, Reopen, ToggleConsent, SetPolicy, WorkerStep,
      CheckPasses, Submit, WorkerFault, TransactionDies, RecordFailureFails, Crash,
      ClaimAges, CallbackRead, vars, jobVars

\* A worker has an accepted answer only after its own submission.
LEMMA AnswerStep ==
  TypeOK /\ [Next]_vars =>
    \A w \in Worker : pc'[w] = "answered" /\ answer'[w] = "ACCEPTED" =>
      \/ pc[w] = "answered" /\ answer[w] = "ACCEPTED" /\ cur'[w] = cur[w]
      \/ sends'[cur'[w].id] > 0
<1> DEFINE P == \A w \in Worker : pc'[w] = "answered" /\ answer'[w] = "ACCEPTED" =>
                  \/ pc[w] = "answered" /\ answer[w] = "ACCEPTED" /\ cur'[w] = cur[w]
                  \/ sends'[cur'[w].id] > 0
<1> SUFFICES ASSUME TypeOK, [Next]_vars PROVE P
  OBVIOUS
<1>1. ASSUME NEW w \in Worker, Submit(w) PROVE P
  <2>1. cur[w].id \in Job
    BY <1>1 DEF TypeOK, Submit, Claims
  <2>2. QED
    BY <1>1, <2>1 DEF TypeOK, Submit
<1>2. ASSUME NEW w \in Worker, NEW cs, Drop(w, cs) PROVE P
  BY <1>2 DEF TypeOK, Drop
<1>3. ASSUME NEW w \in Worker,
             \/ CheckRefuses(w) \/ OutOfBalance(w) \/ CommitSent(w) \/ CommitFailed(w)
             \/ RecordFailure(w) \/ RecordFailureFails(w) \/ Crash(w)
      PROVE  P
  BY <1>3, <1>2
  DEF CheckRefuses, OutOfBalance, CommitSent, CommitFailed, RecordFailure,
      RecordFailureFails, Crash, Settle
<1>4. ASSUME NEW w \in Worker, CheckPasses(w) \/ TransactionDies(w) PROVE P
  BY <1>4 DEF TypeOK, CheckPasses, TransactionDies
<1>5. CASE UNCHANGED <<pc, answer, cur>>
  BY <1>5
<1>6. QED
  BY <1>1, <1>3, <1>4, <1>5
  DEF Next, RegisterStep, EditRead, EditWrite, Finalize, Reopen, ToggleConsent, SetPolicy,
      WorkerStep, WorkerFault, Claim, ClaimAges, Retry, CallbackRead, CallbackWrite, vars,
      workerVars

\* A worker holds rows it has claimed, and a callback names a row that was sent.
LEMMA HeldStep ==
  TypeOK /\ [Next]_vars =>
    /\ \A w \in Worker : \A c \in batch'[w] : c \in batch[w] \/ status[c.id] # "NONE"
    /\ \A cb \in callbacks' : cb \in callbacks \/ messageId[cb.job]
    /\ \A j \in Job : messageId'[j] =>
         messageId[j] \/ \E w \in Worker : cur[w] \in batch[w] /\ cur[w].id = j
<1> DEFINE P == /\ \A w \in Worker : \A c \in batch'[w] : c \in batch[w] \/ status[c.id] # "NONE"
                /\ \A cb \in callbacks' : cb \in callbacks \/ messageId[cb.job]
                /\ \A j \in Job : messageId'[j] =>
                     messageId[j] \/ \E w \in Worker : cur[w] \in batch[w] /\ cur[w].id = j
<1> SUFFICES ASSUME TypeOK, [Next]_vars PROVE P
  OBVIOUS
<1>1. ASSUME NEW w \in Worker, Claim(w) PROVE P
  BY <1>1 DEF TypeOK, Claim, Eligible, Stale, Claimable
<1>2. ASSUME NEW w \in Worker, NEW cs, Drop(w, cs), UNCHANGED <<callbacks, messageId>> PROVE P
  BY <1>2 DEF TypeOK, Drop
<1>3. ASSUME NEW w \in Worker,
             \/ CheckRefuses(w) \/ OutOfBalance(w) \/ CommitFailed(w)
             \/ RecordFailure(w) \/ RecordFailureFails(w) \/ Crash(w)
      PROVE  P
  BY <1>3, <1>2
  DEF CheckRefuses, OutOfBalance, CommitFailed, RecordFailure, RecordFailureFails, Crash,
      Settle, jobVars
<1>4. ASSUME NEW w \in Worker, CommitSent(w) PROVE P
  <2>1. cur[w] \in batch[w]
    BY <1>4 DEF TypeOK, CommitSent
  <2>2. QED
    BY <1>4, <2>1 DEF TypeOK, CommitSent, Settle, Drop
<1>5. ASSUME NEW j \in Job, NEW outcome \in {"DELIVERED", "FAILED"}, CallbackRead(j, outcome)
      PROVE  P
  BY <1>5 DEF CallbackRead, jobVars, workerVars
<1>6. CASE UNCHANGED <<batch, messageId>> /\ callbacks' \subseteq callbacks
  BY <1>6
<1>7. QED
  BY <1>1, <1>3, <1>4, <1>5, <1>6
  DEF Next, RegisterStep, EditRead, EditWrite, Finalize, Reopen, ToggleConsent, SetPolicy,
      WorkerStep, CheckPasses, Submit, WorkerFault, TransactionDies, ClaimAges, Retry,
      CallbackWrite, vars, jobVars, workerVars

\* Every step keeps the invariant of corrections.
LEMMA CorrectionStep == TypeOK /\ CorrectionInv /\ [Next]_vars => CorrectionInv'
<1> SUFFICES ASSUME TypeOK, CorrectionInv, [Next]_vars PROVE CorrectionInv'
  OBVIOUS
<1> USE DEF CorrectionInv
<1>1. \A j \in Job : sends[j] > 0 => sends'[j] > 0
  BY SendsGrow
<1>2. \A cb \in callbacks \cup callbacks' : cb.job \in Job
  BY NextType DEF TypeOK
<1>3. \A w \in Worker : \A c \in batch[w] \cup batch'[w] : c.id \in Job
  BY NextType DEF TypeOK, Claims
<1>4. CorrectionFollowsAbsence'
  BY <1>1, RowsStay, JobsOfStudents DEF CorrectionFollowsAbsence, Told, Went
<1>5. Told'
  <2>1. \A j \in Job : status'[j] \in Went \/ messageId'[j] => sends'[j] > 0
    BY <1>1, WentStep DEF Told
  <2>2. \A cb \in callbacks' : sends'[cb.job] > 0
    BY <1>1, <1>2, HeldStep DEF Told
  <2>3. \A w \in Worker : pc'[w] = "answered" => cur'[w].id \in Job
    BY <1>3, NextType DEF TypeOK
  <2>4. \A w \in Worker : pc'[w] = "answered" /\ answer'[w] = "ACCEPTED" => sends'[cur'[w].id] > 0
    BY <1>1, <2>3, AnswerStep DEF Told
  <2>5. QED
    BY <2>1, <2>2, <2>4 DEF Told, Went
<1>6. Exists'
  <2>1. \A j \in Job : status[j] # "NONE" => status'[j] # "NONE"
    BY RowsStay
  <2>2. \A w \in Worker : \A c \in batch'[w] : status'[c.id] # "NONE"
    BY <1>3, <2>1, HeldStep DEF Exists
  <2>3. \A j \in Job : messageId'[j] => status'[j] # "NONE"
    BY <2>1, HeldStep DEF Exists
  <2>4. \A cb \in callbacks' : status'[cb.job] # "NONE"
    BY <1>2, <2>1, HeldStep DEF Exists
  <2>5. QED
    BY <2>2, <2>3, <2>4 DEF Exists
<1>7. QED
  BY <1>4, <1>5, <1>6

\* No guardian is told that the child was marked present after all unless the
\* gateway had accepted the absence message before.
THEOREM CorrectionCorrect == Spec => []CorrectionFollowsAbsence
<1>1. Init => CorrectionInv
  BY JobsOfStudents DEF Init, CorrectionInv, Told, Exists, CorrectionFollowsAbsence, Went
<1>2. CorrectionInv => CorrectionFollowsAbsence
  BY DEF CorrectionInv
<1>3. QED
  BY <1>1, <1>2, CorrectionStep, TypeCorrect, PTL DEF Spec
-------------------------------------------------------------------------------
(* Who is texted, and about whom *)

\* A worker past its check has a job of a reachable guardian.
CheckedReachable ==
  \A w \in Worker : pc[w] \in {"checked", "answered"} => Kind(cur[w].id) # "NOTICE"

ReachInv == CheckedReachable /\ UnreachableNeverTexted

\* Only the check lets a worker reach its call, and its claim stays the same
\* from there to the end of the transaction.
LEMMA CheckStep ==
  TypeOK /\ [Next]_vars =>
    \A w \in Worker : pc'[w] \in {"checked", "answered"} =>
      \/ /\ pc[w] \in {"checked", "answered"} /\ cur'[w] = cur[w]
         /\ pc'[w] = "checked" => pc[w] = "checked"
      \/ CheckPasses(w) /\ pc'[w] = "checked"
<1> DEFINE P == \A w \in Worker : pc'[w] \in {"checked", "answered"} =>
                  \/ /\ pc[w] \in {"checked", "answered"} /\ cur'[w] = cur[w]
                     /\ pc'[w] = "checked" => pc[w] = "checked"
                  \/ CheckPasses(w) /\ pc'[w] = "checked"
<1> SUFFICES ASSUME TypeOK, [Next]_vars PROVE P
  OBVIOUS
<1>1. ASSUME NEW w \in Worker, NEW cs, Drop(w, cs) PROVE P
  BY <1>1 DEF TypeOK, Drop
<1>2. ASSUME NEW w \in Worker,
             \/ CheckRefuses(w) \/ OutOfBalance(w) \/ CommitSent(w) \/ CommitFailed(w)
             \/ RecordFailure(w) \/ RecordFailureFails(w) \/ Crash(w)
      PROVE  P
  BY <1>2, <1>1
  DEF CheckRefuses, OutOfBalance, CommitSent, CommitFailed, RecordFailure,
      RecordFailureFails, Crash, Settle
<1>3. ASSUME NEW w \in Worker, CheckPasses(w) PROVE P
  <2>1. \A v \in Worker \ {w} : pc'[v] = pc[v] /\ cur'[v] = cur[v]
    BY <1>3 DEF TypeOK, CheckPasses
  <2>2. pc'[w] = "checked"
    BY <1>3 DEF TypeOK, CheckPasses
  <2>3. QED
    BY <1>3, <2>1, <2>2
<1>4. ASSUME NEW w \in Worker, Submit(w) \/ TransactionDies(w) PROVE P
  BY <1>4 DEF TypeOK, Submit, TransactionDies
<1>5. CASE UNCHANGED <<pc, cur>>
  BY <1>5
<1>6. QED
  BY <1>2, <1>3, <1>4, <1>5
  DEF Next, RegisterStep, EditRead, EditWrite, Finalize, Reopen, ToggleConsent, SetPolicy,
      WorkerStep, WorkerFault, Claim, ClaimAges, Retry, CallbackRead, CallbackWrite, vars,
      workerVars

\* What the check requires of the claim it lets through.
LEMMA CheckedClaim ==
  ASSUME TypeOK, NEW w \in Worker, CheckPasses(w)
  PROVE  /\ cur'[w] \in batch[w] /\ cur'[w].id \in Job /\ Kind(cur'[w].id) # "NOTICE"
         /\ Kind(cur'[w].id) = "ABSENCE" => record[Pupil(cur'[w].id)] = "ABSENT"
<1>1. PICK c \in batch[w] : Verdict(c.id) = "OK" /\ cur' = [cur EXCEPT ![w] = c]
  BY DEF CheckPasses
<1>2. c \in batch[w] /\ cur'[w] = c
  BY <1>1 DEF TypeOK
<1>3. c.id \in Job
  BY <1>2 DEF TypeOK, Claims
<1>4. /\ Kind(c.id) # "NOTICE"
      /\ Kind(c.id) = "ABSENCE" => record[Pupil(c.id)] = "ABSENT"
  BY <1>1 DEF Verdict
<1>5. QED
  BY <1>2, <1>3, <1>4

\* The gateway is only called by a worker past its check, for the claim checked.
LEMMA SubmitStep ==
  TypeOK /\ [Next]_vars =>
    \A j \in Job : sends'[j] # sends[j] => \E w \in Worker : pc[w] = "checked" /\ cur[w].id = j
<1> SUFFICES ASSUME TypeOK, [Next]_vars, NEW j \in Job, sends'[j] # sends[j]
             PROVE  \E w \in Worker : pc[w] = "checked" /\ cur[w].id = j
  OBVIOUS
<1>1. ASSUME NEW w \in Worker, Submit(w)
      PROVE  pc[w] = "checked" /\ cur[w].id = j
  BY <1>1 DEF TypeOK, Submit
<1>2. PICK w \in Worker : Submit(w)
  BY DEF Next, RegisterStep, EditRead, EditWrite, Finalize, Reopen, ToggleConsent,
         SetPolicy, WorkerStep, WorkerFault, Claim, CheckPasses, CheckRefuses,
         OutOfBalance, CommitSent, CommitFailed, RecordFailure, TransactionDies,
         RecordFailureFails, Crash, ClaimAges, Retry, CallbackRead, CallbackWrite, vars,
         historyVars
<1>3. QED
  BY <1>1, <1>2

\* No guardian without a phone, off the allowlist or opted out when the register
\* was finalized is ever texted for it.
THEOREM ReachCorrect == Spec => []UnreachableNeverTexted
<1>1. Init => ReachInv
  BY DEF Init, ReachInv, CheckedReachable, UnreachableNeverTexted
<1>2. TypeOK /\ ReachInv /\ [Next]_vars => ReachInv'
  <2> SUFFICES ASSUME TypeOK, ReachInv, [Next]_vars PROVE ReachInv'
    OBVIOUS
  <2>1. CheckedReachable'
    BY CheckStep, CheckedClaim DEF ReachInv, CheckedReachable
  <2>2. UnreachableNeverTexted'
    BY SubmitStep DEF ReachInv, CheckedReachable, UnreachableNeverTexted
  <2>3. QED
    BY <2>1, <2>2 DEF ReachInv
<1>3. ReachInv => UnreachableNeverTexted
  BY DEF ReachInv
<1>4. QED
  BY <1>1, <1>2, <1>3, TypeCorrect, PTL DEF Spec

\* A job is known by its student and kind.
LEMMA AbsenceOf == \A j \in Job : Kind(j) = "ABSENCE" => j = Absence(Pupil(j))
  BY DEF Job, Kind, Absence, Pupil

\* A record that stops being ABSENT does so in an edit.
LEMMA RecordStep ==
  TypeOK /\ [Next]_vars =>
    \A s \in Student : record[s] = "ABSENT" /\ record'[s] # "ABSENT" => EditWrite(s)
<1> SUFFICES ASSUME TypeOK, [Next]_vars, NEW s \in Student,
                    record[s] = "ABSENT", record'[s] # "ABSENT"
             PROVE  EditWrite(s)
  OBVIOUS
<1>1. ASSUME NEW t \in Student, EditWrite(t)
      PROVE  t = s
  BY <1>1 DEF TypeOK, EditWrite
<1>2. \A autoMark \in BOOLEAN : ~Finalize(autoMark)
  BY DEF TypeOK, Finalize
<1>3. QED
  BY <1>1, <1>2
  DEF Next, RegisterStep, EditRead, Reopen, ToggleConsent, SetPolicy, WorkerStep,
      WorkerFault, Claim, CheckPasses, CheckRefuses, OutOfBalance, Submit, CommitSent,
      CommitFailed, RecordFailure, TransactionDies, RecordFailureFails, Crash, ClaimAges,
      Retry, CallbackRead, CallbackWrite, vars, registerVars

\* Only a check forgets that the record was edited.
LEMMA OvertakenStep ==
  TypeOK /\ [Next]_vars =>
    \A w \in Worker : overtaken[w] # "no" /\ overtaken'[w] = "no" => CheckPasses(w)
<1> SUFFICES ASSUME TypeOK, [Next]_vars, NEW w \in Worker,
                    overtaken[w] # "no", overtaken'[w] = "no"
             PROVE  CheckPasses(w)
  OBVIOUS
<1>1. ASSUME NEW v \in Worker, CheckPasses(v)
      PROVE  v = w
  BY <1>1 DEF TypeOK, CheckPasses
<1>2. \A s \in Student : ~EditWrite(s)
  BY DEF TypeOK, EditWrite
<1>3. QED
  BY <1>1, <1>2
  DEF Next, RegisterStep, EditRead, Finalize, Reopen, ToggleConsent, SetPolicy,
      WorkerStep, WorkerFault, Claim, CheckRefuses, OutOfBalance, Submit, CommitSent,
      CommitFailed, RecordFailure, TransactionDies, RecordFailureFails, Crash, ClaimAges,
      Retry, CallbackRead, CallbackWrite, vars, historyVars

\* Every step keeps a checked worker and the register in agreement.
LEMMA MisinformStep ==
  ASSUME TypeOK, [Next]_vars, OnlyOvertakenMisinform
  PROVE  OnlyOvertakenMisinform'
<1> SUFFICES ASSUME NEW w \in Worker, pc'[w] = "checked", Kind(cur'[w].id) = "ABSENCE",
                    record'[Pupil(cur'[w].id)] # "ABSENT"
             PROVE  overtaken'[w] # "no"
  BY DEF OnlyOvertakenMisinform
<1> DEFINE s == Pupil(cur'[w].id)
<1>1. cur'[w].id \in Job /\ s \in Student
  <2>1. cur'[w] \in Claims
    <3>1. cur'[w] \in batch'[w] /\ batch'[w] \subseteq Claims
      BY NextType DEF TypeOK
    <3>2. QED
      BY <3>1
  <2>2. cur'[w].id \in Job
    BY <2>1 DEF Claims
  <2>3. QED
    BY <2>2, PupilOfJob
<1>2. ~CheckPasses(w)
  <2>1. SUFFICES ASSUME CheckPasses(w) PROVE FALSE
    OBVIOUS
  <2>2. record[s] = "ABSENT" /\ record' = record
    BY <2>1, CheckedClaim DEF CheckPasses, registerVars
  <2>3. QED
    BY <2>2
<1>3. pc[w] = "checked" /\ cur'[w] = cur[w]
  BY <1>2, CheckStep
<1>4. CASE record[s] = "ABSENT"
  <2>1. EditWrite(s)
    BY <1>1, <1>4, RecordStep
  <2>2. w \in PastCheck(s)
    BY <1>1, <1>3, AbsenceOf DEF PastCheck
  <2>3. QED
    BY <2>1, <2>2 DEF EditWrite
<1>5. CASE record[s] # "ABSENT"
  <2>1. overtaken[w] # "no"
    BY <1>3, <1>5 DEF OnlyOvertakenMisinform
  <2>2. QED
    BY <2>1, <1>2, OvertakenStep
<1>6. QED
  BY <1>4, <1>5

\* A worker about to send an absence SMS for a student who is not absent was
\* overtaken between its check and its call: every check after the edit stops it.
THEOREM MisinformCorrect == Spec => []OnlyOvertakenMisinform
<1>1. Init => OnlyOvertakenMisinform
  BY DEF Init, OnlyOvertakenMisinform
<1>2. QED
  BY <1>1, MisinformStep, TypeCorrect, PTL DEF Spec

-------------------------------------------------------------------------------
(* How often a text goes out *)

\* Worker w can still submit j: it holds a claim of it that is not answered.
Answered(w, j) == pc[w] = "answered" /\ answer[w] = "ACCEPTED" /\ cur[w].id = j
Carries(w, j)  == Holds(w, j) /\ ~Answered(w, j)
Carriers(j)    == {w \in Worker : Carries(w, j)}
One(b)         == IF b THEN 1 ELSE 0
\* The row of j, or the place for it, can still be claimed.
Left(j)        == status[j] \in Claimable \cup {"NONE"}

\* What was submitted and what can be submitted without another such event is
\* at most one text and one for each event.
Counted(j) ==
  /\ IsFiniteSet(Carriers(j))
  /\ sends[j] + One(Left(j)) + Cardinality(Carriers(j)) <= 1 + faults[j]

\* A batch has one claim of a job.
ClaimsDiffer == \A w \in Worker : \A c, d \in batch[w] : c.id = d.id => c = d

DuplicateInv == ClaimsDiffer /\ \A j \in Job : Counted(j)

\* The number of carriers changes with the worker that moves.
LEMMA CarriersMove ==
  ASSUME NEW w \in Worker, NEW j \in Job, IsFiniteSet(Carriers(j)),
         \A v \in Worker : v # w => (Carries(v, j)' <=> Carries(v, j))
  PROVE  /\ IsFiniteSet(Carriers(j)')
         /\ Cardinality(Carriers(j)) \in Nat /\ Cardinality(Carriers(j)') \in Nat
         /\ Cardinality(Carriers(j)') + One(Carries(w, j))
              = Cardinality(Carriers(j)) + One(Carries(w, j)')
<1>0. Cardinality(Carriers(j)) \in Nat
  BY FS_CardinalityType
<1>1. CASE Carries(w, j)' <=> Carries(w, j)
  <2>1. Carriers(j)' = Carriers(j)
    BY <1>1 DEF Carriers
  <2>2. QED
    BY <1>0, <1>1, <2>1 DEF One
<1>2. CASE Carries(w, j)' /\ ~Carries(w, j)
  <2>1. Carriers(j)' = Carriers(j) \cup {w} /\ w \notin Carriers(j)
    BY <1>2 DEF Carriers
  <2>2. /\ IsFiniteSet(Carriers(j) \cup {w})
        /\ Cardinality(Carriers(j) \cup {w}) = Cardinality(Carriers(j)) + 1
    BY <2>1, FS_AddElement
  <2>3. QED
    BY <1>0, <1>2, <2>1, <2>2 DEF One
<1>3. CASE ~Carries(w, j)' /\ Carries(w, j)
  <2>1. Carriers(j)' = Carriers(j) \ {w} /\ w \in Carriers(j)
    BY <1>3 DEF Carriers
  <2>2. /\ IsFiniteSet(Carriers(j) \ {w})
        /\ Cardinality(Carriers(j) \ {w}) = Cardinality(Carriers(j)) - 1
        /\ Cardinality(Carriers(j) \ {w}) \in Nat
    BY <2>1, FS_RemoveElement, FS_CardinalityType
  <2>3. QED
    BY <1>0, <1>3, <2>1, <2>2 DEF One
<1>4. QED
  BY <1>1, <1>2, <1>3

\* So a step of w keeps the count of j when it spends no more than it gives.
LEMMA CountMove ==
  ASSUME TypeOK, TypeOK', NEW w \in Worker, NEW j \in Job, Counted(j),
         \A v \in Worker : v # w => (Carries(v, j)' <=> Carries(v, j)),
         sends'[j] + One(Left(j)') + One(Carries(w, j)') + faults[j]
           <= sends[j] + One(Left(j)) + One(Carries(w, j)) + faults'[j]
  PROVE  Counted(j)'
<1>1. /\ IsFiniteSet(Carriers(j)')
      /\ Cardinality(Carriers(j)) \in Nat /\ Cardinality(Carriers(j)') \in Nat
      /\ Cardinality(Carriers(j)') + One(Carries(w, j))
           = Cardinality(Carriers(j)) + One(Carries(w, j)')
  BY CarriersMove DEF Counted
<1>2. /\ sends[j] \in Nat /\ sends'[j] \in Nat /\ faults[j] \in Nat /\ faults'[j] \in Nat
      /\ sends[j] + One(Left(j)) + Cardinality(Carriers(j)) <= 1 + faults[j]
  BY DEF TypeOK, Counted
<1>3. \A b : One(b) \in {0, 1}
  BY DEF One
<1>4. One(Carries(w, j)) \in Nat /\ One(Carries(w, j)') \in Nat /\ One(Left(j)) \in Nat
      /\ One(Left(j)') \in Nat
  BY DEF One
<1>5. QED
  BY <1>1, <1>2, <1>4 DEF Counted

\* A step without a worker keeps it when the row gains no claim for nothing.
LEMMA CountRow ==
  ASSUME TypeOK, TypeOK', NEW j \in Job, Counted(j), UNCHANGED <<workerVars, sends>>,
         One(Left(j)') + faults[j] <= One(Left(j)) + faults'[j]
  PROVE  Counted(j)'
<1>1. Carriers(j)' = Carriers(j)
  BY DEF Carriers, Carries, Holds, Answered, workerVars
<1>2. /\ sends[j] \in Nat /\ faults[j] \in Nat /\ faults'[j] \in Nat
      /\ sends[j] + One(Left(j)) + Cardinality(Carriers(j)) <= 1 + faults[j]
      /\ Cardinality(Carriers(j)) \in Nat
  BY FS_CardinalityType DEF TypeOK, Counted
<1>3. One(Left(j)) \in Nat /\ One(Left(j)') \in Nat
  BY DEF One
<1>4. QED
  BY <1>1, <1>2, <1>3 DEF Counted

\* A worker that settles or drops claims of its batch no longer carries them.
LEMMA DropCarries ==
  ASSUME TypeOK, ClaimsDiffer, NEW w \in Worker, NEW claims \in SUBSET batch[w],
         Drop(w, claims)
  PROVE  /\ ClaimsDiffer'
         /\ \A j \in Job, v \in Worker : v # w => (Carries(v, j)' <=> Carries(v, j))
         /\ \A j \in Job : Carries(w, j)' => \A c \in claims : c.id # j
         /\ \A j \in Job : Carries(w, j)' => Holds(w, j)
         /\ \A j \in Job : Carries(w, j)' <=> \E c \in batch[w] \ claims : c.id = j
<1>1. /\ batch'[w] = batch[w] \ claims /\ pc'[w] = "idle"
      /\ \A v \in Worker : v # w => /\ batch'[v] = batch[v] /\ pc'[v] = pc[v]
                                    /\ cur'[v] = cur[v] /\ answer'[v] = answer[v]
  BY DEF TypeOK, Drop
<1>2. ClaimsDiffer'
  BY <1>1 DEF ClaimsDiffer
<1>3. \A j \in Job, v \in Worker : v # w => (Carries(v, j)' <=> Carries(v, j))
  BY <1>1 DEF Carries, Holds, Answered
<1>4. \A j \in Job : Carries(w, j)' <=> \E c \in batch[w] \ claims : c.id = j
  BY <1>1 DEF Carries, Holds, Answered
<1>5. \A j \in Job : (\E c \in batch[w] \ claims : c.id = j) => \A c \in claims : c.id # j
  BY DEF ClaimsDiffer
<1>6. QED
  BY <1>2, <1>3, <1>4, <1>5 DEF Holds

\* The claims a worker keeps are as before, those of the job it works on apart.
LEMMA KeptCarries ==
  ASSUME TypeOK, ClaimsDiffer, NEW w \in Worker, NEW claims \in SUBSET batch[w], NEW j \in Job,
         pc[w] = "idle" \/ cur[w] \in claims, \A c \in claims : c.id # j
  PROVE  Carries(w, j) <=> \E c \in batch[w] \ claims : c.id = j
<1>1. (\E c \in batch[w] \ claims : c.id = j) <=> Holds(w, j)
  BY DEF Holds
<1>2. ~Answered(w, j)
  BY DEF Answered
<1>3. QED
  BY <1>1, <1>2 DEF Carries

\* The end of a claim gives its row at most what the worker had in hand.
LEMMA SettleCounts ==
  ASSUME TypeOK, TypeOK', DuplicateInv, NEW w \in Worker, NEW c \in batch[w],
         NEW new, NEW n, Settle(w, c, new, n), UNCHANGED <<sends, faults>>,
         pc[w] = "idle" \/ c = cur[w], new # "NONE",
         new \in Claimable => pc[w] = "idle" \/ ~(pc[w] = "answered" /\ answer[w] = "ACCEPTED")
  PROVE  DuplicateInv'
<1>1. Drop(w, {c}) /\ status' = [status EXCEPT ![c.id] = new] /\ c.id \in Job
  BY DEF Settle, TypeOK, Claims
<1>2. /\ ClaimsDiffer /\ ClaimsDiffer'
      /\ \A j \in Job, v \in Worker : v # w => (Carries(v, j)' <=> Carries(v, j))
      /\ \A j \in Job : Carries(w, j)' => \A d \in {c} : d.id # j
      /\ \A j \in Job : Carries(w, j)' <=> \E d \in batch[w] \ {c} : d.id = j
  BY <1>1, DropCarries DEF DuplicateInv
<1>3. ASSUME NEW j \in Job PROVE Counted(j)'
  <2>1. /\ Counted(j) /\ sends'[j] = sends[j] /\ faults'[j] = faults[j]
        /\ sends[j] \in Nat /\ faults[j] \in Nat
    BY DEF DuplicateInv, TypeOK
  <2>2. One(Left(j)') + One(Carries(w, j)') <= One(Left(j)) + One(Carries(w, j))
    <3>1. CASE j = c.id
      <4>1. ~Carries(w, j)'
        BY <1>2, <3>1
      <4>2. Left(j)' => Carries(w, j)
        <5>1. Left(j)' => new \in Claimable
          BY <1>1, <3>1 DEF Left, TypeOK
        <5>2. new \in Claimable => ~Answered(w, j)
          BY DEF Answered
        <5>3. Holds(w, j)
          BY <3>1 DEF Holds
        <5>4. QED
          BY <5>1, <5>2, <5>3 DEF Carries
      <4>3. QED
        BY <4>1, <4>2 DEF One
    <3>2. CASE j # c.id
      <4>1. Left(j)' <=> Left(j)
        BY <1>1, <3>2 DEF Left, TypeOK
      <4>2. Carries(w, j)' <=> Carries(w, j)
        <5>1. ~Answered(w, j)
          BY <3>2 DEF Answered
        <5>2. Carries(w, j) <=> \E d \in batch[w] \ {c} : d.id = j
          BY <3>2, <5>1 DEF Carries, Holds
        <5>3. QED
          BY <1>2, <5>2
      <4>3. QED
        BY <4>1, <4>2 DEF One
    <3>3. QED
      BY <3>1, <3>2
  <2>3. One(Left(j)') \in Nat /\ One(Carries(w, j)') \in Nat /\ One(Left(j)) \in Nat
        /\ One(Carries(w, j)) \in Nat
    BY DEF One
  <2>4. sends'[j] + One(Left(j)') + One(Carries(w, j)') + faults[j]
          <= sends[j] + One(Left(j)) + One(Carries(w, j)) + faults'[j]
    BY <2>1, <2>2, <2>3
  <2>5. QED
    BY <1>2, <2>1, <2>4, CountMove
<1>4. QED
  BY <1>2, <1>3 DEF DuplicateInv

\* A step of a worker that drops claims without a write, and gives up the rest.
LEMMA DropCounts ==
  ASSUME TypeOK, TypeOK', DuplicateInv, NEW w \in Worker, NEW claims \in SUBSET batch[w],
         Drop(w, claims), UNCHANGED <<status, sends, faults>>,
         pc[w] = "idle" \/ cur[w] \in claims
  PROVE  DuplicateInv'
<1>1. /\ ClaimsDiffer /\ ClaimsDiffer'
      /\ \A j \in Job, v \in Worker : v # w => (Carries(v, j)' <=> Carries(v, j))
      /\ \A j \in Job : Carries(w, j)' => \A d \in claims : d.id # j
      /\ \A j \in Job : Carries(w, j)' <=> \E d \in batch[w] \ claims : d.id = j
  BY DropCarries DEF DuplicateInv
<1>2. ASSUME NEW j \in Job PROVE Counted(j)'
  <2>1. Carries(w, j)' => Carries(w, j)
    BY <1>1, KeptCarries
  <2>2. /\ Counted(j) /\ sends'[j] = sends[j] /\ faults'[j] = faults[j]
        /\ sends[j] \in Nat /\ faults[j] \in Nat /\ (Left(j)' <=> Left(j))
    BY DEF DuplicateInv, TypeOK, Left
  <2>3. /\ One(Left(j)') = One(Left(j)) /\ One(Carries(w, j)') <= One(Carries(w, j))
        /\ One(Left(j)) \in Nat /\ One(Carries(w, j)) \in Nat /\ One(Carries(w, j)') \in Nat
    BY <2>1, <2>2 DEF One
  <2>4. sends'[j] + One(Left(j)') + One(Carries(w, j)') + faults[j]
          <= sends[j] + One(Left(j)) + One(Carries(w, j)) + faults'[j]
    BY <2>2, <2>3
  <2>5. QED
    BY <1>1, <2>2, <2>4, CountMove
<1>3. QED
  BY <1>1, <1>2 DEF DuplicateInv

\* A claim takes what the row gives, or a stale claim is counted.
LEMMA ClaimCounts ==
  ASSUME TypeOK, TypeOK', DuplicateInv, NEW w \in Worker, Claim(w)
  PROVE  DuplicateInv'
<1>1. PICK picked \in SUBSET {j \in Job : Eligible(j)} :
        /\ status' = [j \in Job |-> IF j \in picked THEN "SENDING"
                                    ELSE IF j \in Stale THEN "QUEUED" ELSE status[j]]
        /\ batch' = [batch EXCEPT ![w] = {[id |-> j, att |-> attempts[j]] : j \in picked}]
        /\ faults' = [j \in Job |-> IF j \in Stale THEN faults[j] + 1 ELSE faults[j]]
  BY DEF Claim
<1>2. UNCHANGED <<pc, cur, answer, sends>> /\ pc[w] = "idle" /\ batch[w] = {}
  BY DEF Claim
<1>3. /\ \A v \in Worker : v # w => batch'[v] = batch[v]
      /\ \A j \in Job : Holds(w, j)' <=> j \in picked
      /\ \A c, d \in batch'[w] : c.id = d.id => c = d
  <2>1. batch'[w] = {[id |-> j, att |-> attempts[j]] : j \in picked}
    BY <1>1 DEF TypeOK
  <2>2. \A v \in Worker : v # w => batch'[v] = batch[v]
    BY <1>1 DEF TypeOK
  <2>3. \A c \in batch'[w] : c.id \in picked /\ c = [id |-> c.id, att |-> attempts[c.id]]
    BY <2>1
  <2>4. \A j \in picked : \E c \in batch'[w] : c.id = j
    <3>1. TAKE j \in picked
    <3>2. [id |-> j, att |-> attempts[j]] \in batch'[w]
      BY <2>1
    <3>3. [id |-> j, att |-> attempts[j]].id = j
      OBVIOUS
    <3>4. QED
      BY <3>2, <3>3
  <2>5. \A j \in Job : Holds(w, j)' <=> j \in picked
    BY <2>3, <2>4 DEF Holds
  <2>6. \A c, d \in batch'[w] : c.id = d.id => c = d
    BY <2>3
  <2>7. QED
    BY <2>2, <2>5, <2>6
<1>4. ClaimsDiffer'
  BY <1>3 DEF DuplicateInv, ClaimsDiffer
<1>5. ASSUME NEW j \in Job PROVE Counted(j)'
  <2>1. \A v \in Worker : v # w => (Carries(v, j)' <=> Carries(v, j))
    BY <1>2, <1>3 DEF Carries, Holds, Answered
  <2>2. (Carries(w, j)' <=> j \in picked) /\ ~Carries(w, j)
    BY <1>2, <1>3 DEF Carries, Holds, Answered
  <2>3. /\ Counted(j) /\ sends'[j] = sends[j] /\ sends[j] \in Nat /\ faults[j] \in Nat
        /\ faults'[j] = IF j \in Stale THEN faults[j] + 1 ELSE faults[j]
        /\ status'[j] = IF j \in picked THEN "SENDING"
                        ELSE IF j \in Stale THEN "QUEUED" ELSE status[j]
    BY <1>1, <1>2 DEF DuplicateInv, TypeOK
  <2>4. /\ j \in Stale => ~Left(j)
        /\ j \in picked /\ j \notin Stale => Left(j)
        /\ j \in picked => ~Left(j)'
        /\ j \notin picked /\ j \notin Stale => (Left(j)' <=> Left(j))
    BY <1>1, <2>3 DEF Stale, Left, Claimable, Eligible
  <2>5. sends'[j] + One(Left(j)') + One(Carries(w, j)') + faults[j]
          <= sends[j] + One(Left(j)) + One(Carries(w, j)) + faults'[j]
    <3>1. CASE j \in picked /\ j \in Stale
      BY <2>2, <2>3, <2>4, <3>1 DEF One
    <3>2. CASE j \in picked /\ j \notin Stale
      BY <2>2, <2>3, <2>4, <3>2 DEF One
    <3>3. CASE j \notin picked /\ j \in Stale
      BY <2>2, <2>3, <2>4, <3>3 DEF One
    <3>4. CASE j \notin picked /\ j \notin Stale
      BY <2>2, <2>3, <2>4, <3>4 DEF One
    <3>5. QED
      BY <3>1, <3>2, <3>3, <3>4
  <2>6. QED
    BY <2>1, <2>3, <2>5, CountMove
<1>6. QED
  BY <1>4, <1>5 DEF DuplicateInv

\* A submission uses up what the worker had in hand, or its answer is lost and
\* counted.
LEMMA SubmitCounts ==
  ASSUME TypeOK, TypeOK', DuplicateInv, NEW w \in Worker, Submit(w)
  PROVE  DuplicateInv'
<1>1. PICK a \in Answers \ {"none"} :
        /\ answer' = [answer EXCEPT ![w] = a]
        /\ sends' = IF a \in {"ACCEPTED", "LOST"}
                      THEN [sends EXCEPT ![cur[w].id] = @ + 1] ELSE sends
        /\ faults' = IF a = "LOST" THEN [faults EXCEPT ![cur[w].id] = @ + 1] ELSE faults
  BY DEF Submit
<1>2. /\ UNCHANGED <<status, batch, cur>> /\ pc[w] = "checked"
      /\ pc' = [pc EXCEPT ![w] = "answered"]
      /\ cur[w] \in batch[w] /\ cur[w].id \in Job
  BY DEF Submit, TypeOK, jobVars, Claims
<1>3. /\ pc'[w] = "answered" /\ answer'[w] = a
      /\ \A v \in Worker : v # w => pc'[v] = pc[v] /\ answer'[v] = answer[v]
  BY <1>1, <1>2 DEF TypeOK
<1>4. ASSUME NEW j \in Job PROVE Counted(j)'
  <2>1. \A v \in Worker : v # w => (Carries(v, j)' <=> Carries(v, j))
    BY <1>2, <1>3 DEF Carries, Holds, Answered
  <2>2. Counted(j) /\ sends[j] \in Nat /\ faults[j] \in Nat /\ (Left(j)' <=> Left(j))
    BY <1>2 DEF DuplicateInv, TypeOK, Left
  <2>3. CASE j = cur[w].id
    <3>1. Carries(w, j) /\ (Carries(w, j)' <=> a # "ACCEPTED")
      BY <1>2, <1>3, <2>3 DEF Carries, Holds, Answered
    <3>2. /\ sends'[j] = IF a \in {"ACCEPTED", "LOST"} THEN sends[j] + 1 ELSE sends[j]
          /\ faults'[j] = IF a = "LOST" THEN faults[j] + 1 ELSE faults[j]
      BY <1>1, <1>2, <2>3 DEF TypeOK
    <3>3. sends'[j] + One(Left(j)') + One(Carries(w, j)') + faults[j]
            <= sends[j] + One(Left(j)) + One(Carries(w, j)) + faults'[j]
      BY <2>2, <3>1, <3>2 DEF One
    <3>4. QED
      BY <2>1, <2>2, <3>3, CountMove
  <2>4. CASE j # cur[w].id
    <3>1. Carries(w, j)' <=> Carries(w, j)
      BY <1>2, <1>3, <2>4 DEF Carries, Holds, Answered
    <3>2. sends'[j] = sends[j] /\ faults'[j] = faults[j]
      BY <1>1, <1>2, <2>4 DEF TypeOK
    <3>3. sends'[j] + One(Left(j)') + One(Carries(w, j)') + faults[j]
            <= sends[j] + One(Left(j)) + One(Carries(w, j)) + faults'[j]
      BY <2>2, <3>1, <3>2 DEF One
    <3>4. QED
      BY <2>1, <2>2, <3>3, CountMove
  <2>5. QED
    BY <2>3, <2>4
<1>5. ClaimsDiffer'
  BY <1>2 DEF DuplicateInv, ClaimsDiffer
<1>6. QED
  BY <1>4, <1>5 DEF DuplicateInv

\* A transaction that dies gives an accepted text back to its worker, and is counted.
LEMMA DiesCounts ==
  ASSUME TypeOK, TypeOK', DuplicateInv, NEW w \in Worker, TransactionDies(w)
  PROVE  DuplicateInv'
<1>1. /\ UNCHANGED <<status, batch, sends>>
      /\ pc' = [pc EXCEPT ![w] = "failed"] /\ answer' = [answer EXCEPT ![w] = "none"]
      /\ \A v \in Worker : v # w => cur'[v] = cur[v]
      /\ faults' = IF answer[w] = "ACCEPTED"
                     THEN [faults EXCEPT ![cur[w].id] = @ + 1] ELSE faults
  BY DEF TransactionDies, jobVars, TypeOK
<1>2. /\ pc'[w] = "failed" /\ \A v \in Worker : v # w => pc'[v] = pc[v] /\ answer'[v] = answer[v]
  BY <1>1 DEF TypeOK
<1>3. ASSUME NEW j \in Job PROVE Counted(j)'
  <2>1. \A v \in Worker : v # w => (Carries(v, j)' <=> Carries(v, j))
    BY <1>1, <1>2 DEF Carries, Holds, Answered
  <2>2. /\ Counted(j) /\ sends'[j] = sends[j] /\ sends[j] \in Nat /\ faults[j] \in Nat
        /\ faults'[j] \in Nat /\ faults'[j] >= faults[j] /\ (Left(j)' <=> Left(j))
    BY <1>1 DEF DuplicateInv, TypeOK, Left
  <2>3. Answered(w, j) => faults'[j] = faults[j] + 1
    BY <1>1 DEF Answered, TypeOK
  <2>4. Carries(w, j)' => Carries(w, j) \/ Answered(w, j)
    BY <1>1 DEF Carries, Holds
  <2>5. sends'[j] + One(Left(j)') + One(Carries(w, j)') + faults[j]
          <= sends[j] + One(Left(j)) + One(Carries(w, j)) + faults'[j]
    BY <2>2, <2>3, <2>4 DEF One
  <2>6. QED
    BY <2>1, <2>2, <2>5, CountMove
<1>4. ClaimsDiffer'
  BY <1>1 DEF DuplicateInv, ClaimsDiffer
<1>5. QED
  BY <1>3, <1>4 DEF DuplicateInv

\* Only a stale claim and the retry button put a row back without a worker.
LEMMA RowCounts ==
  ASSUME TypeOK, TypeOK', DuplicateInv, UNCHANGED <<workerVars, sends>>,
         \A j \in Job : /\ faults'[j] >= faults[j]
                        /\ Left(j)' => Left(j) \/ faults'[j] > faults[j]
  PROVE  DuplicateInv'
<1>1. ASSUME NEW j \in Job PROVE Counted(j)'
  <2>1. /\ faults[j] \in Nat /\ faults'[j] \in Nat /\ faults'[j] >= faults[j] /\ Counted(j)
        /\ Left(j)' => Left(j) \/ faults'[j] > faults[j]
    BY DEF TypeOK, DuplicateInv
  <2>2. One(Left(j)') + faults[j] <= One(Left(j)) + faults'[j]
    BY <2>1 DEF One
  <2>3. QED
    BY <2>1, <2>2, CountRow
<1>2. ClaimsDiffer'
  BY DEF DuplicateInv, ClaimsDiffer, workerVars
<1>3. QED
  BY <1>1, <1>2 DEF DuplicateInv

\* Every step keeps the count.
LEMMA DuplicateStep == TypeOK /\ DuplicateInv /\ [Next]_vars => DuplicateInv'
<1> SUFFICES ASSUME TypeOK, DuplicateInv, [Next]_vars PROVE DuplicateInv'
  OBVIOUS
<1>0. TypeOK'
  BY NextType
<1>1. CASE UNCHANGED <<status, faults, workerVars, sends>>
  BY <1>0, <1>1, RowCounts DEF Left, TypeOK
<1>2. ASSUME NEW s \in Student, EditWrite(s) PROVE DuplicateInv'
  <2>1. /\ UNCHANGED <<workerVars, sends, faults>>
        /\ \/ status' = status
           \/ status' = [status EXCEPT ![Absence(s)] = "CANCELLED"]
           \/ /\ status' = [status EXCEPT ![Correction(s)] = "SCHEDULED"]
              /\ status[Correction(s)] = "NONE"
    BY <1>2 DEF EditWrite, Corrected
  <2>2. \A j \in Job : Left(j)' => Left(j)
    BY <2>1, JobsOfStudents DEF Left, TypeOK, Claimable
  <2>3. QED
    BY <1>0, <2>1, <2>2, RowCounts DEF TypeOK
<1>3. ASSUME NEW autoMark \in BOOLEAN, Finalize(autoMark) PROVE DuplicateInv'
  <2>1. UNCHANGED <<workerVars, sends, faults>>
    BY <1>3 DEF Finalize, historyVars
  <2>2. \A j \in Job : status'[j] = status[j] \/ status[j] = "NONE"
    BY <1>3 DEF Finalize
  <2>3. \A j \in Job : Left(j)' => Left(j)
    BY <2>2 DEF Left
  <2>4. QED
    BY <1>0, <2>1, <2>3, RowCounts DEF TypeOK
<1>4. ASSUME NEW w \in Worker, Claim(w) PROVE DuplicateInv'
  BY <1>0, <1>4, ClaimCounts
<1>5. ASSUME NEW w \in Worker, CheckPasses(w) PROVE DuplicateInv'
  <2>1. /\ UNCHANGED <<status, batch, sends, faults, answer>> /\ pc[w] = "idle"
        /\ pc' = [pc EXCEPT ![w] = "checked"] /\ \A v \in Worker : v # w => cur'[v] = cur[v]
    BY <1>5 DEF CheckPasses, jobVars, TypeOK
  <2>2. \A v \in Worker, j \in Job : Answered(v, j)' <=> Answered(v, j)
    BY <2>1 DEF Answered, TypeOK
  <2>3. \A j \in Job : Carriers(j)' = Carriers(j)
    BY <2>1, <2>2 DEF Carriers, Carries, Holds
  <2>4. QED
    BY <2>1, <2>3 DEF DuplicateInv, Counted, Left, ClaimsDiffer
<1>6. ASSUME NEW w \in Worker, CheckRefuses(w) PROVE DuplicateInv'
  <2>1. PICK c \in batch[w] :
          \/ Settle(w, c, "CANCELLED", attempts[c.id])
          \/ Settle(w, c, "PERMANENT_FAILURE", c.att + 1)
    BY <1>6 DEF CheckRefuses
  <2>2. UNCHANGED <<sends, faults>> /\ pc[w] = "idle"
    BY <1>6 DEF CheckRefuses, historyVars
  <2>3. "CANCELLED" \notin Claimable /\ "PERMANENT_FAILURE" \notin Claimable
    BY DEF Claimable
  <2>4. QED
    BY <1>0, <2>1, <2>2, <2>3, SettleCounts
<1>7. ASSUME NEW w \in Worker, OutOfBalance(w) \/ CommitFailed(w) \/ RecordFailure(w) \/ CommitSent(w)
      PROVE  DuplicateInv'
  <2>1. cur[w] \in batch[w] /\ UNCHANGED <<sends, faults>> /\ pc[w] # "idle"
    BY <1>7 DEF TypeOK, OutOfBalance, CommitFailed, RecordFailure, CommitSent, historyVars
  <2>2. \E new, n : /\ Settle(w, cur[w], new, n) /\ new # "NONE"
                    /\ new \in Claimable => ~(pc[w] = "answered" /\ answer[w] = "ACCEPTED")
    BY <1>7 DEF OutOfBalance, CommitFailed, RecordFailure, CommitSent, FailureStatus, Claimable
  <2>3. QED
    BY <1>0, <2>1, <2>2, SettleCounts
<1>8. ASSUME NEW w \in Worker, Submit(w) PROVE DuplicateInv'
  BY <1>0, <1>8, SubmitCounts
<1>9. ASSUME NEW w \in Worker, TransactionDies(w) PROVE DuplicateInv'
  BY <1>0, <1>9, DiesCounts
<1>10. ASSUME NEW w \in Worker, RecordFailureFails(w) \/ Crash(w) PROVE DuplicateInv'
  <2>1. UNCHANGED <<status, sends, faults>>
    BY <1>10 DEF RecordFailureFails, Crash, jobVars, historyVars
  <2>2. \E claims \in SUBSET batch[w] :
          Drop(w, claims) /\ (pc[w] = "idle" \/ cur[w] \in claims)
    <3>1. pc[w] = "idle" \/ cur[w] \in batch[w]
      BY DEF TypeOK
    <3>2. CASE RecordFailureFails(w)
      BY <3>1, <3>2 DEF RecordFailureFails
    <3>3. CASE Crash(w)
      BY <3>1, <3>3 DEF Crash
    <3>4. QED
      BY <1>10, <3>2, <3>3
  <2>3. QED
    BY <1>0, <2>1, <2>2, DropCounts
<1>11. ASSUME NEW j \in Job, Retry(j) PROVE DuplicateInv'
  <2>1. UNCHANGED <<workerVars, sends>>
    BY <1>11 DEF Retry
  <2>2. \A i \in Job : /\ faults'[i] = IF i = j THEN faults[i] + 1 ELSE faults[i]
                       /\ i # j => status'[i] = status[i]
                       /\ faults[i] \in Nat
    BY <1>11 DEF Retry, TypeOK
  <2>3. \A i \in Job : /\ faults'[i] >= faults[i]
                       /\ Left(i)' => Left(i) \/ faults'[i] > faults[i]
    BY <2>2 DEF Left
  <2>4. QED
    BY <1>0, <2>1, <2>3, RowCounts
<1>12. ASSUME NEW cb \in callbacks, CallbackWrite(cb) PROVE DuplicateInv'
  <2>1. UNCHANGED <<workerVars, sends, faults>>
    BY <1>12 DEF CallbackWrite, historyVars
  <2>2. \A j \in Job : Left(j)' => Left(j)
    BY <1>12 DEF CallbackWrite, Left, Claimable, TypeOK
  <2>3. QED
    BY <1>0, <2>1, <2>2, RowCounts DEF TypeOK
<1>13. CASE UNCHANGED vars
  BY <1>1, <1>13 DEF vars, jobVars, historyVars
<1>14. ASSUME \/ \E s \in Student, to \in {"PRESENT", "ABSENT"} : EditRead(s, to)
              \/ Reopen
              \/ \E s \in Student : ToggleConsent(s)
              \/ \E p \in Policies : SetPolicy(p)
              \/ \E j \in Job : ClaimAges(j)
              \/ \E j \in Job, outcome \in {"DELIVERED", "FAILED"} : CallbackRead(j, outcome)
       PROVE  DuplicateInv'
  BY <1>1, <1>14 DEF EditRead, Reopen, ToggleConsent, SetPolicy, ClaimAges, CallbackRead,
                     jobVars, historyVars
<1>15. QED
  BY <1>2, <1>3, <1>4, <1>5, <1>6, <1>7, <1>8, <1>9, <1>10, <1>11, <1>12, <1>13, <1>14
  DEF Next, RegisterStep, WorkerStep, WorkerFault

\* No text goes out twice without a cause, however many workers claim, fail, die
\* and come back.
THEOREM DuplicateCorrect == Spec => []NoUnexplainedDuplicate
<1>1. Init => DuplicateInv
  <2> SUFFICES ASSUME Init PROVE DuplicateInv
    OBVIOUS
  <2>1. \A j \in Job : Carriers(j) = {} /\ sends[j] = 0 /\ faults[j] = 0
    BY DEF Init, Carriers, Carries, Holds
  <2>2. \A j \in Job : One(Left(j)) \in {0, 1}
    BY DEF One
  <2>3. \A j \in Job : Counted(j)
    BY <2>1, <2>2, FS_EmptySet DEF Counted
  <2>4. QED
    BY <2>3 DEF Init, DuplicateInv, ClaimsDiffer
<1>2. TypeOK /\ DuplicateInv => NoUnexplainedDuplicate
  <2> SUFFICES ASSUME TypeOK, DuplicateInv, NEW j \in Job PROVE sends[j] <= 1 + faults[j]
    BY DEF NoUnexplainedDuplicate
  <2>1. /\ Cardinality(Carriers(j)) \in Nat /\ One(Left(j)) \in Nat
        /\ sends[j] \in Nat /\ faults[j] \in Nat
        /\ sends[j] + One(Left(j)) + Cardinality(Carriers(j)) <= 1 + faults[j]
    BY FS_CardinalityType DEF DuplicateInv, Counted, One, TypeOK
  <2>2. QED
    BY <2>1
<1>3. QED
  BY <1>1, <1>2, DuplicateStep, TypeCorrect, PTL DEF Spec
=============================================================================
