# A TLA+ model of the offline QR school attendance system

This directory holds TLA+ modules for the parts of the system whose behaviour depends on the
order of events: the attendance register and its sessions, the offline outbox and its
synchronization, the absence SMS pipeline, both versions of the RFID gate, the cards and readers
it works with, the imports of students and their QR cards, the government reports and the academic
calendar. TLC checks them on small instances; TLAPS proves the safety properties of every module
for every instance. Paths are relative to the root of the repository (`src/` there is the
application's source).

## 1. Inventory

| Component | State it keeps | Operations | Hard behaviour | What makes it correct |
|---|---|---|---|---|
| Attendance register (`services/attendanceService.ts`, `routes/attendanceRoutes.ts`) | `attendance_sessions`, `attendance_session_roster`, `attendance_records`, `attendance_events` | create session, scan, manual edit, finalize, reopen | reads without locks before writes; finalization against edits; several creators of one session | a session has its roster; the event log and the register agree |
| Absence SMS (`notificationService.ts`, `notificationWorker.ts`, `notifications/absenceScheduler.ts`, `notificationRoutes.ts`, `sms-worker.ts`) | `notification_jobs`, `notification_attempts`, `segment_balance` | queue at finalization, claim, check, submit, settle, retry, callback, correction | replicas, stale claims, crashes, lost answers, callbacks in any order, a gateway call inside a transaction | no text twice without a cause, money accounted for, corrections follow texts, jobs come to rest |
| Offline outbox (`offlineSyncService.ts`, `OfflineStatusProvider.tsx`, IndexedDB) | `syncOutbox` rows | scan, flush, settle results, clear at logout | several flushes over one table, closed tabs, lost answers, retry limit | SYNCED rows are on the server; no scan becomes invisible |
| Sync endpoint (`syncService.ts`, `syncRoutes.ts`) | the transaction of a request | reconcile sessions, process each event, audit | duplicates in parallel, deadlocks, one failing statement of many | a resend changes nothing; two devices agree on one session |
| Tenant transactions (`db/index.ts`, `tenantMiddleware.ts`, `http/tenantRoute.ts`) | one transaction per request, found through an async context | begin, savepoint, commit, abort | commit after the response, commit when the connection closes, a pooled connection that outlives its transaction | what is acknowledged is committed |
| RFID gate, as shipped (`services/rfid/zebraIotConnector.ts`, `RFID_INGEST_V2` off) | debounce key in Redis, `rfid_scan_events`, sessions and records | a read: look up, debounce, find or make the session, write | overlapping deliveries, Redis missing, finalization between steps | one acceptance per cooldown; an accepted read is on the register |
| RFID gate, version 2 (`services/rfid/ingest/`) | cache of the mode, debounce keys, `rfid_scan_events`, sessions and records | a batch: load, decide, write, debounce | overlapping batches, lock order of the upserts, an event log inserted in no common order, finalization between load and write, shadow mode | a teacher's decision is final; the upserts never deadlock; a debounced card is on the register |
| RFID cards and readers (`services/rfid/credentialService.ts`, `readerService.ts`, `routes/rfidRoutes.ts`, `routes/studentRoutes.ts`, `services/privacy/consent.ts`) | `rfid_credentials`, `rfid_readers` | enrol (one, many), activate, suspend, reactivate, revoke, replace, expire, anonymize; provision a reader | check then insert without locks; the transaction of a caught error | one live card per student; an ended card stays ended |
| QR cards (`services/qrService.ts`, `routes/qrRoutes.ts`) | `qr_credentials` | issue, revoke, reissue, print a batch | reissue races | a student keeps one active card |
| Students and imports (`services/importService.ts`, `studentService.ts`, `routes/setupRoutes.ts`, `routes/studentRoutes.ts`) | `students`, `enrollments`, `import_jobs` | validate, confirm once, create, deactivate, anonymize, import a roster | single-use token without a lock, savepoint, a commit cut short, updates that may match no row | a failed import imports nobody; a completed one passes over nobody without a known cause |
| Government reports (`reportGenerationQueue.ts`, `reportArtifactService.ts`, `reportApprovalService.ts`, `routes/governmentReportRoutes.ts`) | `report_approvals`, `report_artifacts`, the in-memory queue | generate, attach artifact, approve, supersede | version is maximum + 1 without a lock; two approvals at once; a job that runs in another request's context | one approved report per period; the queue loses no slot |
| Session reconciler (`services/sessionReconciler.ts`) | none of its own | finalize stale sessions | runs outside a tenant context | it has no reachable step (below) |
| Academic calendar (`services/calendarService.ts`, `routes/calendarRoutes.ts`) | `academic_calendar_versions`, `academic_calendar_days` | edit days, make a draft, approve | edits beside approvals, two drafts, two updates of which one is cut | one approved calendar; what was approved stays |
| Academic structure, schools, devices | single rows | create, update | little interleaving | the assignment of teachers, in `Register` |
| Sessions, permissions, CSRF, limiter, metrics | auth sessions, counters | login, check, expire | little interleaving | not modelled |
| Reports, exports, analytics, user interface | none between requests | query, aggregate, render | one snapshot each | not modelled |
| Backup replication, retention, audit log, key management | uploaded objects, append-only rows, keys | upload, delete by age, encrypt | partial failure that the next night repeats | not modelled |

How they interact: browsers post scans to the sync endpoint (`/sync`) or the attendance routes;
both end in `processQRCode` and write the register. The gate writes the same register, in a
session of its own type (`GATE_ARRIVAL`) or in the daily one, and finds the student of a card in
the tables of the credentials. An edit of the register calls `onAttendanceCorrected`, a
finalization calls `createAbsenceNotificationJobs`, and both write `notification_jobs`. The worker
process polls that table, calls the gateway and writes the result; the gateway calls `/callback`.
Imports and the setup wizard make the students, enrolments and QR cards the rest relies on.
Attendance routes answer after the commit (`tenantRoute`); sync, import, report, notification and
most other routes answer before it (`requireTenant`), and that middleware also commits when the
connection closes while the handler still runs.

`PROJECT.json` lists the hazards of the code, each at its line with the properties that would
notice it going wrong.

## 2. Modules

| Module | Content |
|---|---|
| `AbsenceSms` | SMS jobs of one attendance session: register, worker replicas, gateway, callbacks, retry button |
| `OfflineSync` | the outbox of one browser, concurrent flushes, server requests and their transactions |
| `Register` | the sessions of a class on a day: who makes them, their roster, edits, closing and reopening |
| `GateWebhook` | the gate as shipped, step by step, for one card; extends `Register` |
| `GateIngest` | version 2 of the gate, in batches; extends `Register` |
| `GatePromise` | what a gate promises about the register; `GateIngest` implements it |
| `Cards` | RFID cards of students and readers of the gate |
| `Imports` | students, enrolments, QR cards and bulk imports, statement by statement |
| `GovReports` | government reports of one period: queue, connections, versions, artifacts, approval |
| `Calendar` | the calendar of a year: drafts, edits of days, approval, statement by statement |
| `MC...` | the instances of each module for TLC |
| `..._proofs` | the theorems about each module, checked by TLAPS; `Students_proofs` holds those of `Cards` and `Imports`, what students carry and how they come to it; `GateWebhook_proofs` and `GateIngest_proofs` extend `Register_proofs`, and the second shows that `GateIngest` implements `GatePromise` |

`GateWebhook` and `GateIngest` compose the gate with `Register`: its variables are theirs, a step
of the school is a step of `RegisterNext` guarded by the row locks of the gate, and the gate's
steps change the sessions and records that `Register` declares. `OfflineSync` has its own, smaller
register (one record per scan), because its subject is the transaction that carries scans, and
`AbsenceSms` its own, because its subject is what happens after a change of it.

### AbsenceSms

*State.* `session`, `version`, `record` and `edit` are the register: status and finalized version
of the session, the committed status of each record, and an edit that has read its record and not
yet written it. `status`, `attempts`, `staleClaim`, `messageId` are the columns of
`notification_jobs` the code looks at. A job is named by its unique key: one ABSENCE and one
CORRECTION row per record, and one row per finalized version for a guardian who cannot be
reached (such a row has no record id). `balance` and `balanceLock` are `segment_balance` and its
row lock. Each worker has its claimed `batch`, the claim it works on (`cur`), a phase `pc` and the
gateway's `answer`. `callbacks` are delivery callbacks that have read their job. `spent` counts
the bounded events; `sends`, `faults`, `sentLog` and `overtaken` are history.

*Actions.* `EditRead`/`EditWrite` are the two halves of a scan or manual edit, the second with
`onAttendanceCorrected`. `Finalize` is one step: `updateSessionStatus` holds the session row
that every edit references. `Claim` is the claim transaction, `CheckPasses`/`CheckRefuses` the
checks of `processClaimedJob`, `Submit` the decrement and the gateway call, `CommitSent` and
`CommitFailed` the end of the transaction, `TransactionDies`, `RecordFailure`,
`RecordFailureFails` and `Crash` the ways it goes wrong, `ClaimAges` the ten minutes after which
a claim is stale. `Retry`, `CallbackRead` and `CallbackWrite` are the routes.

*Left out.* Message text, templates, languages, phone formats and DLT rules (they decide
`policy` or that a guardian cannot be reached); times other than the stale claim (any due subset
of the eligible rows may be claimed); the claim fallback without a database URL.

### OfflineSync

*State.* `outbox` holds a row per scan (status, retry counter, whether the QR token is still
there). A flush has a phase, the `copies` of rows it selected and not yet sent, the batch it has
`sent` and the `answer` that arrived. A request has the events still `todo`, the current one, the
record it `saw`, the collected `result`s and its open transaction `tx` (events inserted, records
marked, records flagged, aborted or not). `session`, `roster`, `record`, `conflicted`,
`recorded` and `revoked` are the committed database; a scan may be of a student who is not on the
roster, since a device adds every classmate it sees to its own (`offlineSyncService.ts:183`), and a
session whose transaction was cut may have no records. `scanned`, `lost`, `torn` and `unfiled` (no
record when the session was finalized) are history.

*Actions.* `Scan`; the steps of `syncOutboxEvents` `Requeue`, `ReadPending`, `ReadFailed`, `Send`,
`Answered`; `LoseConnection`, `CloseTab` and `Logout`; for a request `Refuse` and `Admit` (the
checks of `processQRCode` in their order: known, finalized, no proof, revoked, not on the roster;
`Flags` is the flag a finalized session leaves on the record, if there is one), `ReadRecord`,
`Insert`, `Project`, `WaitFails` (deadlock or statement timeout), `Respond`, `Commit` and
`TransactionDies`; and the rest of the school: `Edit`, `SetSession`, `Revoke`. Row locks and
unique-index waits are the guards that look at the other requests' `tx`; `WaitsFor` is the wait-for
graph.

*Left out.* Device checks, clock skew, and the reuse of a pooled connection by a handler whose
transaction was already committed: its later statements are refused by row-level security, and the
model ends the request there.

### Register

*State.* `session` gives for each session type its status and the client session id it was made
with; `roster` and `record` are the rows of the roster and the register, `manual` the records
whose capture method is MANUAL. `enrolled` and `taught` are the enrolments of the class and the
assignment of its teacher. A request has its `caller` (a teacher, the poll of the gate page, or an
offline device), a `stage` and the `snapshot` of the roster it read. `answered` are the devices
that were told which session is theirs; `ruled` and `torn` are history.

*Actions.* `Ask` (first lookup; `Located` says who finds what), `InsertSession` (unique key, and
what each caller does when it finds the key taken), `ReadRoster`, `Commit`, `Cut` (the middleware
commits halfway), `Lost`; `Finalize` with or without the sweep that marks the rest ABSENT,
`Reopen`, `Edit`, `Move`, `Assign`. `SUBMITTED`, `VERIFIED` and the like differ from `OPEN` in no
guard and are `OPEN` here.

### GateWebhook

*State.* The card is active or not (`card`), its debounce key is in Redis or not (`debounce`), and
`event` is the decision logged for each passage (`tap`). A delivery has the session it found
(`place`) and what it decided to do with the record it read (`plan`). `late` and `accepted` are
history.

*Actions.* One per step of `processZebraIotWebhook`: `Receive`, `SetMark` or `NoRedis`,
`CheckRecent`, `FindSession`, `MakeSession`, `Claim` (under the lock of the credential row),
`Accept`, `MarkAgain`, `LogDuplicate`, and `Die` anywhere.

*Left out.* Authentication of the reader, parsing, freshness and signal checks, tamper and
heartbeat messages.

### GateIngest and GatePromise

*State.* `mode` and `cached` are the mode of the school and what the process remembers of it;
`marks` the debounce keys; `log` the idempotency keys in `rfid_scan_events` (a student of a card and
when it was first seen). A batch has its `reads`, the ones Redis knew (`seen`), the mode it works in
(`how`), the decision of each read so far (`decided`), whether it found a session (`needs`) or has
inserted one (`makes`), the rows it has `locked` and inserted (`fresh`), and the keys it has yet to
log, in the order of its payload (`unlogged`), and has logged.

*Actions.* `Receive`, `Load` (with `Decide`, which is `decideRead`), `EnsureSession`, `Upsert` (one
row, in the order of the students), `StartLog` and `LogRead` (one key, in the order of the payload,
waiting for a batch that has inserted it), `CommitBatch`, `MarkAndAnswer`, `Die`, `BreakDeadlock`
(PostgreSQL fails one batch of a deadlock; `WaitsFor` and `Stuck` are the wait-for graph); around
them `Expire`, `SwitchCard`, `DeclareHoliday`, `SetMode`, `Forget` and the steps of `Register`.

*Abstract specification.* `GatePromise` knows a set of places on the register and who decided
each last: nobody, the gate or staff. Its gate may mark a place nobody decided (`Arrive`) and
acknowledge a place somebody decided; staff decide at any time. `KeepsPromise` maps `GateIngest`
to it: a record whose method is MANUAL is decided by staff, a PRESENT one by the gate. So the
refinement says that no batch ever touches what staff decided, whatever order the upserts, edits,
finalizations and crashes come in, and that no acceptance is answered before the register has it.

### Cards

*State.* A card is the row of its digest: `status` and `holder`. `reader` is the status of a gate
reader, `admitted` the active students with consent. A request has its `route`, the `entries` it
has left, the rows its transaction `staged`, whether a statement aborted that transaction
(`failed`), and the card or reader it read (`target`). `overtaken`, `excused`, `erased` and
`reported` are history: who acted on what had changed, and what was answered.

*Actions.* `Enroll`, `Look`, `Insert`, `BreakDeadlock`, `Finish` for one card or many;
`ReadCard`/`Reactivate` and `ReadReader`/`Provision` in two steps each; and the requests of one
statement: `Activate`, `Suspend`, `RevokeCard`, `Expire`, `Replace`, `Erase`, `Admit`, `Register`,
`Approve`, `SuspendReader`, `RevokeReader`, `Retire`.

### Imports

*State.* `db` holds the committed rows of students, enrolments, QR cards and import jobs, `draft`
what each open transaction has written, `prog` the statements it still has to run, `doing` what it
is. `file` is the validated content of a job, `aged` the jobs an hour old. An enrolment is one of the
current academic year, so a student of an earlier year may have none (`former`). `anonymous` are the
codes anonymization has made; `twice`, `torn`, `imported`, `former` and `gone` are history.

*Actions.* Each request begins with its statements (`Validate` and `Confirm` for imports,
`CreateStudent`, `UpdateStatus`, `ImportRoster`, `Issue`, `Revoke`, `Reissue`, `PrintBatch`), each
statement is a step that waits for what another transaction has written, and the transaction ends
with `Commit`, `Cut`, `Lost` or a failing statement (`Abort`, and `Violated` for unique keys: an
import goes back to its savepoint and marks its job FAILED, any other request is undone).
`MoveEnrolment` finds no row of a student without an enrolment of the year and says nothing.
`Anonymize` gives a student a new code: statements that have found the row go on with it
(`Following`, `ById`), the others look for the old code, so an import still to come makes a second
student of it, or in UPDATE_EXISTING mode leaves the row out (`Lookup`). It is one step because the
new code takes the strongest lock of the student's row first and waits for everybody who has written
it or a row that refers to it.

*Left out.* Parsing of files, guardians, class sections, edits of names and what else of a student
anonymization clears; the change of the current year, the enrolments and class lists of earlier ones.

### GovReports

*State.* `status`, `version` and `artifact` are the rows of a report; `pc` says where its request
and job are; `conn` and `holder` relate requests to the connections of the pool, `pending` and
`broken` are the open transactions. `queue` and `running` are the queue, `home` the connection a
job sends its statements to. `reviewing` and `seen` are approvals under way. `crossed`, `raced`
and `astray` are history.

*Actions.* `Generate` (refused when the queue is full), `ReadVersion`, `WriteRow` (draft, artifact,
ready for review), `Fail`, `Answer`, `Cut`, `TimeOut`, the requests of other schools `Visit` and
`Depart`, `Review` and `Approve`. `Drain` starts the next job in the async context of the one whose
end freed the slot, which is what the code does.

*Left out.* The download counter, profiles, and the collection and rendering of the data.

### Calendar

*State.* `status` and `days` are the rows of the versions of one year and of their days (a day
matters only as exact or approximate). A request has the entries it has left (`todo`), the version
it works on (`target`), the version its transaction `made`, the days it `wrote`, and for an
approval the approved versions it `found` and superseded (`gone`). `late`, `doubled`, `crossed` and
`torn` are history.

*Actions.* An edit of a list of days (one, a range or the template) repeats `Look` (which draft?),
`Number` and `InsertDraft` if there is none, and `WriteDay`. An approval is `LockAndCount`, `Find`
and `Supersede` (the update of the approved version, which sees it, waits and looks again) and
`Promote`. `Commit`, `Cut` and `Lost` end either. The unique number of a version, the partial
unique index over the approved ones and the key locks of new days are the guards.

*Left out.* The names and reasons of days, and the queries that read them.

## 3. What the runs show

| Run | Properties | Instance | States |
|---|---|---|---|
| `race` | `TypeOK`, `BalanceAccounted`, `NoUnexplainedDuplicate`, `CorrectionFollowsAbsence`, `OnlyOvertakenMisinform` | one student, two workers, two finalizations, two edits, two faults, balance 2 | 2.4 M |
| `settle` | `UnreachableNeverTexted`, `JobsSettle` (liveness) | two students, one without a reachable guardian, two workers, one fault, one retry, one change of settings, one finalization | 91 k |
| `flush` | `TypeOK`, `SyncedIsRecorded`, `ConflictIsFlagged`, `LogIsProjected`, `ResendIsHarmless` | two scans, of students on the roster or not, with or without records, one flush, two requests, three attempts, two faults, one edit, one finalization, reopening or revocation | 5.7 M |
| `outbox` | `SyncedIsRecorded`, `RowsSettle` (liveness) | one scan, with or without a record, two flushes, two requests, two attempts, two faults, one logout | 783 k |
| `invisible` | `NeverInvisible` is violated | as `outbox`, for a student with a record and without the logout | |
| `devices` | `RosterUnlessTorn`, `DevicesReconcile` (liveness) | two students, two devices, two requests at a time, one teacher's request, one edit, two closings, one move, one fault | 59 k |
| `taps` | `AcceptedOnce`, `AcceptedIsOnRegister`, `FinalizedUnlessOvertaken` | one card, two passages, two deliveries at a time, three sent, one of each disturbance | 1.2 M |
| `batches` | `IngestTypeOK`, `DeadlocksOnlyAtLog`, `DebouncedIsPresent`, `FinalizedUnlessOvertaken`, `KeepsPromise` (refinement) | two students, one of whose cards is read at two moments, two batches of one or two reads in any order, one of each disturbance | 2.2 M |
| `cards` | `OneLiveCard`, `ErasedHasNoCard`, `EndedStaysEnded` | two students, three cards, one reader, two requests, three changes, one fault | 170 k |
| `reports` | `TypeOK`, `ReviewedHasArtifact`, `OneApproved`, `VersionsDiffer`, `WaitingStarts` (liveness) | three reports, one visitor, two connections, one slot, one queue place, one fault | 1.5 M |
| `imports` | `FailedImportsNobody`, `CompletedIsImported`, `CardIsReplaced` | two student codes, at most one of them there before, enrolled this year or not, two seats, two jobs, two requests at a time, four in all (anonymizations included, and only files after the third), one fault | 2.1 M |
| `calendar` | `TypeOK`, `ApprovedIsConfirmed`, `CalendarStands`, `DraftIsNewest`, `ApprovedIsFrozen` | two days, three versions, two requests at a time, four in all, one fault | 1.9 M |

Each property of a passing run has a mutant of a mapped definition (`PROJECT.json`, `mutants`; the
operators commented "Mutant of ...") that breaks it. The type invariants of `Register`,
`GateWebhook`, `Cards` and `Imports` and `StudentIsEnrolled` of `Imports` also hold in these
instances, with `RegisterTypeOK` a part of `IngestTypeOK`; the runs leave them out in favour of
the deeper ones, and adding them to the cfg checks them. All of them are theorems as well
(section 4).

*Exceptions.* Many properties hold "unless": a commit that fails after its response (`lost`), a
connection closed between two writes (`torn`), a check overtaken by another's write (`late`,
`overtaken`, `crossed`, `raced`, `twice`), a row that was not there to be changed (`unfiled`: no
record to flag; `former`: no enrolment of the year to move) or a student anonymized before the
import wrote the row (`gone`). Each exception is a history variable set where the code's window is,
and each is needed: without it TLC finds the case. So such a property says that the window is the
only way to the bad state.

*Bounds and why they are enough.* The hazards are pairwise: two owners of one job, two carriers of
one scan, a reader and a writer of one record, two writers of one row. Two workers, flushes,
requests, deliveries or batches make every pair; a third adds no new pair (the queue of `reports`
has three jobs, so that one runs, one waits and one is refused). Two scans or students are needed
where locks are taken in an order (`flush`, `batches`); jobs of different students share nothing but
the balance, and two units with two workers make the last one contested. `flush` has one flush,
which loses its answer and resends while its first request still runs, and `outbox` the two flushes
with copies of one row, because two flushes of two scans with faults are more than 16 million
states. `flush` has no logout, which `outbox` has: a logout only meets the flushes of its own
browser. A payload of `batches` is any order of one read of each card, so two batches can log two
common keys in opposite orders, the case that deadlocks; the second read of one card makes batches
that share a student and no key of the log. An anonymization, an import and a second request beside
it fit into four requests (`MaxStaff` keeps the last for a file). Retry limits are 2 or 3 instead of
3 and 5, so that they are reached. All bounds are constants whose names start with `Max` and end a
run's behaviours, so the cfg files switch the deadlock check off: the system may really stop once
everything is settled. That transactions do not wait for each other for ever is left to PostgreSQL's
deadlock detection, which is an action; where the code orders its locks, `DeadlocksOnlyAtLog` says
that the order does what it is for. Interchangeable values are symmetry sets, except in runs with a
liveness property.

*Fairness.* Only weak fairness is used. `AbsenceSms`: the worker process polls for ever and is
restarted by its container, and time passes (`sms-worker.ts:27-81`); neither edits, clicks,
callbacks nor faults have to happen. `OfflineSync`: while the outbox is not empty the provider
starts another flush (`OfflineStatusProvider.tsx:77-91`), a started flush and a started request go
on; a request that waits is ended by PostgreSQL's deadlock detection or by the other's end.
`Register`: an offline device sends again until it is answered, for the same reason, and a started
request goes on; `DevicesReconcile` assumes that the class has a teacher from some time on.
`GovReports`: a started job runs to its end, with or without success; no request has to come.

### A disagreement with a comment of the code

The run `invisible` refutes `NeverInvisible`, the comment at `offlineSyncService.ts:332`: "Requeue it
before selecting work so those events cannot become permanently invisible". One flush uses up the
retries of a row while another holds an older copy of it; the other marks it SYNCING, its tab
closes, and the next flush makes it FAILED with its retries used up. The filter at line 357
skips it from then on, and it is not shown as failed for good either. `RowsSettle` says that this
is the only way for a row to be left behind.

### Claims of the documents that the code does not keep

These are defined beside the properties and have no run of their own. Added as a PROPERTY (those
with `[][...]`) or an INVARIANT to the named cfg, TLC refutes each.

| Definition | cfg | Claim | What happens |
|---|---|---|---|
| `AcknowledgedIsRecorded` | `OfflineSync_flush` | ADR-002-offline-sync-strategy.md:18 | `tenantMiddleware.ts:62`: ACCEPTED is sent before the commit; a commit that fails loses the scan |
| `FinalizedIsPreserved` | `OfflineSync_flush` | offline-mode.md:142 | `attendanceService.ts:557`: a scan checked before a finalization and written after it overwrites an override |
| `AlwaysProjected` | `OfflineSync_flush` | offline-mode.md:119, `attendanceService.ts:535` | `tenantMiddleware.ts:63`: a closed connection commits an event without its projection; the resend answers ALREADY_PROCESSED |
| `ConflictAlwaysFlagged` | `OfflineSync_flush` | offline-mode.md:143 | `syncService.ts:361`: `has_conflict` is set only if there is a record; `attendanceService.ts:423` refuses the scan before it looks at roster and record |
| `AbsentIsQueued` | `AbsenceSms_race` | STATUS.md:21 | `notificationService.ts:404`: a cancelled job blocks the job of the next finalization |
| `RetriedIsClaimable` | `AbsenceSms_race` with `MaxClicks = 1` | `notificationRoutes.ts:273` | line 289: the retry button uses up an attempt; an exhausted job stays queued for ever |
| `DeliveredIsCorrected` | `AbsenceSms_race` | `absenceScheduler.ts` | only SENT is looked for: once a text is DELIVERED, correcting the register sends no correction |
| `ManualSurvives` | `GateWebhook_taps` | `zebraIotConnector.ts:758`, "NEVER overwrite teacher's manual decision" | line 761 writes by id what it decided from an earlier read |
| `BatchesNeverDeadlock` | `GateIngest_batches` | `ingest/write.ts:94`, "no deadlocks" | `write.ts:191-214`: the event log is inserted in the order of each payload under a unique key, and waits for a key another batch has inserted |
| `ReportedIsEnrolled` | `Cards_life` | the result list of bulk enrolment | entries are reported as enrolled and then rolled back with the rest |
| `TenantQueries` | `GovReports_queue` | rbac.md:20 | `reportGenerationQueue.ts`: a queued job runs in the async context of the job before it |
| `SupersededByNewer` | `GovReports_queue` | reports.md:72 | approving an older version supersedes a newer one |
| `NoApproximateApproved` | `Calendar_versions` | academic-calendar.md:37 | an edit that overlaps an approval adds an approximate day to the approved version |
| `DraftIsSilent` | `Calendar_versions` | academic-calendar.md:18 | `loadContext.ts:16`: the gate takes the row of any version, drafts included |

Read off the code, without a definition:

- A text in flight during a correction is neither cancelled nor corrected (`absenceScheduler.ts:59`,
  `:79`); `OnlyOvertakenMisinform` bounds the case.
- A scan that meets a finalized session is flagged, if its student has a record, but not kept in the
  event log (`attendanceService.ts:424` against ADR-002:19); logging out deletes unsent scans
  (`offlineSyncService.ts:282` against offline-mode.md:161); after five failed attempts, lost
  connections included, a scan is never sent again (`offlineSyncService.ts:299` against ADR-002:11);
  a device's session of a teacher who is no longer assigned is refused until the assignment returns
  (`syncService.ts:192-199`).
- A GATE_ARRIVAL session has no roster, so its finalization marks nobody ABSENT and queues no text
  (STATUS.md:21, reader-onboarding.md:78). Version 2 records in GATE_ARRIVAL where decisions.md:16
  speaks of the section's daily session; the sweep of the daily session marks such a student ABSENT.
- Both gates can write into a session finalized after they looked (decisions.md:29); this is the
  exception of both `FinalizedUnlessOvertaken`, which are about the gates only: for scans the case is
  `FinalizedIsPreserved`.
- The shipped gate sets its debounce key before the read is accepted: a read that is then refused
  makes the next ones DUPLICATE without a presence (reader-onboarding.md:86).
- Version 2 looks cards up by a digest salted with the school, while enrolment stores unsalted ones.
  configuration.md:46 gives RFID_INGEST_V2 the default `true`, `env.ts:31` 'false';
  configuration.md:103-104 give the report queue 2 and 10, the code 1 and 8.
- No route can reopen a session, although the service and its tests support REOPENED: the models
  keep `Reopen`.
- Two live cards of a student arise from concurrent enrolments, from suspend, enrol, reactivate, and
  from replacing a card that had ended (`excused` in `Cards`); provisioning revives a reader revoked
  meanwhile; a suspended reader can never resume.
- With two slots, as configuration.md:103 and `.env.example:278` give the report queue, a request
  that was cut leaves its job on a connection that the pool may give to the next request: the two
  jobs then number their drafts before either inserts, and one commit stores two drafts of one
  version (`raced` in `GovReports`; the run `reports` has the default one slot, the theorem any
  number).
- A failed report job leaves a VALIDATED draft; concurrent approvals leave two approved versions.
- The import lock (`importService.ts:194-196`) excludes nobody: PROCESSING is visible to others only
  after a cut. One token can be confirmed twice at once ("Invalidate single-use token", :606). A
  reactivated student has no active enrolment, and an ended enrolment still blocks its roll number.
- An import places a known student only by an enrolment of the current year: the update of another
  matches no row, and the job is COMPLETED (`importService.ts:713-718`, `:759-765`). An import that
  found a student before an anonymization writes the name back, by id (`:691-703`); an anonymized
  student keeps the QR card and the active enrolment (`studentRoutes.ts:303-321`).
- The retry in `draftVersion` runs in an aborted transaction, so an edit that loses the race for the
  draft fails as a whole; a new draft starts empty, so approving it drops the old holidays.
- The session reconciler selects its sessions outside a tenant context, where row-level security
  shows it none, and looks for statuses no route sets.

## 4. What is proved

The modules `..._proofs` hold 40 theorems, for any sets of students, scans, cards, reports, days,
workers, flushes, requests, deliveries and batches and for any value of the bounds. What TLC found
to hold in one instance they show for all. Every safety property of section 3 is among them. Each
theorem follows one line of argument: a property is seldom kept by a step on its own, so the module
states an inductive invariant which says what each process holds at each place of its code; the
initial states have it, each action keeps it, and it implies the property. Each inductive invariant
was first an invariant of a TLC run.

| Module | Theorem | States | Inductive invariant |
|---|---|---|---|
| `AbsenceSms_proofs` | `TypeCorrect` | `[]TypeOK` | itself; what matters is that the claim of a busy worker belongs to its batch |
| | `MoneyCorrect` | `[]BalanceAccounted` | `MoneyInv` |
| | `CorrectionCorrect` | `[]CorrectionFollowsAbsence` | `CorrectionInv` |
| | `ReachCorrect` | `[]UnreachableNeverTexted` | `CheckedReachable` |
| | `MisinformCorrect` | `[]OnlyOvertakenMisinform` | itself with `TypeOK` |
| | `DuplicateCorrect` | `[]NoUnexplainedDuplicate` | `DuplicateInv` |
| `OfflineSync_proofs` | `TypeCorrect` | `[]TypeOK` | `SyncInv` |
| | `SyncedIsRecordedCorrect` | `[]SyncedIsRecorded` | `SyncInv` |
| | `ConflictIsFlaggedCorrect` | `[]ConflictIsFlagged` | `SyncInv` |
| | `LogIsProjectedCorrect` | `[]LogIsProjected` | `SyncInv` |
| | `ResendIsHarmlessCorrect` | `ResendIsHarmless` (action) | `SyncInv` |
| `Register_proofs` | `RegisterTypeCorrect` | `[]RegisterTypeOK` | itself |
| | `RosterCorrect` | `[]RosterUnlessTorn` | `RosterInv` |
| `GateWebhook_proofs` | `GateTypeCorrect` | `[]GateTypeOK` | itself |
| | `AcceptedOnceCorrect` | `[]AcceptedOnce` | `WebhookInv` |
| | `AcceptedIsOnRegisterCorrect` | `[]AcceptedIsOnRegister` | `WebhookInv` |
| | `FinalizedCorrect` | `FinalizedUnlessOvertaken` (action) | `WebhookInv` |
| `GateIngest_proofs` | `IngestTypeCorrect` | `[]IngestTypeOK` | itself |
| | `UpsertsNeverDeadlock` | `[]DeadlocksOnlyAtLog` | `LocksInOrder` |
| | `DebouncedCorrect` | `[]DebouncedIsPresent` | `RowsAreDecided` |
| | `FinalizedCorrect` | `FinalizedUnlessOvertaken` (action) | `OvertakenIsLate` |
| | `PromiseKept` | `KeepsPromise` (refinement) | `IngestInv` |
| `Students_proofs` (`Cards`) | `TypeCorrect` | `[]TypeOK` | `TypeOK` with `FlowHolds` |
| | `OneLiveCardCorrect` | `[]OneLiveCard` | `CardsInv` |
| | `ErasedHasNoCardCorrect` | `[]ErasedHasNoCard` | `CardsInv` |
| | `EndedStaysEndedCorrect` | `EndedStaysEnded` (action) | `CardsInv` |
| `Students_proofs` (`Imports`) | `ImportsTypeCorrect` | `[]ImportsTypeOK`, no roll number twice | `ImportsInv` |
| | `FailedImportsNobodyHolds` | `[]FailedImportsNobody` | `ImportsInv` |
| | `StudentIsEnrolledHolds` | `[]StudentIsEnrolled` | `ImportsInv` |
| | `CompletedIsImportedHolds` | `CompletedIsImported` (action) | `ImportsInv` |
| | `CardIsReplacedHolds` | `CardIsReplaced` (action) | `ImportsInv` |
| `Calendar_proofs` | `TypeCorrect` | `[]TypeOK` | `CalendarInv` |
| | `ApprovedIsConfirmedCorrect` | `[]ApprovedIsConfirmed` | `CalendarInv` |
| | `ApprovedIsFrozenCorrect` | `ApprovedIsFrozen` (action) | `CalendarInv` |
| | `CalendarStandsCorrect` | `[]CalendarStands` | `CalendarInv` |
| | `DraftIsNewestCorrect` | `[]DraftIsNewest` | `CalendarInv` |
| `GovReports_proofs` | `TypeCorrect` | `[]TypeOK` | `ReportsInv` |
| | `ReviewedHasArtifactCorrect` | `[]ReviewedHasArtifact` | `ReportsInv` |
| | `OneApprovedCorrect` | `[]OneApproved` | `ReportsInv` |
| | `VersionsDifferCorrect` | `[]VersionsDiffer` | `ReportsInv` |

### The invariants, and why they are needed

*AbsenceSms.* `MoneyInv`: a worker with an answer holds the balance row and found a unit in it;
without it `CommitSent` could go below zero. `CorrectionInv`: a row that is SENT or DELIVERED, has a
message id or a callback, or whose worker has an accepting answer, was submitted (`Told`), and work
exists only for rows that exist (`Exists`). `CheckedReachable`: a worker past its checks never holds
a row of an unreachable guardian. `DuplicateInv` counts the texts that can still be sent: a worker
that has a claim of a job it has not submitted (`Carriers`) and a row that can still be claimed
(`Left`) are one text each, and with what was submitted they are at most one more than the events
that can repeat a text. A claim turns a row that is left into a carrier, a submission a carrier into
a text; only those events add to the sum, so the bound holds for any number of workers, which are
counted with the theorems about finite sets.

*OfflineSync.* `SyncInv` follows a scan through its copies. A request works on an event that is on
its list and has no result yet (`LoopHolds`); what it has inserted nobody else has, and it has marked
the student of it or found the mark (`WorkHolds`, `Apart`); what it answered as a success or a
conflict is in the database or in a transaction that is about to end (`AnswersHold`), and so is what
a flush has written into the outbox (`OutboxHolds`). A batch that aborts is answered with failures
only, so its rolled back events are nobody's successes. A student without a record while the session
is finalized is remembered (`UnfiledHolds`), so a conflict that flags nothing is an excepted one.

*Register.* A request that goes from reading its class to inserting the roster has read somebody
(`SnapshotsAreRead`), so only a cut leaves a session without a roster. A class keeps a student at any
time: an empty one has an empty roster, of which the property says nothing.

*GateWebhook.* `ClaimsHold`: a delivery that holds the row of the credential has no accepted read
within the cooldown, and its plan for the record still fits the record unless staff changed it.
`OvertakenIsLate`: a delivery about to write into a finalized session has been overtaken.
*GateIngest.* A batch locks in the order of the students (`LocksInOrder`), so the row that one batch
waits for comes before the next row of the batch that has it. Of a finite group of batches without
one at the event log, one has the last such row (`HighestRank`), and it waits for nobody of the
group: so a group that is deadlocked has a batch at the log (`SomeAtLog`). A batch there waits only
for a batch there, so those of the group that are at the log are deadlocked by themselves: no cycle
needs the upserts, of any number of batches, where the run has only cycles of two. `RowsAreDecided`
relates each locked row to what the upsert found, `MarksAreDecided` the marks to who made them.
`PromiseKept` maps each step to a step of `GatePromise` or a stutter: the commit of a batch is
`Arrive`, its answer `Acknowledge`, what staff decide `Decide`, and all other steps stutter.

*Cards.* `FlowHolds`: what a request is about to write it has checked, and the entries it staged
differ in card and student. `CardsHold`: a student without an excuse has one live card, and none
while an enrolment that nobody overtook is about to give one.

*Imports.* A request carries the statements it has left, so `ImportsInv` says of such a list,
whatever its length, what it relies on and what its transaction wrote before. A confirmation is
`Staged`, `Underway` or `Settled`: its job is marked PROCESSING before the first row and COMPLETED
after the last, and an import that fails keeps nothing but the row of its job (`PhaseFits`). Each
statement that is left finds what it needs, a student that is not there yet or one that an earlier
statement made (`TasksFit`); a student a transaction made is placed by it or by a statement it has
left (`DraftFits`); each row of the file is in its place, still awaits the statement that puts it
there, or was passed over for one of the causes of the property (`RowsDone`, `Passed`); a card that
was taken back by anything but a revocation has a later statement that issues the next one
(`QrFits`). No two transactions write one row (`Disjoint`), and in what each of them sees no roll
number is held twice (`SeatsFit`). What a statement does comes down to two cases, it is replaced by
others or it writes one row (`StatementCases`), and each part of the invariant is shown for these
two, for the commit, and for the start of each request. An anonymization is none of these: it
renames a student in the rows and in the statements of all requests at once, so each part is carried
over along that renaming (`Renames`, `AnonymizeShape`, `FollowingShape`).

*Calendar.* `Own` and `Apart` say what a transaction holds at each of its statements and that no
two hold the same; `Alert` that requests which found no draft find none until one of them has made
it; `DaysHold` that nobody edits a version that is or will be approved; `VersionsHold` that versions
are numbered without a gap.

*GovReports.* `QueueHolds` (the queue has the waiting jobs, a slot is busy for each job that runs),
`PoolHolds` (who has which connection), `WritesHold` (what a transaction has written of a report, in
the order of the job), `ArtifactsHold`, `VersionsHold` (a report that did not race has a number above
all stored ones), `ApprovalsHold`. The theorems hold for any number of slots, so for the two that
configuration.md:103 gives.

### Assumptions

The named assumption of each module, which TLC evaluates in its runs: bounds are natural numbers;
sizes of batches, pools and queues and the numbers of attempts are at least one; the set of days is
finite, and so is the set of student codes, no other set has to be; no seat is the one of students
without a place, and no import job is named like another kind of request; the names of nobody, of
the staff and of the gate page are not names of anybody else; students of the gate are numbers,
because their ids are ordered, and a read is a student and a moment; a class is not empty.

### Only model-checked

- The liveness properties `JobsSettle`, `RowsSettle`, `DevicesReconcile` and `WaitingStarts`, which
  rest on fairness: the provers cannot reason about when an action is enabled.
- The violated claim `NeverInvisible`, and the claims of section 3 that TLC refutes.

## 5. Not modelled, and why

- Queries, aggregation and rendering of reports, dashboards and exports, and the user interface
  (most of the lines of the repository): functions of one snapshot of the tables or of component
  state, where a model would repeat the code and no order of events matters. This is why the modules
  stand for a tenth of the implementation and not for a third of it.
- Parsing, cryptography, templates, phone formats, translation: functions of their input.
- Authentication, permissions, rate limits, metrics: checks of single requests.
- Backup replication, retention, audit log: one write or deletion at a time that the next run
  repeats.
- The session reconciler: it has no reachable step (section 3).
- Rows that are only created, read and updated one at a time: schools, classes, guardians, devices.

## 6. Plan

The modules above are the ones planned, and their safety properties are proved. What could follow:

1. A register with several sections, so that one child can be in the sessions of two classes.
2. The transfer of a pooled connection between requests as a module of its own, which `OfflineSync`,
   `GovReports` and `Calendar` would instantiate instead of stating it each.
