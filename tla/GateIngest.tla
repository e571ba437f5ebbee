----------------------------- MODULE GateIngest -----------------------------
(***************************************************************************)
(* The second version of the gate (processZebraBatch, RFID_INGEST_V2 on):  *)
(* a batch of reads is loaded, decided and written in one transaction, and *)
(* its accepted cards are debounced after the commit. Batches run at the   *)
(* same time, beside the register of the class. Each student has one card; *)
(* a read is named by its student and the moment it was first seen, as its  *)
(* idempotency key is. Students are numbered in the order of their ids.    *)
(***************************************************************************)
EXTENDS Register, Sequences

CONSTANTS
  Batch,    \* batches the server works on at a time
  Key,      \* the reads to report: the student of a card and when it was first seen
  MaxReads, \* bound: reads of a batch
  MaxSends  \* bound: batches, repeated ones included

ASSUME IngestAssumption ==
  /\ Student \subseteq Nat /\ Key \subseteq Student \X Nat
  /\ {MaxReads, MaxSends} \subseteq Nat

Gate  == "GATE_ARRIVAL"
Mode  == {"SHADOW", "LIVE"}
Unset == "unset"
Decision == {"ACCEPTED", "ALREADY_PRESENT", "DUPLICATE_DEBOUNCED", "SUSPENDED_CARD",
             "NOT_ENROLLED", "SCHOOL_CLOSED", "SESSION_FINALIZED",
             "NO_TEACHER_ASSIGNED", "MANUAL_OVERRIDE_PRESERVED"}
Accepted == {"ACCEPTED", "ALREADY_PRESENT"}

\* The reads of a batch in the order of its payload, one of each card.
Payload ==
  {p \in UNION {[1..n -> Key] : n \in 1..MaxReads} :
     \A i, j \in DOMAIN p : p[i][1] = p[j][1] => i = j}

VARIABLES
  carded,   \* students whose card is ACTIVE
  open,     \* the calendar has the day as a school day
  marks,    \* debounce keys in Redis, by student
  mode, cached, \* schools.rfid_mode, and what the process remembers of it
  log,      \* the keys in rfid_scan_events
  pc, reads, seen, how, \* the batches; reads: the students whose cards it read;
                        \* seen: those debounced; how: its mode
  decided,  \* the decision of each read so far
  needs,    \* batches that found no session
  makes,    \* batches whose open transaction inserted the session
  locked, fresh, \* the rows a batch has locked, and those it inserted
  unlogged, logged, \* the keys a batch has yet to log, in order, and those it logged
  late,     \* history: batches overtaken by a finalization since they looked
  acked,    \* history: students whose read was answered as accepted in LIVE mode
  shadowed  \* history: students marked by a batch in SHADOW mode

batchVars  == <<pc, reads, seen, how, decided, needs, makes, locked, fresh,
                unlogged, logged>>
ingestVars == <<carded, open, marks, mode, cached, log, batchVars, late, acked, shadowed>>
vars       == <<registerVars, ingestVars>>

None == [s \in Student |-> "none"]

\* A batch for classmates may have made the session of the gate before.
Init ==
  /\ \E made \in {"NONE", "OPEN"} :
       RegisterStart([t \in Type |-> IF t = Gate THEN [NoSession EXCEPT !.status = made]
                                    ELSE NoSession])
  /\ carded = Student /\ open = TRUE /\ marks = {}
  /\ mode \in Mode /\ cached = Unset /\ log = {}
  /\ pc = [b \in Batch |-> "idle"]
  /\ reads = [b \in Batch |-> {}]
  /\ seen = [b \in Batch |-> {}]
  /\ how = [b \in Batch |-> "SHADOW"]
  /\ decided = [b \in Batch |-> None]
  /\ needs = {} /\ makes = {}
  /\ locked = [b \in Batch |-> {}]
  /\ fresh = [b \in Batch |-> {}]
  /\ unlogged = [b \in Batch |-> <<>>]
  /\ logged = [b \in Batch |-> {}]
  /\ late = {} /\ acked = {} /\ shadowed = {}

GoTo(b, step) == pc' = [pc EXCEPT ![b] = step]
With(b, d) == {s \in reads[b] : decided[b][s] \in d}

Leave(b) ==
  /\ GoTo(b, "idle")
  /\ reads' = [reads EXCEPT ![b] = {}]
  /\ seen' = [seen EXCEPT ![b] = {}]
  /\ how' = [how EXCEPT ![b] = "SHADOW"]
  /\ decided' = [decided EXCEPT ![b] = None]
  /\ needs' = needs \ {b} /\ makes' = makes \ {b} /\ late' = late \ {b}
  /\ locked' = [locked EXCEPT ![b] = {}]
  /\ fresh' = [fresh EXCEPT ![b] = {}]
  /\ unlogged' = [unlogged EXCEPT ![b] = <<>>]
  /\ logged' = [logged EXCEPT ![b] = {}]

-----------------------------------------------------------------------------
(* One batch, step by step *)

\* The mode is read at most once a minute; Redis may not answer.
Receive(b, payload) ==
  /\ pc[b] = "idle"
  /\ Use("sends", MaxSends)
  /\ cached' = IF cached = Unset THEN mode ELSE cached
  /\ how' = [how EXCEPT ![b] = cached']
  /\ reads' = [reads EXCEPT ![b] = {payload[i][1] : i \in DOMAIN payload}]
  /\ unlogged' = [unlogged EXCEPT ![b] = payload]
  /\ \E known \in {reads'[b] \cap marks, {}} : seen' = [seen EXCEPT ![b] = known]
  /\ GoTo(b, "received")
  /\ UNCHANGED <<carded, open, marks, mode, log, decided, needs, makes, locked, fresh,
                 logged, late, acked, shadowed>>

\* decideRead, for reads whose time is right.
Decide(b, s) ==
  IF s \in seen[b] THEN "DUPLICATE_DEBOUNCED"
  ELSE IF s \notin carded THEN "SUSPENDED_CARD"
  ELSE IF s \notin enrolled THEN "NOT_ENROLLED"
  ELSE IF ~open THEN "SCHOOL_CLOSED"
  ELSE IF session[Gate].status = "FINALIZED" THEN "SESSION_FINALIZED"
  ELSE IF ~Exists(Gate) /\ ~taught THEN "NO_TEACHER_ASSIGNED"
  ELSE "ACCEPTED"

\* In SHADOW mode the decisions are logged and nothing else.
Load(b) ==
  /\ pc[b] = "received"
  /\ decided' = [decided EXCEPT ![b] =
       [s \in Student |-> IF s \in reads[b] THEN Decide(b, s) ELSE "none"]]
  /\ IF how[b] = "SHADOW" THEN GoTo(b, "logging") /\ UNCHANGED needs
     ELSE /\ GoTo(b, "loaded")
          /\ needs' = IF Exists(Gate) THEN needs ELSE needs \cup {b}
  /\ UNCHANGED <<carded, open, marks, mode, cached, log, reads, seen, how, makes, locked,
                 fresh, unlogged, logged, late, acked, shadowed>>

\* Mutant of Downgrade: a session finalized meanwhile is used all the same.
X_KeepAccepted(b) == decided' = decided
Downgrade(b) ==
  decided' = [decided EXCEPT ![b] =
    [s \in Student |-> IF s \in With(b, {"ACCEPTED"}) THEN "SESSION_FINALIZED" ELSE @[s]]]

\* The session is inserted unless it is there, waiting for a batch that has
\* inserted it; a session found by now is looked at once more.
EnsureSession(b) ==
  /\ pc[b] = "loaded"
  /\ GoTo(b, "writing")
  /\ IF b \notin needs \/ With(b, {"ACCEPTED"}) = {}
     THEN UNCHANGED <<makes, decided, late>>
     ELSE /\ makes = {}
          /\ late' = late \ {b}
          /\ IF ~Exists(Gate) THEN makes' = makes \cup {b} /\ UNCHANGED decided
             ELSE /\ UNCHANGED makes
                  /\ IF session[Gate].status = "FINALIZED" THEN Downgrade(b)
                                                         ELSE UNCHANGED decided
  /\ UNCHANGED <<carded, open, marks, mode, cached, log, reads, seen, how, needs, locked,
                 fresh, unlogged, logged, acked, shadowed>>

Todo(b) == With(b, {"ACCEPTED"}) \ locked[b]

\* Mutant of NextRow: rows are upserted in the order of the batch.
X_AnyOrder(b) == Todo(b)

\* The rows are upserted in the order of their keys.
NextRow(b) == {s \in Todo(b) : \A q \in Todo(b) : s <= q}

\* Mutant of Upserted: a manual record is updated as any other.
X_OverManual(s) ==
  IF record[Gate][s] = "none" \/ <<Gate, s>> \in manual THEN "ACCEPTED" ELSE "ALREADY_PRESENT"

\* What the upsert finds: no row, a row that is not manual, or a manual one.
Upserted(s) ==
  IF record[Gate][s] = "none" THEN "ACCEPTED"
  ELSE IF <<Gate, s>> \in manual THEN "MANUAL_OVERRIDE_PRESERVED" ELSE "ALREADY_PRESENT"

\* Mutant of Unlocked: a row another batch writes is not waited for.
X_NoRowLock(s) == TRUE
Unlocked(s) == \A b \in Batch : s \notin locked[b]

\* A row another batch has locked must be waited for.
Upsert(b, s) ==
  /\ pc[b] = "writing"
  /\ s \in NextRow(b)
  /\ Unlocked(s)
  /\ locked' = [locked EXCEPT ![b] = @ \cup {s}]
  /\ decided' = [decided EXCEPT ![b][s] = Upserted(s)]
  /\ fresh' = IF Upserted(s) = "ACCEPTED" THEN [fresh EXCEPT ![b] = @ \cup {s}] ELSE fresh
  /\ UNCHANGED <<carded, open, marks, mode, cached, log, pc, reads, seen, how, needs, makes,
                 unlogged, logged, late, acked, shadowed>>

\* The rows are written, and their references to the session checked.
StartLog(b) ==
  /\ pc[b] = "writing" /\ Todo(b) = {}
  /\ GoTo(b, "logging")
  /\ UNCHANGED <<carded, open, marks, mode, cached, log, reads, seen, how, decided, needs,
                 makes, locked, fresh, unlogged, logged, late, acked, shadowed>>

\* The batch is to insert the first of these keys into the log next; duplicates
\* are not logged.
AtLog(b, key) ==
  /\ pc[b] = "logging" /\ unlogged[b] # <<>>
  /\ key = Head(unlogged[b]) /\ decided[b][key[1]] # "DUPLICATE_DEBOUNCED"

\* The events are inserted in the order of the payload. A key that is there is
\* left alone; one that another batch has inserted must be waited for.
LogRead(b) ==
  /\ pc[b] = "logging" /\ unlogged[b] # <<>>
  /\ \A c \in Batch \ {b} : \A key \in logged[c] : ~AtLog(b, key)
  /\ logged' = [logged EXCEPT ![b] = @ \cup {key \in Key \ log : AtLog(b, key)}]
  /\ unlogged' = [unlogged EXCEPT ![b] = Tail(@)]
  /\ UNCHANGED <<carded, open, marks, mode, cached, log, pc, reads, seen, how, decided, needs,
                 makes, locked, fresh, late, acked, shadowed>>

CommitBatch(b) ==
  /\ pc[b] = "logging" /\ unlogged[b] = <<>>
  /\ session' = IF b \in makes THEN [session EXCEPT ![Gate].status = "OPEN"] ELSE session
  /\ record' = [record EXCEPT ![Gate] =
       [s \in Student |-> IF s \in fresh[b] THEN "PRESENT" ELSE @[s]]]
  /\ manual' = manual \ ({Gate} \X fresh[b])
  /\ log' = log \cup logged[b]
  /\ logged' = [logged EXCEPT ![b] = {}]
  /\ GoTo(b, "committed")
  /\ makes' = makes \ {b}
  /\ locked' = [locked EXCEPT ![b] = {}]
  /\ fresh' = [fresh EXCEPT ![b] = {}]
  /\ UNCHANGED <<carded, open, marks, mode, cached, reads, seen, how, decided, needs,
                 unlogged, late, acked, shadowed>>

\* Mutant of Debounced: whatever was read is debounced.
X_EveryRead(b) == reads[b]
Granted(b) == With(b, Accepted)
Debounced(b) == Granted(b)

\* After the commit; the answer follows, whether Redis took the keys or not.
MarkAndAnswer(b) ==
  /\ pc[b] = "committed"
  /\ \/ /\ marks' = marks \cup Debounced(b)
        /\ shadowed' = IF how[b] = "SHADOW" THEN shadowed \cup Debounced(b) ELSE shadowed
     \/ Debounced(b) # {} /\ UNCHANGED <<marks, shadowed>>
  /\ acked' = IF how[b] = "LIVE" THEN acked \cup Granted(b) ELSE acked
  /\ Leave(b)
  /\ UNCHANGED <<carded, open, mode, cached, log>>

\* The process dies or a statement fails: an open transaction is rolled back.
Die(b) ==
  /\ pc[b] # "idle"
  /\ Use("faults", MaxFaults)
  /\ Leave(b)
  /\ UNCHANGED <<carded, open, marks, mode, cached, log, acked, shadowed>>

\* b waits for a row, for the session or for a key of the log that c has.
WaitsFor(b, c) ==
  /\ b # c
  /\ \/ pc[b] = "writing" /\ NextRow(b) \cap locked[c] # {}
     \/ pc[b] = "loaded" /\ b \in needs /\ c \in makes
     \/ \E key \in logged[c] : AtLog(b, key)

Stuck(group) == group # {} /\ \A b \in group : \E c \in group : WaitsFor(b, c)

\* PostgreSQL ends a deadlock: the transaction of one batch fails, and the batch
\* with it.
BreakDeadlock(b) ==
  /\ \E group \in SUBSET Batch : b \in group /\ Stuck(group)
  /\ Leave(b)
  /\ UNCHANGED <<carded, open, marks, mode, cached, log, acked, shadowed>>

-----------------------------------------------------------------------------
(* The rest of the school *)

Expire(s) ==
  /\ s \in marks /\ marks' = marks \ {s}
  /\ UNCHANGED <<carded, open, mode, cached, log, batchVars, late, acked, shadowed, used>>

SwitchCard(s) ==
  /\ Use("moves", MaxMoves)
  /\ carded' = IF s \in carded THEN carded \ {s} ELSE carded \cup {s}
  /\ UNCHANGED <<open, marks, mode, cached, log, batchVars, late, acked, shadowed>>

DeclareHoliday ==
  /\ Use("moves", MaxMoves)
  /\ open' = ~open
  /\ UNCHANGED <<carded, marks, mode, cached, log, batchVars, late, acked, shadowed>>

\* The cache is cleared before the new mode is committed: a batch in between
\* may remember the old one for another minute.
SetMode ==
  /\ Use("moves", MaxMoves)
  /\ \E m \in Mode \ {mode} : mode' = m
  /\ cached' \in {Unset, mode}
  /\ UNCHANGED <<carded, open, marks, log, batchVars, late, acked, shadowed>>

Forget ==
  /\ cached # Unset /\ cached' = Unset
  /\ UNCHANGED <<carded, open, marks, mode, log, batchVars, late, acked, shadowed, used>>

\* A finalization waits for the new rows that reference the session, an edit for
\* the rows that are locked.
Staff ==
  /\ RegisterNext
  /\ session' # session => \A b \in Batch : pc[b] = "logging" => fresh[b] = {}
  /\ \A b \in Batch : \A s \in locked[b] : record'[Gate][s] = record[Gate][s]
  /\ late' = IF session[Gate].status # "FINALIZED" /\ session'[Gate].status = "FINALIZED"
             THEN late \cup {b \in Batch : pc[b] \in {"loaded", "writing"}} ELSE late
  /\ UNCHANGED <<carded, open, marks, mode, cached, log, batchVars, acked, shadowed>>

rest == <<roster, ruled, classVars, requestVars, answered, torn>>

Quiet(b) ==
  \/ Load(b) \/ EnsureSession(b)
  \/ \E s \in Student : Upsert(b, s)
  \/ StartLog(b) \/ LogRead(b) \/ BreakDeadlock(b)
  \/ MarkAndAnswer(b)

Step(b) ==
  \/ Quiet(b) /\ UNCHANGED <<session, record, manual, used>>
  \/ /\ Die(b) \/ \E payload \in Payload : Receive(b, payload)
     /\ UNCHANGED <<session, record, manual>>
  \/ CommitBatch(b) /\ UNCHANGED used

Next ==
  \/ \E b \in Batch : Step(b) /\ UNCHANGED rest
  \/ /\ \E s \in Student : Expire(s) \/ SwitchCard(s)
     /\ UNCHANGED <<session, record, manual, rest>>
  \/ (SetMode \/ Forget \/ DeclareHoliday) /\ UNCHANGED <<session, record, manual, rest>>
  \/ Staff

Spec == Init /\ [][Next]_vars

-----------------------------------------------------------------------------
(* Properties *)

\* The values of the state; a row is locked and a key inserted by one batch, and
\* only while its transaction is open.
IngestTypeOK ==
  /\ RegisterTypeOK
  /\ carded \subseteq Student /\ open \in BOOLEAN /\ marks \subseteq Student
  /\ mode \in Mode /\ cached \in Mode \cup {Unset}
  /\ log \subseteq Key
  /\ pc \in [Batch -> {"idle", "received", "loaded", "writing", "logging", "committed"}]
  /\ reads \in [Batch -> SUBSET Student] /\ seen \in [Batch -> SUBSET Student]
  /\ how \in [Batch -> Mode] /\ decided \in [Batch -> [Student -> Decision \cup {"none"}]]
  /\ needs \cup makes \cup late \subseteq Batch
  /\ locked \in [Batch -> SUBSET Student] /\ fresh \in [Batch -> SUBSET Student]
  /\ unlogged \in [Batch -> Seq(Key)] /\ logged \in [Batch -> SUBSET Key]
  /\ acked \subseteq Student /\ shadowed \subseteq Student
  /\ \A b \in Batch : fresh[b] \subseteq locked[b] /\ locked[b] \subseteq reads[b]
  /\ \A b \in Batch : locked[b] # {} => pc[b] \in {"writing", "logging"}
  /\ \A b \in Batch : logged[b] # {} => pc[b] = "logging"
  /\ \A b, c \in Batch : b # c => locked[b] \cap locked[c] = {} /\ logged[b] \cap logged[c] = {}

\* Overlapping batches lock the records of a class in one order, so whatever
\* group of them is deadlocked, those of it that are at the event log are:
\* the sorted upsert never is the cause.
DeadlocksOnlyAtLog ==
  \A group \in SUBSET Batch : IsFiniteSet(group) /\ Stuck(group) =>
    Stuck({b \in group : pc[b] = "logging"})

\* Not kept. "concurrent batches lock rows in the same order -> no deadlocks"
\* (services/rfid/ingest/write.ts:94): the event log is inserted in the order of
\* each payload, so batches that repeat each other's reads may deadlock there.
BatchesNeverDeadlock == \A group \in SUBSET Batch : ~Stuck(group)

\* A card is debounced only if its student is on the register of the gate, save
\* for what a batch in SHADOW mode left in Redis.
DebouncedIsPresent ==
  \A s \in marks : record[Gate][s] # "none" \/ s \in shadowed

\* A batch writes into a finalized session only if it was finalized after the
\* batch last looked at it.
FinalizedUnlessOvertaken ==
  [][\A b \in Batch :
       /\ pc[b] = "logging" /\ pc'[b] = "committed"
       /\ session[Gate].status = "FINALIZED" /\ record' # record
       => b \in late]_vars

\* The gate implements its promise: it adds presences to places nobody decided,
\* never touches what staff decided, and acknowledges what is on the register.
Decider(t, s) == IF <<t, s>> \in manual THEN "staff"
                 ELSE IF record[t][s] = "PRESENT" THEN "gate" ELSE "nobody"

Promise == INSTANCE GatePromise WITH
  Place <- Type \X Student,
  mark <- [p \in Type \X Student |-> Decider(p[1], p[2])],
  acked <- {Gate} \X acked

KeepsPromise == Promise!Spec
=============================================================================
