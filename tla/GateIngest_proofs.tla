-------------------------- MODULE GateIngest_proofs --------------------------
(* Theorems about GateIngest, for every class and any number of batches *)
EXTENDS GateIngest, Register_proofs, FiniteSetTheorems

-----------------------------------------------------------------------------
(* The inductive invariant *)

\* A batch locks its rows in the order of their keys, and only an open
\* transaction holds a session it inserted.
LocksInOrder ==
  /\ \A b \in Batch : \A s \in locked[b], q \in Todo(b) : s < q
  /\ \A b \in makes : pc[b] \in {"writing", "logging"}

\* A locked row is decided as the upsert left it: fresh if it is still
\* ACCEPTED, and nobody marked it before; a row that was there stays there.
RowsAreDecided ==
  \A b \in Batch :
    /\ \A s \in locked[b] : decided[b][s] = "ACCEPTED" <=> s \in fresh[b]
    /\ \A s \in fresh[b] : record[Gate][s] = "none"
    /\ pc[b] \in {"loaded", "writing"} => how[b] = "LIVE"
    /\ pc[b] \in {"loaded", "writing", "logging"} /\ how[b] = "LIVE" =>
         \A s \in With(b, {"ALREADY_PRESENT"}) : record[Gate][s] # "none"
    /\ pc[b] = "logging" /\ how[b] = "LIVE" => With(b, {"ACCEPTED"}) \subseteq locked[b]
    /\ pc[b] = "committed" /\ how[b] = "LIVE" =>
         \A s \in Granted(b) : record[Gate][s] # "none"

\* A batch that is to write into a finalized session, or has written, has been
\* overtaken, or has yet to look for its session again.
OvertakenIsLate ==
  \A b \in Batch : session[Gate].status = "FINALIZED" =>
    /\ pc[b] \in {"loaded", "writing"} /\ With(b, {"ACCEPTED"}) # {}
       => b \in late \/ (pc[b] = "loaded" /\ b \in needs)
    /\ pc[b] = "logging" /\ fresh[b] # {} => b \in late

\* What the marks on the register may be before and after staff decide.
MarksAreDecided ==
  /\ \A t \in Type, s \in Student : <<t, s>> \in manual => record[t][s] # "none"
  /\ ~Exists("DAILY") => \A s \in Student : record["DAILY"][s] = "none"
  /\ \A s \in Student : record[Gate][s] \in {"none", "PRESENT"} \/ <<Gate, s>> \in manual

IngestInv ==
  /\ IngestTypeOK /\ LocksInOrder /\ RowsAreDecided /\ DebouncedIsPresent
  /\ OvertakenIsLate /\ MarksAreDecided

-----------------------------------------------------------------------------
(* Types *)

LEMMA DecisionsTyped ==
  /\ Accepted \subseteq Decision /\ "none" \notin Decision
  /\ None \in [Student -> Decision \cup {"none"}]
  BY DEF Accepted, Decision, None

\* A step of a batch leaves the register typed.
LEMMA GateKeepsRegister ==
  ASSUME RegisterTypeOK, UNCHANGED rest,
         session' \in [Type -> Session], record' \in [Type -> [Student -> Mark]],
         manual' \subseteq Type \X Student, Exists("DAILY")' => Exists("DAILY"),
         DOMAIN used' = Bound, \A what \in Bound : used'[what] \in Nat
  PROVE  RegisterTypeOK'
  BY DEF RegisterTypeOK, rest, classVars, requestVars, Holder

LEMMA SameRegister ==
  ASSUME RegisterTypeOK, UNCHANGED <<rest, session, record, manual>>,
         DOMAIN used' = Bound, \A what \in Bound : used'[what] \in Nat
  PROVE  RegisterTypeOK'
  BY GateKeepsRegister DEF RegisterTypeOK, Exists

\* The variables of one batch are typed, and it holds its locks alone.
LEMMA LeaveType ==
  ASSUME IngestTypeOK, NEW b \in Batch, Leave(b)
  PROVE  /\ pc' \in [Batch -> {"idle", "received", "loaded", "writing", "logging", "committed"}]
         /\ reads' \in [Batch -> SUBSET Student] /\ seen' \in [Batch -> SUBSET Student]
         /\ how' \in [Batch -> Mode]
         /\ decided' \in [Batch -> [Student -> Decision \cup {"none"}]]
         /\ needs' \cup makes' \cup late' \subseteq Batch
         /\ locked' \in [Batch -> SUBSET Student] /\ fresh' \in [Batch -> SUBSET Student]
         /\ \A c \in Batch : fresh'[c] \subseteq locked'[c] /\ locked'[c] \subseteq reads'[c]
         /\ \A c \in Batch : locked'[c] # {} => pc'[c] \in {"writing", "logging"}
         /\ \A c, d \in Batch : c # d => locked'[c] \cap locked'[d] = {}
         /\ unlogged' \in [Batch -> Seq(Key)] /\ logged' \in [Batch -> SUBSET Key]
         /\ \A c \in Batch : logged'[c] # {} => pc'[c] = "logging"
         /\ \A c, d \in Batch : c # d => logged'[c] \cap logged'[d] = {}
  <1>1. \A c \in Batch : locked'[c] = (IF c = b THEN {} ELSE locked[c])
    BY DEF IngestTypeOK, Leave
  <1>2. \A c, d \in Batch : c # d => locked'[c] \cap locked'[d] = {}
    <2>1. \A c, d \in Batch : c # d => locked[c] \cap locked[d] = {}
      BY DEF IngestTypeOK
    <2>2. QED
      BY <1>1, <2>1
  <1>3. /\ \A c \in Batch : fresh'[c] \subseteq locked'[c] /\ locked'[c] \subseteq reads'[c]
        /\ \A c \in Batch : locked'[c] # {} => pc'[c] \in {"writing", "logging"}
    BY <1>1 DEF IngestTypeOK, Leave, GoTo
  <1>4. decided' \in [Batch -> [Student -> Decision \cup {"none"}]]
    BY DecisionsTyped DEF IngestTypeOK, Leave
  <1>5. unlogged' \in [Batch -> Seq(Key)]
    BY DEF IngestTypeOK, Leave
  <1>6. /\ logged' \in [Batch -> SUBSET Key]
        /\ \A c \in Batch : logged'[c] # {} => pc'[c] = "logging"
        /\ \A c, d \in Batch : c # d => logged'[c] \cap logged'[d] = {}
    <2>1. \A c \in Batch : logged'[c] = (IF c = b THEN {} ELSE logged[c])
      BY DEF IngestTypeOK, Leave
    <2>2. QED
      BY <2>1 DEF IngestTypeOK, Leave, GoTo
  <1>7. QED
    BY <1>2, <1>3, <1>4, <1>5, <1>6 DEF IngestTypeOK, Leave, GoTo, Mode

\* Outside its transaction a batch holds nothing.
LEMMA HoldsNothing ==
  ASSUME IngestTypeOK, NEW b \in Batch, pc[b] \notin {"writing", "logging"}
  PROVE  locked[b] = {} /\ fresh[b] = {} /\ logged[b] = {}
<1>1. locked[b] = {} /\ logged[b] = {}
  BY DEF IngestTypeOK
<1>2. fresh[b] \subseteq locked[b]
  BY DEF IngestTypeOK
<1>3. QED
  BY <1>1, <1>2

LEMMA DecideType ==
  ASSUME NEW b, NEW s
  PROVE  Decide(b, s) \in Decision \ {"ALREADY_PRESENT"}
  BY DEF Decide, Decision

\* Every step keeps the types.
LEMMA IngestNextType == IngestTypeOK /\ [Next]_vars => IngestTypeOK'
<1> SUFFICES ASSUME IngestTypeOK, [Next]_vars PROVE IngestTypeOK'
  OBVIOUS
<1> USE IngestAssumption
<1>0. RegisterTypeOK /\ DOMAIN used = Bound /\ \A what \in Bound : used[what] \in Nat
  BY DEF IngestTypeOK, RegisterTypeOK
<1>1. ASSUME NEW b \in Batch, NEW payload \in Payload, Receive(b, payload),
             UNCHANGED <<session, record, manual, rest>>
      PROVE  IngestTypeOK'
  <2>1. RegisterTypeOK'
    BY <1>0, <1>1, UseType, SameRegister DEF Receive, Bound
  <2>2. payload \in Seq(Key) /\ {payload[i][1] : i \in DOMAIN payload} \subseteq Student
    <3>1. PICK n \in 1..MaxReads : payload \in [1..n -> Key]
      BY DEF Payload
    <3>2. QED
      BY <3>1
  <2>3. reads' \in [Batch -> SUBSET Student] /\ unlogged' \in [Batch -> Seq(Key)]
    BY <1>1, <2>2 DEF Receive, IngestTypeOK
  <2>4. cached' \in Mode /\ seen' \in [Batch -> SUBSET Student]
    BY <1>1, <2>3 DEF Receive, IngestTypeOK, Unset
  <2>5. /\ pc' \in [Batch -> {"idle", "received", "loaded", "writing", "logging", "committed"}]
        /\ \A c \in Batch : c # b => pc'[c] = pc[c] /\ reads'[c] = reads[c]
        /\ locked[b] = {} /\ fresh[b] = {} /\ logged[b] = {}
    <3>1. pc[b] = "idle" /\ pc' = [pc EXCEPT ![b] = "received"]
          /\ reads' = [reads EXCEPT ![b] = {payload[i][1] : i \in DOMAIN payload}]
      BY <1>1 DEF Receive, GoTo
    <3>2. locked[b] = {} /\ fresh[b] = {} /\ logged[b] = {}
      BY <3>1, HoldsNothing
    <3>3. \A c \in Batch : c # b => pc'[c] = pc[c] /\ reads'[c] = reads[c]
      BY <3>1 DEF IngestTypeOK
    <3>4. QED
      BY <3>1, <3>2, <3>3 DEF IngestTypeOK
  <2>6. QED
    BY <1>1, <2>1, <2>3, <2>4, <2>5 DEF Receive, IngestTypeOK
<1>2. ASSUME NEW b \in Batch, Load(b), UNCHANGED <<session, record, manual, used, rest>>
      PROVE  IngestTypeOK'
  <2>1. RegisterTypeOK'
    BY <1>0, <1>2, SameRegister
  <2>2. decided' \in [Batch -> [Student -> Decision \cup {"none"}]]
    BY <1>2, DecideType DEF Load, IngestTypeOK
  <2>3. needs' \subseteq Batch
    BY <1>2 DEF Load, IngestTypeOK
  <2>4. \E step \in {"logging", "loaded"} : pc' = [pc EXCEPT ![b] = step]
    BY <1>2 DEF Load, GoTo
  <2>5. locked[b] = {} /\ logged[b] = {}
    BY <1>2 DEF Load, IngestTypeOK
  <2>6. /\ pc' \in [Batch -> {"idle", "received", "loaded", "writing", "logging", "committed"}]
        /\ \A c \in Batch : c # b => pc'[c] = pc[c]
    BY <2>4 DEF IngestTypeOK
  <2>7. QED
    BY <1>2, <2>1, <2>2, <2>3, <2>5, <2>6 DEF Load, IngestTypeOK
<1>3. ASSUME NEW b \in Batch, EnsureSession(b),
             UNCHANGED <<session, record, manual, used, rest>>
      PROVE  IngestTypeOK'
  <2>1. RegisterTypeOK'
    BY <1>0, <1>3, SameRegister
  <2>2. decided' \in [Batch -> [Student -> Decision \cup {"none"}]]
    <3>1. decided' = decided \/ Downgrade(b)
      BY <1>3 DEF EnsureSession
    <3>2. decided \in [Batch -> [Student -> Decision \cup {"none"}]]
      BY DEF IngestTypeOK
    <3>3. QED
      BY <3>1, <3>2 DEF Downgrade, Decision
  <2>3. needs' \cup makes' \cup late' \subseteq Batch
    BY <1>3 DEF EnsureSession, IngestTypeOK
  <2>4. pc[b] = "loaded" /\ pc' = [pc EXCEPT ![b] = "writing"]
    BY <1>3 DEF EnsureSession, GoTo
  <2>5. /\ pc' \in [Batch -> {"idle", "received", "loaded", "writing", "logging", "committed"}]
        /\ \A c \in Batch : pc[c] \in {"writing", "logging"} => pc'[c] = pc[c]
    BY <2>4 DEF IngestTypeOK
  <2>6. QED
    BY <1>3, <2>1, <2>2, <2>3, <2>5 DEF EnsureSession, IngestTypeOK
<1>4. ASSUME NEW b \in Batch, NEW s \in Student, Upsert(b, s),
             UNCHANGED <<session, record, manual, used, rest>>
      PROVE  IngestTypeOK'
  <2>1. RegisterTypeOK'
    BY <1>0, <1>4, SameRegister
  <2>2. decided' \in [Batch -> [Student -> Decision \cup {"none"}]]
    BY <1>4 DEF Upsert, Upserted, Decision, IngestTypeOK
  <2>3. s \in reads[b] /\ \A c \in Batch : s \notin locked[c]
    BY <1>4 DEF Upsert, Unlocked, NextRow, Todo, With
  <2>4. /\ \A c \in Batch : fresh'[c] \subseteq locked'[c] /\ locked'[c] \subseteq reads'[c]
        /\ \A c \in Batch : locked'[c] # {} => pc'[c] \in {"writing", "logging"}
        /\ \A c, d \in Batch : c # d => locked'[c] \cap locked'[d] = {}
    <3>1. \A c \in Batch : locked'[c] = (IF c = b THEN locked[c] \cup {s} ELSE locked[c])
      <4>1. locked' = [locked EXCEPT ![b] = @ \cup {s}]
        BY <1>4 DEF Upsert
      <4>2. locked \in [Batch -> SUBSET Student]
        BY DEF IngestTypeOK
      <4>3. QED
        BY <4>1, <4>2
    <3>2. \A c \in Batch : fresh'[c] = fresh[c] \/ (c = b /\ fresh'[c] = fresh[c] \cup {s})
      <4>1. fresh' = fresh \/ fresh' = [fresh EXCEPT ![b] = @ \cup {s}]
        BY <1>4 DEF Upsert
      <4>2. fresh \in [Batch -> SUBSET Student]
        BY DEF IngestTypeOK
      <4>3. QED
        BY <4>1, <4>2
    <3>3. pc[b] = "writing" /\ pc' = pc /\ reads' = reads
      BY <1>4 DEF Upsert
    <3>4. \A c, d \in Batch : c # d => locked'[c] \cap locked'[d] = {}
      <4>1. \A c, d \in Batch : c # d => locked[c] \cap locked[d] = {}
        BY DEF IngestTypeOK
      <4>2. QED
        BY <2>3, <3>1, <4>1
    <3>5. \A c \in Batch : fresh'[c] \subseteq locked'[c] /\ locked'[c] \subseteq reads'[c]
      <4>1. \A c \in Batch : fresh[c] \subseteq locked[c] /\ locked[c] \subseteq reads[c]
        BY DEF IngestTypeOK
      <4>2. \A c \in Batch : fresh'[c] \subseteq locked'[c]
        BY <3>1, <3>2, <4>1
      <4>3. QED
        BY <2>3, <3>1, <3>3, <4>1, <4>2
    <3>6. \A c \in Batch : locked'[c] # {} => pc'[c] \in {"writing", "logging"}
      BY <3>1, <3>3 DEF IngestTypeOK
    <3>7. QED
      BY <3>4, <3>5, <3>6
  <2>5. QED
    BY <1>4, <2>1, <2>2, <2>4 DEF Upsert, IngestTypeOK
<1>5. ASSUME NEW b \in Batch, CommitBatch(b), UNCHANGED <<used, rest>>
      PROVE  IngestTypeOK'
  <2>1. session' \in [Type -> Session] /\ (Exists("DAILY")' => Exists("DAILY"))
    <3>1. \/ session' = [session EXCEPT ![Gate].status = "OPEN"]
          \/ session' = session
      BY <1>5 DEF CommitBatch
    <3>2. CASE session' = [session EXCEPT ![Gate].status = "OPEN"]
      BY <1>0, <3>2 DEF RegisterTypeOK, Session, Status, Exists, Gate, Type
    <3>3. QED
      BY <1>0, <3>1, <3>2 DEF RegisterTypeOK, Exists
  <2>2. record' \in [Type -> [Student -> Mark]]
    BY <1>0, <1>5 DEF CommitBatch, RegisterTypeOK, Mark, Gate
  <2>3. manual' \subseteq Type \X Student
    BY <1>0, <1>5 DEF CommitBatch, RegisterTypeOK
  <2>4. RegisterTypeOK'
    BY <1>0, <1>5, <2>1, <2>2, <2>3, GateKeepsRegister
  <2>5. /\ log' \subseteq Key /\ logged' \in [Batch -> SUBSET Key]
        /\ \A c \in Batch : logged'[c] # {} => pc'[c] = "logging"
        /\ \A c, d \in Batch : c # d => logged'[c] \cap logged'[d] = {}
    <3>1. \A c \in Batch : logged'[c] = (IF c = b THEN {} ELSE logged[c])
      BY <1>5 DEF CommitBatch, IngestTypeOK
    <3>2. QED
      BY <1>5, <3>1 DEF CommitBatch, GoTo, IngestTypeOK
  <2>6. \A c, d \in Batch : c # d => locked'[c] \cap locked'[d] = {}
    <3>1. \A c \in Batch : locked'[c] = (IF c = b THEN {} ELSE locked[c])
      BY <1>5 DEF CommitBatch, IngestTypeOK
    <3>2. \A c, d \in Batch : c # d => locked[c] \cap locked[d] = {}
      BY DEF IngestTypeOK
    <3>3. QED
      BY <3>1, <3>2
  <2>7. /\ \A c \in Batch : fresh'[c] \subseteq locked'[c] /\ locked'[c] \subseteq reads'[c]
        /\ \A c \in Batch : locked'[c] # {} => pc'[c] \in {"writing", "logging"}
    BY <1>5 DEF CommitBatch, GoTo, IngestTypeOK
  <2>8. QED
    BY <1>5, <2>4, <2>5, <2>6, <2>7 DEF CommitBatch, GoTo, IngestTypeOK
<1>6. ASSUME NEW b \in Batch, MarkAndAnswer(b),
             UNCHANGED <<session, record, manual, used, rest>>
      PROVE  IngestTypeOK'
  <2>1. RegisterTypeOK'
    BY <1>0, <1>6, SameRegister
  <2>2. marks' \subseteq Student /\ acked' \subseteq Student /\ shadowed' \subseteq Student
    BY <1>6 DEF MarkAndAnswer, Debounced, Granted, With, IngestTypeOK
  <2>3. QED
    BY <1>6, <2>1, <2>2, LeaveType DEF MarkAndAnswer, IngestTypeOK
<1>7. ASSUME NEW b \in Batch, Die(b), UNCHANGED <<session, record, manual, rest>>
      PROVE  IngestTypeOK'
  <2>1. RegisterTypeOK'
    BY <1>0, <1>7, UseType, SameRegister DEF Die, Bound
  <2>2. QED
    BY <1>7, <2>1, LeaveType DEF Die, IngestTypeOK
<1>8. ASSUME NEW s \in Student, Expire(s) \/ SwitchCard(s),
             UNCHANGED <<session, record, manual, rest>>
      PROVE  IngestTypeOK'
  <2>1. RegisterTypeOK'
    BY <1>0, <1>8, UseType, SameRegister DEF Expire, SwitchCard, Bound
  <2>2. CASE Expire(s)
    BY <1>8, <2>1, <2>2 DEF Expire, batchVars, IngestTypeOK
  <2>3. CASE SwitchCard(s)
    BY <1>8, <2>1, <2>3 DEF SwitchCard, batchVars, IngestTypeOK
  <2>4. QED
    BY <1>8, <2>2, <2>3
<1>9. ASSUME SetMode \/ Forget \/ DeclareHoliday,
             UNCHANGED <<session, record, manual, rest>>
      PROVE  IngestTypeOK'
  <2>1. RegisterTypeOK'
    BY <1>0, <1>9, UseType, SameRegister DEF SetMode, Forget, DeclareHoliday, Bound
  <2>2. CASE SetMode
    BY <2>1, <2>2 DEF SetMode, batchVars, IngestTypeOK
  <2>3. CASE Forget
    BY <2>1, <2>3 DEF Forget, batchVars, IngestTypeOK
  <2>4. CASE DeclareHoliday
    BY <2>1, <2>4 DEF DeclareHoliday, batchVars, IngestTypeOK
  <2>5. QED
    BY <1>9, <2>2, <2>3, <2>4
<1>10. ASSUME Staff PROVE IngestTypeOK'
  <2>1. RegisterTypeOK'
    BY <1>0, <1>10, RegisterNextType DEF Staff
  <2>2. late' \subseteq Batch
    BY <1>10 DEF Staff, IngestTypeOK
  <2>3. QED
    BY <1>10, <2>1, <2>2 DEF Staff, batchVars, IngestTypeOK
<1>11. ASSUME UNCHANGED vars PROVE IngestTypeOK'
  <2>1. RegisterTypeOK'
    BY <1>0, <1>11, RegisterStutterType DEF vars
  <2>2. QED
    BY <1>11, <2>1 DEF vars, ingestVars, batchVars, IngestTypeOK
<1>12. ASSUME NEW b \in Batch, StartLog(b), UNCHANGED <<session, record, manual, used, rest>>
       PROVE  IngestTypeOK'
  <2>1. RegisterTypeOK'
    BY <1>0, <1>12, SameRegister
  <2>2. /\ pc' \in [Batch -> {"idle", "received", "loaded", "writing", "logging", "committed"}]
        /\ \A c \in Batch : pc[c] \in {"writing", "logging"} => pc'[c] \in {pc[c], "logging"}
    BY <1>12 DEF StartLog, GoTo, IngestTypeOK
  <2>3. QED
    BY <1>12, <2>1, <2>2 DEF StartLog, IngestTypeOK
<1>13. ASSUME NEW b \in Batch, LogRead(b), UNCHANGED <<session, record, manual, used, rest>>
       PROVE  IngestTypeOK'
  <2> DEFINE new == {key \in Key \ log : AtLog(b, key)}
  <2>1. RegisterTypeOK'
    BY <1>0, <1>13, SameRegister
  <2>2. \A c \in Batch : logged'[c] = (IF c = b THEN logged[c] \cup new ELSE logged[c])
    <3>1. logged' = [logged EXCEPT ![b] = @ \cup new]
      BY <1>13 DEF LogRead
    <3>2. logged \in [Batch -> SUBSET Key]
      BY DEF IngestTypeOK
    <3>3. QED
      BY <3>1, <3>2
  <2>3. \A c \in Batch : c # b => logged[c] \cap new = {}
    BY <1>13 DEF LogRead
  <2>4. /\ logged' \in [Batch -> SUBSET Key]
        /\ \A c, d \in Batch : c # d => logged'[c] \cap logged'[d] = {}
    <3>1. logged' = [logged EXCEPT ![b] = @ \cup new] /\ new \subseteq Key
      BY <1>13 DEF LogRead
    <3>2. \A c, d \in Batch : c # d => logged[c] \cap logged[d] = {}
      BY DEF IngestTypeOK
    <3> HIDE DEF new
    <3>3. \A c, d \in Batch : c # d => logged'[c] \cap logged'[d] = {}
      BY <2>2, <2>3, <3>2
    <3>4. QED
      BY <3>1, <3>3 DEF IngestTypeOK
  <2>5. unlogged' \in [Batch -> Seq(Key)]
    BY <1>13 DEF LogRead, IngestTypeOK
  <2>6. \A c \in Batch : logged'[c] # {} => pc'[c] = "logging"
    BY <1>13, <2>2 DEF LogRead, IngestTypeOK
  <2>7. QED
    BY <1>13, <2>1, <2>4, <2>5, <2>6 DEF LogRead, IngestTypeOK
<1>14. ASSUME NEW b \in Batch, BreakDeadlock(b),
              UNCHANGED <<session, record, manual, used, rest>>
       PROVE  IngestTypeOK'
  <2>1. RegisterTypeOK'
    BY <1>0, <1>14, SameRegister
  <2>2. QED
    BY <1>14, <2>1, LeaveType DEF BreakDeadlock, IngestTypeOK
<1>15. QED
  BY <1>1, <1>2, <1>3, <1>4, <1>5, <1>6, <1>7, <1>8, <1>9, <1>10, <1>11, <1>12, <1>13, <1>14
  DEF Next, Step, Quiet

\* A step of one batch leaves the others where they are.
Stands(c) ==
  /\ pc'[c] = pc[c] /\ reads'[c] = reads[c] /\ how'[c] = how[c]
  /\ decided'[c] = decided[c] /\ locked'[c] = locked[c] /\ fresh'[c] = fresh[c]
  /\ c \in needs' <=> c \in needs
  /\ c \in makes' <=> c \in makes
  /\ c \in late' <=> c \in late

LEMMA OthersStand ==
  ASSUME IngestTypeOK, NEW b \in Batch, NEW c \in Batch, c # b, Step(b)
  PROVE  Stands(c)
<1>1. ASSUME NEW payload \in Payload, Receive(b, payload) PROVE Stands(c)
  BY <1>1 DEF Receive, GoTo, IngestTypeOK, Stands
<1>2. ASSUME Load(b) PROVE Stands(c)
  BY <1>2 DEF Load, GoTo, IngestTypeOK, Stands
<1>3. ASSUME EnsureSession(b) PROVE Stands(c)
  BY <1>3 DEF EnsureSession, Downgrade, GoTo, IngestTypeOK, Stands
<1>4. ASSUME NEW s \in Student, Upsert(b, s) PROVE Stands(c)
  BY <1>4 DEF Upsert, IngestTypeOK, Stands
<1>5. ASSUME CommitBatch(b) PROVE Stands(c)
  BY <1>5 DEF CommitBatch, GoTo, IngestTypeOK, Stands
<1>6. ASSUME MarkAndAnswer(b) \/ Die(b) \/ BreakDeadlock(b) PROVE Stands(c)
  BY <1>6 DEF MarkAndAnswer, Die, BreakDeadlock, Leave, GoTo, IngestTypeOK, Stands
<1>7. ASSUME StartLog(b) \/ LogRead(b) PROVE Stands(c)
  BY <1>7 DEF StartLog, LogRead, GoTo, IngestTypeOK, Stands
<1>8. QED
  BY <1>1, <1>2, <1>3, <1>4, <1>5, <1>6, <1>7 DEF Step, Quiet

\* The selections of a batch that stands are what they were.
LEMMA StandsKeeps ==
  ASSUME NEW c, Stands(c)
  PROVE  /\ \A d : With(c, d)' = With(c, d)
         /\ Todo(c)' = Todo(c) /\ Granted(c)' = Granted(c)
  BY DEF Stands, With, Todo, Granted

\* Every step is a step of one batch or leaves all of them alone.
LEMMA StepsOfBatches ==
  ASSUME [Next]_vars
  PROVE  \/ \E b \in Batch : Step(b) /\ UNCHANGED rest
         \/ UNCHANGED batchVars
  BY DEF Next, Expire, SwitchCard, SetMode, Forget, DeclareHoliday, Staff, vars, ingestVars

-----------------------------------------------------------------------------
(* No two batches wait for each other *)

LEMMA LocksNext == IngestTypeOK /\ LocksInOrder /\ [Next]_vars => LocksInOrder'
<1> SUFFICES ASSUME IngestTypeOK, LocksInOrder, [Next]_vars PROVE LocksInOrder'
  OBVIOUS
<1> DEFINE InOrder(c) == /\ \A s \in locked[c], q \in Todo(c) : s < q
                         /\ c \in makes => pc[c] \in {"writing", "logging"}
<1>1. ASSUME NEW b \in Batch, Step(b) PROVE LocksInOrder'
  <2>1. ASSUME NEW c \in Batch, c # b PROVE InOrder(c)'
    BY <1>1, <2>1, OthersStand, StandsKeeps DEF LocksInOrder, Stands
  <2>2. ASSUME NEW payload \in Payload, Receive(b, payload) PROVE InOrder(b)'
    BY <2>2 DEF Receive, GoTo, IngestTypeOK, LocksInOrder
  <2>3. ASSUME Load(b) PROVE InOrder(b)'
    BY <2>3 DEF Load, GoTo, IngestTypeOK, LocksInOrder
  <2>4. ASSUME EnsureSession(b) PROVE InOrder(b)'
    <3>1. pc[b] = "loaded" /\ locked' = locked /\ pc' = [pc EXCEPT ![b] = "writing"]
      BY <2>4 DEF EnsureSession, GoTo
    <3>2. pc'[b] = "writing"
      BY <3>1 DEF IngestTypeOK
    <3>3. QED
      BY <3>1, <3>2, HoldsNothing
  <2>5. ASSUME NEW s \in Student, Upsert(b, s) PROVE InOrder(b)'
    <3>1. s \in Todo(b) /\ \A q \in Todo(b) : s <= q
      BY <2>5 DEF Upsert, NextRow
    <3>2. locked'[b] = locked[b] \cup {s} /\ pc'[b] = "writing"
      BY <2>5 DEF Upsert, IngestTypeOK
    <3>3. \A q \in Todo(b)' : q \in Todo(b) /\ q # s
      BY <2>5, <3>2 DEF Upsert, Todo, With, IngestTypeOK
    <3>4. \A q \in Todo(b) : q \in Nat
      BY IngestAssumption DEF Todo, With, IngestTypeOK
    <3>5. QED
      BY <3>1, <3>2, <3>3, <3>4, IngestAssumption DEF LocksInOrder
  <2>6. ASSUME CommitBatch(b) \/ MarkAndAnswer(b) \/ Die(b) \/ BreakDeadlock(b)
        PROVE  InOrder(b)'
    BY <2>6 DEF CommitBatch, MarkAndAnswer, Die, BreakDeadlock, Leave, IngestTypeOK
  <2>7. ASSUME StartLog(b) \/ LogRead(b) PROVE InOrder(b)'
    BY <2>7 DEF StartLog, LogRead, GoTo, Todo, With, IngestTypeOK, LocksInOrder
  <2>8. InOrder(b)'
    BY <1>1, <2>2, <2>3, <2>4, <2>5, <2>6, <2>7 DEF Step, Quiet
  <2>9. makes' \subseteq Batch
    BY IngestNextType DEF IngestTypeOK
  <2>10. QED
    BY <2>1, <2>8, <2>9 DEF LocksInOrder
<1>2. ASSUME UNCHANGED batchVars PROVE LocksInOrder'
  BY <1>2 DEF LocksInOrder, batchVars, Todo, With
<1>3. QED
  BY <1>1, <1>2, StepsOfBatches

\* Of finitely many one ranks highest: the sets of those who rank above somebody
\* are well-founded under inclusion.
LEMMA HighestRank ==
  ASSUME NEW S, IsFiniteSet(S), S # {}, NEW rank \in [S -> Int]
  PROVE  \E b \in S : \A c \in S : rank[c] <= rank[b]
<1> DEFINE Above(b) == {c \in S : rank[c] > rank[b]}
           R == StrictSubsetOrdering(S)
           T == {Above(b) : b \in S}
<1>1. IsWellFoundedOn(R, SUBSET S)
  BY FS_StrictSubsetOrderingWellFounded, FS_FiniteSubsetsOfFinite
<1>2. T \subseteq SUBSET S /\ T # {}
  <2>1. PICK b \in S : TRUE
    OBVIOUS
  <2>2. Above(b) \in T
    BY <2>1
  <2>3. \A d \in S : Above(d) \in SUBSET S
    OBVIOUS
  <2> QED
    BY <2>2, <2>3
<1>3. PICK X \in T : \A Y \in T : <<Y, X>> \notin R
  <2> HIDE DEF R, T
  <2> QED
    BY <1>1, <1>2, WFMin
<1>4. PICK b \in S : X = Above(b)
  OBVIOUS
<1>5. ASSUME NEW c \in S, rank[c] > rank[b] PROVE FALSE
  <2>1. Above(c) \subseteq Above(b) /\ c \in Above(b) /\ c \notin Above(c)
    BY <1>5
  <2>2. <<Above(c), Above(b)>> \in R
    BY <2>1 DEF StrictSubsetOrdering
  <2> QED
    BY <1>3, <1>4, <2>2
<1> QED
  BY <1>5

\* A group of batches that wait for each other has one at the log: in a group
\* that only writes, the row that one waits for is before the next row of the
\* batch that has it.
LEMMA SomeAtLog ==
  ASSUME IngestTypeOK, LocksInOrder, NEW group \in SUBSET Batch, IsFiniteSet(group),
         Stuck(group)
  PROVE  \E b \in group : pc[b] = "logging"
<1> SUFFICES ASSUME \A b \in group : pc[b] # "logging" PROVE FALSE
  OBVIOUS
<1>0. group # {} /\ \A b \in group : \E c \in group : WaitsFor(b, c)
  BY DEF Stuck
<1> DEFINE W == {b \in group : pc[b] = "writing"}
           next == [b \in W |-> CHOOSE s : s \in NextRow(b)]
<1>1. ASSUME NEW b \in group
      PROVE  \E c \in W : WaitsFor(b, c)
  <2>1. PICK c \in group : WaitsFor(b, c)
    BY <1>0
  <2>2. pc[c] \in {"writing", "logging"}
    BY <2>1 DEF WaitsFor, IngestTypeOK, LocksInOrder
  <2> QED
    BY <2>1, <2>2
<1>2. IsFiniteSet(W) /\ W # {}
  BY <1>0, <1>1, FS_Subset
<1>3. ASSUME NEW b \in W
      PROVE  next[b] \in Int /\ \E c \in W : next[b] < next[c]
  <2>1. ASSUME NEW d \in W
        PROVE  \E c \in W : next[d] \in NextRow(d) \cap locked[c] /\ next[d] \in Nat
    <3>1. PICK c \in W : WaitsFor(d, c)
      BY <1>1
    <3>2. PICK s \in NextRow(d) : s \in locked[c]
      BY <3>1 DEF WaitsFor, AtLog
    <3>3. NextRow(d) \subseteq Nat
      BY IngestAssumption DEF NextRow, Todo, With, IngestTypeOK
    <3>4. \A q \in NextRow(d) : q <= s /\ s <= q
      BY <3>2 DEF NextRow
    <3>5. NextRow(d) = {s}
      BY <3>2, <3>3, <3>4
    <3>6. next[d] = s
      BY <3>5
    <3> QED
      BY <3>2, <3>3, <3>6
  <2>2. PICK c \in W : next[b] \in locked[c] /\ next[b] \in Nat
    BY <2>1
  <2>3. next[c] \in NextRow(c) /\ next[c] \in Nat
    BY <2>1
  <2>4. next[b] < next[c]
    BY <2>2, <2>3 DEF LocksInOrder, NextRow
  <2> HIDE DEF next, W
  <2> QED
    BY <2>2, <2>4
<1>4. next \in [W -> Int]
  BY <1>3
<1>5. PICK b \in W : \A c \in W : next[c] <= next[b]
  <2> HIDE DEF next, W
  <2>1. \A rank \in [W -> Int] : \E b \in W : \A c \in W : rank[c] <= rank[b]
    BY <1>2, HighestRank
  <2> QED
    BY <1>4, <2>1
<1>6. PICK c \in W : next[b] < next[c]
  BY <1>3
<1>7. next[b] \in Int /\ next[c] \in Int /\ next[c] <= next[b]
  BY <1>3, <1>5
<1> QED
  BY <1>6, <1>7

\* Who waits at the log waits for one that is at the log.
LEMMA LogWaits == IngestTypeOK /\ LocksInOrder => DeadlocksOnlyAtLog
<1> SUFFICES ASSUME IngestTypeOK, LocksInOrder,
                    NEW group \in SUBSET Batch, IsFiniteSet(group), Stuck(group)
             PROVE  Stuck({b \in group : pc[b] = "logging"})
  BY DEF DeadlocksOnlyAtLog
<1>1. ASSUME NEW b \in group, pc[b] = "logging"
      PROVE  \E c \in group : pc[c] = "logging" /\ WaitsFor(b, c)
  <2>1. PICK c \in group : WaitsFor(b, c)
    BY DEF Stuck
  <2>2. PICK key \in logged[c] : AtLog(b, key)
    BY <1>1, <2>1 DEF WaitsFor
  <2>3. QED
    BY <2>1, <2>2 DEF IngestTypeOK
<1>2. QED
  BY <1>1, SomeAtLog DEF Stuck

-----------------------------------------------------------------------------
(* What the batches decide, and what is debounced *)

\* Of the marks of the gate session a step of the register undoes none.
LEMMA StaffKeepsMarks ==
  ASSUME RegisterTypeOK, RegisterNext, NEW s \in Student, record[Gate][s] # "none"
  PROVE  record'[Gate][s] # "none"
<1>1. ASSUME NEW r \in Request, Persist(r) PROVE record'[Gate] = record[Gate]
  BY <1>1 DEF Persist, RegisterTypeOK, Gate, Type
<1>2. ASSUME NEW r \in Request, Serve(r) \/ Cut(r) \/ Lost(r)
      PROVE  record'[Gate] = record[Gate]
  BY <1>1, <1>2 DEF Serve, InsertSession, ReadRoster, Commit, Cut, Lost
<1>3. ASSUME NEW t \in Type, NEW sweep \in BOOLEAN, Finalize(t, sweep)
      PROVE  record'[Gate][s] # "none"
  BY <1>3 DEF Finalize, AutoAbsent, RegisterTypeOK, Gate, Type
<1>4. ASSUME NEW t \in Type, NEW q \in Student, NEW m \in {"PRESENT", "EXCUSED", "ABSENT"},
             Edit(t, q, m)
      PROVE  record'[Gate][s] # "none"
  BY <1>4 DEF Edit, RegisterTypeOK, Gate, Type
<1>5. QED
  BY <1>2, <1>3, <1>4 DEF RegisterNext, Ask, Reopen, Move, Assign

\* A batch changes no mark of the gate but those of the rows it inserted.
LEMMA BatchMarks ==
  ASSUME IngestTypeOK, NEW b \in Batch, Step(b), NEW s \in Student
  PROVE  \/ record'[Gate][s] = record[Gate][s]
         \/ CommitBatch(b) /\ s \in fresh[b] /\ record'[Gate][s] = "PRESENT"
<1>1. CASE UNCHANGED record
  BY <1>1
<1>2. CASE CommitBatch(b)
  BY <1>2 DEF CommitBatch, IngestTypeOK, RegisterTypeOK, Gate, Type
<1>3. QED
  BY <1>1, <1>2 DEF Step

\* No step takes a student off the register of the gate.
LEMMA MarksStay ==
  ASSUME IngestTypeOK, [Next]_vars, NEW s \in Student, record[Gate][s] # "none"
  PROVE  record'[Gate][s] # "none"
<1>1. RegisterTypeOK
  BY DEF IngestTypeOK
<1>2. QED
  BY <1>1, StaffKeepsMarks, BatchMarks DEF Next, Staff, vars, registerVars

\* Every step keeps what the batches decided in accord with the register.
LEMMA RowsNext == IngestTypeOK /\ RowsAreDecided /\ [Next]_vars => RowsAreDecided'
<1> SUFFICES ASSUME IngestTypeOK, RowsAreDecided, [Next]_vars PROVE RowsAreDecided'
  OBVIOUS
<1> DEFINE Rows(c) ==
      /\ \A s \in locked[c] : decided[c][s] = "ACCEPTED" <=> s \in fresh[c]
      /\ \A s \in fresh[c] : record[Gate][s] = "none"
      /\ pc[c] \in {"loaded", "writing"} => how[c] = "LIVE"
      /\ pc[c] \in {"loaded", "writing", "logging"} /\ how[c] = "LIVE" =>
           \A s \in With(c, {"ALREADY_PRESENT"}) : record[Gate][s] # "none"
      /\ pc[c] = "logging" /\ how[c] = "LIVE" => With(c, {"ACCEPTED"}) \subseteq locked[c]
      /\ pc[c] = "committed" /\ how[c] = "LIVE" =>
           \A s \in Granted(c) : record[Gate][s] # "none"
<1>0. \A c \in Batch : Rows(c)
  BY DEF RowsAreDecided
<1>1. \A c \in Batch : fresh[c] \subseteq locked[c] /\ locked[c] \subseteq Student
  BY DEF IngestTypeOK
<1>2. \A c \in Batch : /\ Granted(c) \subseteq Student
                       /\ \A d : With(c, d) \subseteq Student
  BY DEF With, Granted, IngestTypeOK
<1>3. ASSUME NEW b \in Batch, Step(b) PROVE RowsAreDecided'
  <2>1. ASSUME NEW c \in Batch, c # b PROVE Rows(c)'
    <3>1. \A s \in fresh[c] : s \notin fresh[b]
      BY <1>1, <2>1 DEF IngestTypeOK
    <3>2. \A s \in fresh[c] : record'[Gate][s] = "none"
      BY <1>0, <1>1, <1>3, <3>1, BatchMarks
    <3>3. Stands(c)
      BY <1>3, <2>1, OthersStand
    <3>4. /\ With(c, {"ALREADY_PRESENT"})' = With(c, {"ALREADY_PRESENT"})
          /\ With(c, {"ACCEPTED"})' = With(c, {"ACCEPTED"})
          /\ Granted(c)' = Granted(c)
      BY <3>3, StandsKeeps
    <3>5. QED
      BY <1>0, <1>2, <3>2, <3>3, <3>4, MarksStay DEF Stands
  <2>2. ASSUME NEW payload \in Payload, Receive(b, payload) PROVE Rows(b)'
    <3>1. /\ pc[b] = "idle" /\ pc' = [pc EXCEPT ![b] = "received"]
          /\ locked' = locked /\ fresh' = fresh
      BY <2>2 DEF Receive, GoTo
    <3>2. pc'[b] = "received"
      BY <3>1 DEF IngestTypeOK
    <3>3. QED
      BY <3>1, <3>2, HoldsNothing
  <2>3. ASSUME Load(b), UNCHANGED record PROVE Rows(b)'
    <3>1. locked'[b] = {} /\ fresh'[b] = {}
      BY <2>3 DEF Load, IngestTypeOK
    <3>2. /\ how'[b] = how[b]
          /\ how[b] = "SHADOW" \/ how[b] = "LIVE"
          /\ pc'[b] = IF how[b] = "SHADOW" THEN "logging" ELSE "loaded"
      BY <2>3 DEF Load, GoTo, IngestTypeOK, Mode
    <3>3. With(b, {"ALREADY_PRESENT"})' = {}
      BY <2>3, DecideType DEF Load, With, IngestTypeOK
    <3>4. QED
      BY <3>1, <3>2, <3>3
  <2>4. ASSUME EnsureSession(b), UNCHANGED record PROVE Rows(b)'
    <3>1. locked'[b] = {} /\ fresh'[b] = {}
      BY <2>4 DEF EnsureSession, IngestTypeOK
    <3>2. pc[b] = "loaded" /\ pc'[b] = "writing" /\ how' = how
      BY <2>4 DEF EnsureSession, GoTo, IngestTypeOK
    <3>3. With(b, {"ALREADY_PRESENT"})' \subseteq With(b, {"ALREADY_PRESENT"})
      BY <2>4 DEF EnsureSession, Downgrade, With, IngestTypeOK
    <3>4. QED
      BY <1>0, <2>4, <3>1, <3>2, <3>3
  <2>5. ASSUME NEW s \in Student, Upsert(b, s), UNCHANGED record PROVE Rows(b)'
    <3>1. /\ locked'[b] = locked[b] \cup {s} /\ pc[b] = "writing" /\ pc' = pc /\ how' = how
          /\ decided'[b] = [decided[b] EXCEPT ![s] = Upserted(s)]
          /\ fresh'[b] = IF Upserted(s) = "ACCEPTED" THEN fresh[b] \cup {s} ELSE fresh[b]
          /\ reads' = reads
      BY <2>5 DEF Upsert, IngestTypeOK
    <3>2. s \notin locked[b] /\ s \notin fresh[b]
      BY <1>1, <2>5 DEF Upsert, Unlocked
    <3>3. \A q \in Student : decided'[b][q] = IF q = s THEN Upserted(s) ELSE decided[b][q]
      BY <3>1 DEF IngestTypeOK
    <3>4. /\ Upserted(s) = "ACCEPTED" <=> record[Gate][s] = "none"
      BY DEF Upserted
    <3>5. \A q \in locked'[b] : decided'[b][q] = "ACCEPTED" <=> q \in fresh'[b]
      BY <1>0, <1>1, <3>1, <3>2, <3>3
    <3>6. \A q \in fresh'[b] : record'[Gate][q] = "none"
      BY <1>0, <2>5, <3>1, <3>4
    <3>7. \A q \in With(b, {"ALREADY_PRESENT"})' : record'[Gate][q] # "none"
      <4>1. TAKE q \in With(b, {"ALREADY_PRESENT"})'
      <4>2. q \in Student /\ q \in reads[b] /\ decided'[b][q] = "ALREADY_PRESENT"
        BY <3>1 DEF With, IngestTypeOK
      <4>3. CASE q = s
        BY <2>5, <3>3, <3>4, <4>2, <4>3
      <4>4. CASE q # s
        BY <1>0, <2>5, <3>1, <3>3, <4>2, <4>4 DEF With
      <4>5. QED
        BY <4>3, <4>4
    <3>8. QED
      BY <1>0, <3>1, <3>5, <3>6, <3>7
  <2>6. ASSUME CommitBatch(b) PROVE Rows(b)'
    <3>1. /\ locked'[b] = {} /\ fresh'[b] = {} /\ pc'[b] = "committed" /\ pc[b] = "logging"
          /\ how' = how
      BY <2>6 DEF CommitBatch, GoTo, IngestTypeOK
    <3>2. Granted(b)' = Granted(b)
      BY <2>6 DEF CommitBatch, Granted, With
    <3>3. how[b] = "LIVE" => \A s \in With(b, {"ACCEPTED"}) : record'[Gate][s] # "none"
      <4>1. how[b] = "LIVE" => \A s \in With(b, {"ACCEPTED"}) : s \in fresh[b] /\ s \in Student
        BY <1>0, <1>2, <3>1 DEF With
      <4>2. QED
        BY <2>6, <4>1 DEF CommitBatch, IngestTypeOK, RegisterTypeOK, Gate, Type
    <3>4. how[b] = "LIVE" =>
            \A s \in With(b, {"ALREADY_PRESENT"}) : record'[Gate][s] # "none"
      BY <1>0, <1>2, <3>1, MarksStay
    <3>5. Granted(b) = With(b, {"ACCEPTED"}) \cup With(b, {"ALREADY_PRESENT"})
      BY DEF Granted, With, Accepted
    <3>6. QED
      BY <3>1, <3>2, <3>3, <3>4, <3>5
  <2>7. ASSUME MarkAndAnswer(b) \/ Die(b) \/ BreakDeadlock(b) PROVE Rows(b)'
    BY <2>7 DEF MarkAndAnswer, Die, BreakDeadlock, Leave, GoTo, IngestTypeOK
  <2>8. ASSUME StartLog(b), UNCHANGED record PROVE Rows(b)'
    <3>1. /\ pc[b] = "writing" /\ pc'[b] = "logging" /\ Todo(b) = {}
          /\ UNCHANGED <<reads, decided, how, locked, fresh>>
      BY <2>8 DEF StartLog, GoTo, IngestTypeOK
    <3>2. /\ \A d : With(b, d)' = With(b, d)
          /\ With(b, {"ACCEPTED"}) \subseteq locked[b]
      BY <3>1 DEF With, Todo
    <3>3. QED
      BY <1>0, <2>8, <3>1, <3>2
  <2>9. ASSUME LogRead(b), UNCHANGED record PROVE Rows(b)'
    <3>1. UNCHANGED <<pc, reads, decided, how, locked, fresh>>
      BY <2>9 DEF LogRead
    <3>2. \A d : With(b, d)' = With(b, d)
      BY <3>1 DEF With
    <3>3. Granted(b)' = Granted(b)
      BY <3>2 DEF Granted
    <3>4. QED
      BY <1>0, <2>9, <3>1, <3>2, <3>3
  <2>10. Rows(b)'
    BY <1>3, <2>2, <2>3, <2>4, <2>5, <2>6, <2>7, <2>8, <2>9 DEF Step, Quiet
  <2>11. QED
    BY <2>1, <2>10 DEF RowsAreDecided
<1>4. ASSUME UNCHANGED batchVars PROVE RowsAreDecided'
  <2>1. ASSUME NEW c \in Batch, NEW s \in fresh[c] PROVE record'[Gate][s] = record[Gate][s]
    <3>1. CASE Staff
      BY <1>1, <3>1 DEF Staff
    <3>2. CASE UNCHANGED record
      BY <3>2
    <3>3. CASE \E b \in Batch : Step(b)
      <4>1. PICK b \in Batch : Step(b)
        BY <3>3
      <4>2. ~CommitBatch(b)
        BY <1>4 DEF CommitBatch, GoTo, batchVars, IngestTypeOK
      <4>3. QED
        BY <1>1, <4>1, <4>2, BatchMarks
    <3>4. QED
      BY <3>1, <3>2, <3>3 DEF Next, vars, registerVars
  <2>2. UNCHANGED <<pc, reads, how, decided, locked, fresh>>
    BY <1>4 DEF batchVars
  <2>3. \A c \in Batch : /\ Granted(c)' = Granted(c)
                         /\ \A d : With(c, d)' = With(c, d)
    BY <2>2 DEF With, Granted
  <2>4. \A c \in Batch : Rows(c)'
    BY <1>0, <1>2, <2>1, <2>2, <2>3, MarksStay
  <2>5. QED
    BY <2>4 DEF RowsAreDecided
<1>5. QED
  BY <1>3, <1>4, StepsOfBatches

\* Every step keeps the debounced cards on the register.
LEMMA DebouncedNext ==
  IngestTypeOK /\ RowsAreDecided /\ DebouncedIsPresent /\ [Next]_vars => DebouncedIsPresent'
<1> SUFFICES ASSUME IngestTypeOK, RowsAreDecided, DebouncedIsPresent, [Next]_vars,
                    NEW s \in marks'
             PROVE  record'[Gate][s] # "none" \/ s \in shadowed'
  BY DEF DebouncedIsPresent
<1>1. IngestTypeOK' /\ s \in Student
  BY IngestNextType DEF IngestTypeOK
<1>2. shadowed \subseteq shadowed'
  <2>1. \A b \in Batch : Step(b) => shadowed \subseteq shadowed'
    BY DEF Step, Quiet, Receive, Load, EnsureSession, Upsert, StartLog, LogRead,
        CommitBatch, MarkAndAnswer, BreakDeadlock, Die
  <2>2. QED
    BY <2>1 DEF Next, Expire, SwitchCard, SetMode, Forget, DeclareHoliday, Staff, vars,
                ingestVars
<1>3. CASE s \in marks
  BY <1>1, <1>2, <1>3, MarksStay DEF DebouncedIsPresent
<1>4. CASE s \notin marks
  <2>1. PICK b \in Batch : MarkAndAnswer(b) /\ UNCHANGED record
    BY <1>4 DEF Next, Step, Quiet, Receive, Load, EnsureSession, Upsert, StartLog, LogRead,
                CommitBatch, BreakDeadlock, Die, Expire, SwitchCard, SetMode, Forget, DeclareHoliday, Staff, vars, ingestVars
  <2>2. s \in Granted(b) /\ pc[b] = "committed"
        /\ shadowed' = IF how[b] = "SHADOW" THEN shadowed \cup Granted(b) ELSE shadowed
    BY <1>4, <2>1 DEF MarkAndAnswer, Debounced
  <2>3. how[b] \in {"SHADOW", "LIVE"}
    BY DEF IngestTypeOK, Mode
  <2>4. QED
    BY <2>1, <2>2, <2>3 DEF RowsAreDecided
<1>5. QED
  BY <1>3, <1>4

-----------------------------------------------------------------------------
(* Batches and finalized sessions *)

\* Only staff finalize a session, and they overtake every batch that looked.
LEMMA OvertakenNext ==
  IngestTypeOK /\ RowsAreDecided /\ OvertakenIsLate /\ [Next]_vars => OvertakenIsLate'
<1> SUFFICES ASSUME IngestTypeOK, RowsAreDecided, OvertakenIsLate, [Next]_vars
             PROVE  OvertakenIsLate'
  OBVIOUS
<1> DEFINE Overtaken(c) == session[Gate].status = "FINALIZED" =>
      /\ pc[c] \in {"loaded", "writing"} /\ With(c, {"ACCEPTED"}) # {}
         => c \in late \/ (pc[c] = "loaded" /\ c \in needs)
      /\ pc[c] = "logging" /\ fresh[c] # {} => c \in late
<1>0. \A c \in Batch : Overtaken(c)
  BY DEF OvertakenIsLate
<1>1. ASSUME NEW b \in Batch, Step(b) PROVE OvertakenIsLate'
  <2>1. session'[Gate].status = "FINALIZED" => session[Gate].status = "FINALIZED"
    <3>1. CASE UNCHANGED session
      BY <3>1
    <3>2. CASE session' = [session EXCEPT ![Gate].status = "OPEN"]
      BY <3>2 DEF IngestTypeOK, RegisterTypeOK, Session, Gate, Type
    <3>3. QED
      BY <1>1, <3>1, <3>2 DEF Step, CommitBatch
  <2>2. ASSUME NEW c \in Batch, c # b PROVE Overtaken(c)'
    <3>1. Stands(c) /\ With(c, {"ACCEPTED"})' = With(c, {"ACCEPTED"})
      BY <1>1, <2>2, OthersStand, StandsKeeps
    <3>2. QED
      BY <1>0, <2>1, <3>1 DEF Stands
  <2>3. ASSUME NEW payload \in Payload, Receive(b, payload) PROVE Overtaken(b)'
    BY <2>3 DEF Receive, GoTo, IngestTypeOK
  <2>4. ASSUME Load(b), UNCHANGED session PROVE Overtaken(b)'
    <3>1. session[Gate].status = "FINALIZED" => \A s : Decide(b, s) # "ACCEPTED"
      BY DEF Decide
    <3>2. session[Gate].status = "FINALIZED" => With(b, {"ACCEPTED"})' = {}
      BY <2>4, <3>1 DEF Load, With, IngestTypeOK
    <3>3. fresh'[b] = {}
      BY <2>4 DEF Load, IngestTypeOK
    <3>4. QED
      BY <2>4, <3>2, <3>3
  <2>5. ASSUME EnsureSession(b), UNCHANGED session PROVE Overtaken(b)'
    <3>1. pc[b] = "loaded" /\ pc'[b] = "writing"
      BY <2>5 DEF EnsureSession, GoTo, IngestTypeOK
    <3>2. CASE b \notin needs \/ With(b, {"ACCEPTED"}) = {}
      <4>1. UNCHANGED <<decided, late, reads>>
        BY <2>5, <3>2 DEF EnsureSession
      <4>2. QED
        BY <1>0, <2>5, <3>1, <3>2, <4>1 DEF With
    <3>3. CASE b \in needs /\ session[Gate].status = "FINALIZED"
               /\ With(b, {"ACCEPTED"}) # {}
      <4>1. Downgrade(b) /\ reads' = reads
        BY <2>5, <3>3 DEF EnsureSession, Exists
      <4>2. With(b, {"ACCEPTED"})' = {}
        BY <4>1 DEF Downgrade, With, IngestTypeOK
      <4>3. QED
        BY <3>1, <4>2
    <3>4. QED
      BY <2>5, <3>2, <3>3
  <2>6. ASSUME NEW s \in Student, Upsert(b, s), UNCHANGED session PROVE Overtaken(b)'
    <3>1. pc[b] = "writing" /\ UNCHANGED <<pc, late, reads>> /\ s \in With(b, {"ACCEPTED"})
      BY <2>6 DEF Upsert, NextRow, Todo
    <3>2. QED
      BY <1>0, <2>6, <3>1
  <2>7. ASSUME CommitBatch(b) \/ MarkAndAnswer(b) \/ Die(b) \/ BreakDeadlock(b)
        PROVE  Overtaken(b)'
    BY <2>7 DEF CommitBatch, MarkAndAnswer, Die, BreakDeadlock, Leave, GoTo, IngestTypeOK
  <2>8. ASSUME StartLog(b), UNCHANGED session PROVE Overtaken(b)'
    <3>1. pc[b] = "writing" /\ pc'[b] = "logging" /\ UNCHANGED <<late, fresh>>
      BY <2>8 DEF StartLog, GoTo, IngestTypeOK
    <3>2. fresh[b] # {} => With(b, {"ACCEPTED"}) # {}
      BY DEF RowsAreDecided, With, IngestTypeOK
    <3>3. QED
      BY <1>0, <2>8, <3>1, <3>2
  <2>9. ASSUME LogRead(b), UNCHANGED session PROVE Overtaken(b)'
    <3>1. UNCHANGED <<pc, late, fresh>> /\ pc[b] = "logging"
      BY <2>9 DEF LogRead
    <3>2. QED
      BY <1>0, <2>9, <3>1
  <2>10. Overtaken(b)'
    BY <1>1, <2>3, <2>4, <2>5, <2>6, <2>7, <2>8, <2>9 DEF Step, Quiet
  <2>11. QED
    BY <2>2, <2>10 DEF OvertakenIsLate
<1>2. ASSUME UNCHANGED batchVars, ~\E b \in Batch : Step(b) PROVE OvertakenIsLate'
  <2>1. \A c \in Batch : With(c, {"ACCEPTED"})' = With(c, {"ACCEPTED"})
                         /\ pc'[c] = pc[c] /\ needs' = needs /\ fresh' = fresh
    BY <1>2 DEF batchVars, With
  <2>2. CASE Staff
    <3>1. late \subseteq late'
      BY <2>2 DEF Staff
    <3>2. session'[Gate].status = "FINALIZED" =>
            \/ session[Gate].status = "FINALIZED"
            \/ /\ {b \in Batch : pc[b] \in {"loaded", "writing"}} \subseteq late'
               /\ \A b \in Batch : pc[b] = "logging" => fresh[b] = {}
      BY <2>2 DEF Staff
    <3>3. QED
      BY <1>0, <2>1, <3>1, <3>2 DEF OvertakenIsLate
  <2>3. CASE UNCHANGED <<session, late>>
    BY <1>0, <2>1, <2>3 DEF OvertakenIsLate
  <2>4. QED
    BY <1>2, <2>2, <2>3
    DEF Next, Expire, SwitchCard, SetMode, Forget, DeclareHoliday, vars, registerVars,
        ingestVars
<1>3. QED
  BY <1>1, <1>2, StepsOfBatches

\* A step from "logging" to "committed" is the commit of that batch.
LEMMA OnlyCommitCommits ==
  ASSUME IngestTypeOK, [Next]_vars, NEW b \in Batch, pc[b] = "logging", pc'[b] = "committed"
  PROVE  CommitBatch(b)
<1>1. PICK c \in Batch : Step(c)
  BY StepsOfBatches DEF batchVars
<1>2. c = b
  BY <1>1, OthersStand DEF Stands
<1>3. ASSUME EnsureSession(b) \/ (\E s \in Student : Upsert(b, s)) \/ MarkAndAnswer(b)
             \/ StartLog(b) \/ LogRead(b) \/ BreakDeadlock(b) \/ Die(b)
      PROVE  pc'[b] # "committed"
  BY <1>3 DEF EnsureSession, Upsert, MarkAndAnswer, StartLog, LogRead, BreakDeadlock, Die, Leave,
              GoTo, IngestTypeOK
<1>4. QED
  BY <1>1, <1>2, <1>3 DEF Step, Quiet, Receive, Load

\* A commit into a finalized session that changes a record is an overtaken one.
LEMMA FinalizedStep ==
  ASSUME IngestInv, [Next]_vars, NEW b \in Batch, pc[b] = "logging", pc'[b] = "committed",
         session[Gate].status = "FINALIZED", record' # record
  PROVE  b \in late
<1>1. CommitBatch(b) /\ RegisterTypeOK
  BY OnlyCommitCommits DEF IngestInv, IngestTypeOK
<1>2. fresh[b] # {}
  <2>1. SUFFICES ASSUME fresh[b] = {} PROVE record' = record
    OBVIOUS
  <2>2. record' = [record EXCEPT ![Gate] = [s \in Student |-> record[Gate][s]]]
    BY <1>1, <2>1 DEF CommitBatch
  <2>3. QED
    BY <1>1, <2>2 DEF RegisterTypeOK, Gate, Type
<1>3. QED
  BY <1>2 DEF IngestInv, OvertakenIsLate

-----------------------------------------------------------------------------
(* Marks of the gate and of staff *)

\* A step of the register: who decided a place is what it was, save for the
\* place that staff edit.
LEMMA StaffDecides ==
  ASSUME RegisterTypeOK, MarksAreDecided, RegisterNext
  PROVE  /\ MarksAreDecided'
         /\ \/ \A t \in Type, s \in Student : Decider(t, s)' = Decider(t, s)
            \/ \E t \in Type, s \in Student : manual' = manual \cup {<<t, s>>}
                 /\ record' = [record EXCEPT ![t] = [@ EXCEPT ![s] = record'[t][s]]]
<1> DEFINE Same == \A t \in Type, s \in Student : Decider(t, s)' = Decider(t, s)
<1>1. ASSUME NEW r \in Request, Holder(r), Persist(r), UNCHANGED manual
      PROVE  MarksAreDecided' /\ Same
  <2>1. \A s \in Student : record["DAILY"][s] = "none" /\ <<"DAILY", s>> \notin manual
    BY <1>1 DEF RegisterTypeOK, MarksAreDecided, Type
  <2>2. /\ record'[Gate] = record[Gate]
        /\ \A s \in Student : record'["DAILY"][s] \in {"UNMARKED", "none"}
        /\ Exists("DAILY")'
    BY <1>1 DEF Persist, RegisterTypeOK, Exists, Gate, Type
  <2>3. MarksAreDecided'
    BY <1>1, <2>1, <2>2 DEF MarksAreDecided, Gate, Type
  <2>4. Same
    BY <1>1, <2>1, <2>2 DEF Decider, Gate, Type
  <2>5. QED
    BY <2>3, <2>4
<1>2. ASSUME UNCHANGED <<record, manual>>, Exists("DAILY") => Exists("DAILY")'
      PROVE  MarksAreDecided' /\ Same
  BY <1>2 DEF MarksAreDecided, Decider
<1>3. ASSUME NEW r \in Request, Serve(r) \/ Cut(r) \/ Lost(r)
      PROVE  MarksAreDecided' /\ Same
  BY <1>1, <1>2, <1>3
  DEF Serve, InsertSession, ReadRoster, Commit, Cut, Lost, Holder, Exists
<1>4. ASSUME NEW t \in Type, NEW sweep \in BOOLEAN, Finalize(t, sweep)
      PROVE  MarksAreDecided' /\ Same
  <2>1. Exists("DAILY") => Exists("DAILY")'
    BY <1>4 DEF Finalize, RegisterTypeOK, Exists, Type
  <2>2. \A u \in Type, s \in Student :
           \/ record'[u][s] = record[u][s]
           \/ record[u][s] = "UNMARKED" /\ record'[u][s] = "ABSENT"
    BY <1>4 DEF Finalize, AutoAbsent, RegisterTypeOK
  <2>3. manual' = manual /\ Gate \in Type /\ "DAILY" \in Type
    BY <1>4 DEF Finalize, Gate, Type
  <2>4. QED
    BY <2>1, <2>2, <2>3 DEF MarksAreDecided, Decider
<1>5. ASSUME NEW t \in Type, Reopen(t)
      PROVE  MarksAreDecided' /\ Same
  <2>1. Exists("DAILY") => Exists("DAILY")'
    BY <1>5 DEF Reopen, RegisterTypeOK, Exists, Type
  <2>2. QED
    BY <1>2, <1>5, <2>1 DEF Reopen
<1>6. ASSUME NEW t \in Type, NEW s \in Student, NEW m \in {"PRESENT", "EXCUSED", "ABSENT"},
             Edit(t, s, m)
      PROVE  /\ MarksAreDecided'
             /\ manual' = manual \cup {<<t, s>>}
             /\ record' = [record EXCEPT ![t] = [@ EXCEPT ![s] = record'[t][s]]]
  <2>1. /\ record' = [record EXCEPT ![t] = [record[t] EXCEPT ![s] = m]]
        /\ record'[t][s] = m
    BY <1>6 DEF Edit, RegisterTypeOK
  <2>2. \A u \in Type, q \in Student :
          record'[u][q] = IF u = t /\ q = s THEN m ELSE record[u][q]
    BY <2>1 DEF RegisterTypeOK
  <2>3. /\ manual' = manual \cup {<<t, s>>} /\ Exists(t)
        /\ Exists("DAILY")' = Exists("DAILY") /\ Gate \in Type /\ "DAILY" \in Type
    BY <1>6 DEF Edit, Exists, Gate, Type
  <2>4. MarksAreDecided'
    BY <2>2, <2>3 DEF MarksAreDecided
  <2>5. QED
    BY <2>1, <2>3, <2>4
<1>7. ASSUME NEW s \in Student, Move(s) PROVE MarksAreDecided' /\ Same
  BY <1>2, <1>7 DEF Move, Exists
<1>8. ASSUME Assign PROVE MarksAreDecided' /\ Same
  BY <1>2, <1>8 DEF Assign, Exists
<1>9. ASSUME NEW r \in Request, NEW c \in Caller, Ask(r, c) PROVE MarksAreDecided' /\ Same
  BY <1>2, <1>9 DEF Ask, Exists
<1>10. QED
  BY <1>3, <1>4, <1>5, <1>6, <1>7, <1>8, <1>9 DEF RegisterNext

\* A commit marks the rows it inserted, where nobody had decided.
LEMMA CommitDecides ==
  ASSUME IngestInv, NEW b \in Batch, CommitBatch(b)
  PROVE  /\ MarksAreDecided'
         /\ \A s \in fresh[b] : s \in Student /\ Decider(Gate, s) = "nobody"
         /\ \A t \in Type, s \in Student :
              Decider(t, s)' = IF t = Gate /\ s \in fresh[b] THEN "gate" ELSE Decider(t, s)
<1>1. RegisterTypeOK /\ MarksAreDecided /\ Gate \in Type
  BY DEF IngestInv, IngestTypeOK, Gate, Type
<1>2. \A s \in fresh[b] : s \in Student /\ record[Gate][s] = "none" /\ <<Gate, s>> \notin manual
  BY <1>1 DEF IngestInv, IngestTypeOK, RowsAreDecided, MarksAreDecided
<1>3. \A t \in Type, s \in Student :
        record'[t][s] = IF t = Gate /\ s \in fresh[b] THEN "PRESENT" ELSE record[t][s]
  BY <1>1 DEF CommitBatch, RegisterTypeOK
<1>4. \A t \in Type, s \in Student :
        <<t, s>> \in manual' <=> <<t, s>> \in manual /\ ~(t = Gate /\ s \in fresh[b])
  BY DEF CommitBatch
<1>5. Exists("DAILY") => Exists("DAILY")'
  BY <1>1 DEF CommitBatch, RegisterTypeOK, Exists, Gate, Type
<1>6. "DAILY" \in Type /\ Gate # "DAILY"
  BY DEF Type, Gate
<1>7. MarksAreDecided'
  BY <1>1, <1>3, <1>4, <1>5, <1>6 DEF MarksAreDecided
<1>8. QED
  BY <1>2, <1>3, <1>4, <1>7 DEF Decider

\* Every step keeps the marks decided as they should be.
LEMMA MarksNext == IngestInv /\ [Next]_vars => MarksAreDecided'
<1> SUFFICES ASSUME IngestInv, [Next]_vars PROVE MarksAreDecided'
  OBVIOUS
<1>1. CASE UNCHANGED <<session, record, manual>>
  BY <1>1 DEF IngestInv, MarksAreDecided, Exists
<1>2. CASE Staff
  BY <1>2, StaffDecides DEF Staff, IngestInv, IngestTypeOK
<1>3. CASE \E b \in Batch : CommitBatch(b)
  BY <1>3, CommitDecides
<1>4. QED
  BY <1>1, <1>2, <1>3 DEF Next, Step, vars, registerVars

-----------------------------------------------------------------------------
(* Theorems *)

LEMMA InitInv == Init => IngestInv
<1> SUFFICES ASSUME Init PROVE IngestInv
  OBVIOUS
<1>1. RegisterTypeOK
  <2>1. PICK made \in {"NONE", "OPEN"} :
          RegisterStart([t \in Type |-> IF t = Gate THEN [NoSession EXCEPT !.status = made]
                                       ELSE NoSession])
    BY DEF Init
  <2>2. [t \in Type |-> IF t = Gate THEN [NoSession EXCEPT !.status = made] ELSE NoSession]
          \in [Type -> Session]
    BY DEF NoSession, Session, Status
  <2>3. QED
    BY <2>1, <2>2, RegisterStartType
<1>2. IngestTypeOK
  BY <1>1, DecisionsTyped DEF Init, IngestTypeOK, Mode
<1>3. LocksInOrder /\ RowsAreDecided /\ DebouncedIsPresent /\ OvertakenIsLate
  BY DEF Init, LocksInOrder, RowsAreDecided, DebouncedIsPresent, OvertakenIsLate
<1>4. MarksAreDecided
  BY DEF Init, RegisterStart, MarksAreDecided, Gate, Type
<1>5. QED
  BY <1>2, <1>3, <1>4 DEF IngestInv

LEMMA NextInv == IngestInv /\ [Next]_vars => IngestInv'
  BY IngestNextType, LocksNext, RowsNext, DebouncedNext, OvertakenNext, MarksNext DEF IngestInv

\* However batches and staff interleave: the state is typed and a row has one
\* batch that writes it.
THEOREM IngestTypeCorrect == Spec => []IngestTypeOK
<1>1. IngestInv => IngestTypeOK
  BY DEF IngestInv
<1>2. QED
  BY <1>1, InitInv, NextInv, PTL DEF Spec

\* However many batches overlap, whatever group of them is deadlocked, those of
\* it at the event log are: rows and sessions alone never deadlock them.
THEOREM UpsertsNeverDeadlock == Spec => []DeadlocksOnlyAtLog
<1>1. IngestInv => DeadlocksOnlyAtLog
  BY LogWaits DEF IngestInv
<1>2. QED
  BY <1>1, InitInv, NextInv, PTL DEF Spec

\* A card is debounced only if its student is on the register of the gate, save
\* for what a batch in SHADOW mode left in Redis.
THEOREM DebouncedCorrect == Spec => []DebouncedIsPresent
<1>1. IngestInv => DebouncedIsPresent
  BY DEF IngestInv
<1>2. QED
  BY <1>1, InitInv, NextInv, PTL DEF Spec

\* A batch writes into a finalized session only if it was finalized after the
\* batch last looked at it.
THEOREM FinalizedCorrect == Spec => FinalizedUnlessOvertaken
<1>1. IngestInv /\ [Next]_vars =>
        [\A b \in Batch :
           /\ pc[b] = "logging" /\ pc'[b] = "committed"
           /\ session[Gate].status = "FINALIZED" /\ record' # record
           => b \in late]_vars
  BY FinalizedStep
<1>2. QED
  BY <1>1, InitInv, NextInv, PTL DEF Spec, FinalizedUnlessOvertaken

-----------------------------------------------------------------------------
(* The gate implements its promise *)

Ruler == [p \in Type \X Student |-> Decider(p[1], p[2])]

\* The places a step decides, as one step of the promise.
LEMMA RulerStep ==
  ASSUME NEW P \in SUBSET (Type \X Student), NEW who \in {"gate", "staff"},
         \A t \in Type, s \in Student :
           Decider(t, s)' = IF <<t, s>> \in P THEN who ELSE Decider(t, s)
  PROVE  Ruler' = [p \in Type \X Student |-> IF p \in P THEN who ELSE Ruler[p]]
<1>1. \A p \in Type \X Student :
        p = <<p[1], p[2]>> /\ p[1] \in Type /\ p[2] \in Student
  OBVIOUS
<1>2. \A p \in Type \X Student :
        Decider(p[1], p[2])' = IF p \in P THEN who ELSE Decider(p[1], p[2])
  BY <1>1
<1>3. QED
  BY <1>2 DEF Ruler

\* Every step of the gate and of staff is a step of the promise or a stutter.
LEMMA PromiseStep ==
  ASSUME IngestInv, [Next]_vars
  PROVE  [Promise!Next]_<<Ruler, {Gate} \X acked>>
<1> DEFINE Stutter == UNCHANGED <<Ruler, {Gate} \X acked>>
<1>0. IngestTypeOK /\ RegisterTypeOK /\ Gate \in Type
  BY DEF IngestInv, IngestTypeOK, Gate, Type
<1>1. CASE UNCHANGED <<record, manual, acked>>
  BY <1>1 DEF Ruler, Decider
<1>2. ASSUME NEW b \in Batch, CommitBatch(b) PROVE Promise!Next
  <2> DEFINE P == {Gate} \X fresh[b]
  <2>1. P \in SUBSET (Type \X Student) /\ \A p \in P : Ruler[p] = "nobody"
    BY <1>0, <1>2, CommitDecides DEF Ruler
  <2>2. \A t \in Type, s \in Student :
          Decider(t, s)' = IF <<t, s>> \in P THEN "gate" ELSE Decider(t, s)
    BY <1>2, CommitDecides
  <2>3. Ruler' = [p \in Type \X Student |-> IF p \in P THEN "gate" ELSE Ruler[p]]
    BY <2>1, <2>2, RulerStep
  <2>4. acked' = acked
    BY <1>2 DEF CommitBatch
  <2>5. Promise!Arrive(P)
    BY <2>1, <2>3, <2>4 DEF Promise!Arrive, Ruler
  <2>6. QED
    BY <2>1, <2>5 DEF Promise!Next
<1>3. ASSUME NEW b \in Batch, MarkAndAnswer(b), UNCHANGED <<record, manual>>
      PROVE  Promise!Next \/ Stutter
  <2> DEFINE P == {Gate} \X Granted(b)
  <2>1. Ruler' = Ruler
    BY <1>3 DEF Ruler, Decider
  <2>2. CASE how[b] = "LIVE"
    <3>1. \A s \in Granted(b) : s \in Student /\ record[Gate][s] # "none"
      BY <1>3, <2>2 DEF MarkAndAnswer, IngestInv, IngestTypeOK, RowsAreDecided, Granted, With
    <3>2. P \in SUBSET (Type \X Student) /\ \A p \in P : Ruler[p] # "nobody"
      BY <1>0, <3>1 DEF IngestInv, MarksAreDecided, Ruler, Decider
    <3>3. ({Gate} \X acked)' = ({Gate} \X acked) \cup P
      BY <1>3, <2>2 DEF MarkAndAnswer
    <3>4. Promise!Acknowledge(P)
      BY <2>1, <3>2, <3>3 DEF Promise!Acknowledge, Ruler
    <3>5. QED
      BY <3>2, <3>4 DEF Promise!Next
  <2>3. CASE how[b] # "LIVE"
    BY <1>3, <2>1, <2>3 DEF MarkAndAnswer
  <2>4. QED
    BY <2>2, <2>3
<1>4. ASSUME Staff PROVE Promise!Next \/ Stutter
  <2>1. acked' = acked
    BY <1>4 DEF Staff
  <2>2. CASE \A t \in Type, s \in Student : Decider(t, s)' = Decider(t, s)
    <3>1. \A p \in Type \X Student : p[1] \in Type /\ p[2] \in Student
      OBVIOUS
    <3>2. \A p \in Type \X Student : Decider(p[1], p[2])' = Decider(p[1], p[2])
      BY <2>2, <3>1
    <3>3. QED
      BY <2>1, <3>2 DEF Ruler
  <2>3. ASSUME NEW t \in Type, NEW s \in Student, manual' = manual \cup {<<t, s>>},
               record' = [record EXCEPT ![t] = [@ EXCEPT ![s] = record'[t][s]]]
        PROVE  Promise!Next
    <3> DEFINE P == {<<t, s>>}
    <3>1. \A u \in Type, q \in Student : <<u, q>> \notin P => record'[u][q] = record[u][q]
      BY <1>0, <2>3 DEF RegisterTypeOK
    <3>2. \A u \in Type, q \in Student :
            Decider(u, q)' = IF <<u, q>> \in P THEN "staff" ELSE Decider(u, q)
      BY <2>3, <3>1 DEF Decider
    <3>3. P \in SUBSET (Type \X Student)
      OBVIOUS
    <3>4. Ruler' = [p \in Type \X Student |-> IF p \in P THEN "staff" ELSE Ruler[p]]
      BY <3>2, <3>3, RulerStep
    <3>5. Promise!Decide(P)
      BY <2>1, <3>4 DEF Promise!Decide, Ruler
    <3>6. QED
      BY <3>3, <3>5 DEF Promise!Next
  <2>4. QED
    BY <1>0, <1>4, <2>2, <2>3, StaffDecides DEF Staff, IngestInv
<1>5. QED
  BY <1>1, <1>2, <1>3, <1>4
  DEF Next, Step, Quiet, Receive, Load, EnsureSession, Upsert, StartLog, LogRead,
      BreakDeadlock, Die, Expire, SwitchCard,
      SetMode, Forget, DeclareHoliday, vars, registerVars, ingestVars

\* The gate adds presences to places nobody decided, never touches what staff
\* decided, and acknowledges only what is on the register.
THEOREM PromiseKept == Spec => KeepsPromise
<1>1. Init => Promise!Init
  BY DEF Init, RegisterStart, Promise!Init, Decider
<1>2. IngestInv /\ [Next]_vars => [Promise!Next]_<<Ruler, {Gate} \X acked>>
  BY PromiseStep
<1>3. QED
  BY <1>1, <1>2, InitInv, NextInv, PTL DEF Spec, KeepsPromise, Promise!Spec, Ruler
=============================================================================
