--------------------------- MODULE Register_proofs ---------------------------
(* Theorems about Register, for every class and any number of requests *)
EXTENDS Register, TLAPS

\* A request is nobody's exactly while it is free.
LEMMA CallersAreSomebody == Nobody \notin Caller
  BY RegisterAssumption DEF Nobody, Caller

\* Initially every variable of the register is of its type.
LEMMA RegisterStartType ==
  ASSUME NEW sessions \in [Type -> Session], RegisterStart(sessions)
  PROVE  RegisterTypeOK
  BY DEF RegisterStart, RegisterTypeOK, Session, Mark, Bound, Holder

LEMMA NoSessionTyped == [t \in Type |-> NoSession] \in [Type -> Session]
  BY DEF NoSession, Session, Status

\* Spending a bound keeps its counters natural numbers.
LEMMA UseType ==
  ASSUME DOMAIN used = Bound, \A what \in Bound : used[what] \in Nat,
         NEW w \in Bound, NEW limit, Use(w, limit)
  PROVE  DOMAIN used' = Bound /\ \A what \in Bound : used'[what] \in Nat
  BY DEF Use

\* The end of a request leaves the requests typed.
LEMMA FreeType ==
  ASSUME RegisterTypeOK, NEW r \in Request, Free(r)
  PROVE  /\ caller' \in [Request -> Caller \cup {Nobody}]
         /\ stage' \in [Request -> {"free", "missing", "inserted", "filled"}]
         /\ snapshot' \in [Request -> SUBSET Student]
         /\ \A q \in Request : stage'[q] = "free" <=> caller'[q] = Nobody
         /\ \A q \in Request : snapshot'[q] # {} => stage'[q] = "filled"
         /\ \A q \in Request : Holder(q)' => Holder(q) /\ q # r
  BY DEF RegisterTypeOK, Free, Holder

\* What a transaction commits is typed.
LEMMA PersistType ==
  ASSUME RegisterTypeOK, NEW r \in Request, Persist(r)
  PROVE  /\ session' \in [Type -> Session] /\ roster' \subseteq Student
         /\ record' \in [Type -> [Student -> Mark]]
  <1>1. snapshot[r] \subseteq Student
    BY DEF RegisterTypeOK
  <1>2. [s \in Student |-> IF s \in snapshot[r] THEN "UNMARKED" ELSE "none"]
          \in [Student -> Mark]
    BY DEF Mark
  <1>3. [status |-> "OPEN", client |-> IF caller[r] \in Device THEN caller[r] ELSE Nobody]
          \in Session
    BY DEF Session, Status
  <1>4. QED
    BY <1>1, <1>2, <1>3 DEF RegisterTypeOK, Persist

\* Every step of the register keeps its types.
LEMMA RegisterNextType == RegisterTypeOK /\ RegisterNext => RegisterTypeOK'
<1> SUFFICES ASSUME RegisterTypeOK, RegisterNext PROVE RegisterTypeOK'
  OBVIOUS
<1> USE RegisterAssumption
<1>1. ASSUME NEW r \in Request, InsertSession(r) PROVE RegisterTypeOK'
  <2>1. CASE Exists("DAILY")
    <3>1. Free(r) /\ answered' \subseteq Device
      BY <1>1, <2>1 DEF InsertSession, Told, RegisterTypeOK
    <3>2. QED
      BY <1>1, <2>1, <3>1, FreeType DEF InsertSession, RegisterTypeOK, classVars, Exists
  <2>2. CASE ~Exists("DAILY")
    BY <1>1, <2>2
    DEF InsertSession, KeyFree, RegisterTypeOK, classVars, Holder, Exists
  <2>3. QED
    BY <2>1, <2>2
<1>2. ASSUME NEW r \in Request, ReadRoster(r) PROVE RegisterTypeOK'
  BY <1>2 DEF ReadRoster, RegisterTypeOK, classVars, Holder, Exists
<1>3. ASSUME NEW r \in Request, Commit(r) PROVE RegisterTypeOK'
  <2>1. answered' \subseteq Device /\ Holder(r)
    BY <1>3 DEF Commit, Told, RegisterTypeOK, Holder
  <2>2. \A q \in Request : ~Holder(q)'
    BY <1>3, <2>1, FreeType DEF Commit, RegisterTypeOK
  <2>3. QED
    BY <1>3, <2>1, <2>2, FreeType, PersistType DEF Commit, RegisterTypeOK, classVars
<1>4. ASSUME NEW r \in Request, Cut(r) PROVE RegisterTypeOK'
  <2>1. \A q \in Request : ~Holder(q)'
    BY <1>4, FreeType DEF Cut, RegisterTypeOK
  <2>2. DOMAIN used' = Bound /\ \A what \in Bound : used'[what] \in Nat
    BY <1>4, UseType DEF Cut, RegisterTypeOK, Bound
  <2>3. QED
    BY <1>4, <2>1, <2>2, FreeType, PersistType DEF Cut, RegisterTypeOK, classVars
<1>5. ASSUME NEW r \in Request, Lost(r) PROVE RegisterTypeOK'
  <2>1. DOMAIN used' = Bound /\ \A what \in Bound : used'[what] \in Nat
    BY <1>5, UseType DEF Lost, RegisterTypeOK, Bound
  <2>2. QED
    BY <1>5, <2>1, FreeType DEF Lost, RegisterTypeOK, classVars, Exists
<1>6. ASSUME NEW r \in Request, NEW c \in Caller, Ask(r, c) PROVE RegisterTypeOK'
  <2>1. DOMAIN used' = Bound /\ \A what \in Bound : used'[what] \in Nat
    BY <1>6, UseType DEF Ask, RegisterTypeOK, Bound
  <2>2. answered' \subseteq Device
    BY <1>6 DEF Ask, Told, RegisterTypeOK
  <2>3. /\ \/ UNCHANGED requestVars
           \/ /\ caller' = [caller EXCEPT ![r] = c]
              /\ stage' = [stage EXCEPT ![r] = "missing"]
              /\ UNCHANGED snapshot
        /\ stage[r] = "free"
        /\ UNCHANGED <<session, roster, record, manual, ruled, classVars, torn>>
    BY <1>6 DEF Ask
  <2>4. QED
    BY <2>1, <2>2, <2>3, CallersAreSomebody
    DEF RegisterTypeOK, requestVars, classVars, Holder, Exists
<1>7. ASSUME NEW t \in Type, Reopen(t) PROVE RegisterTypeOK'
  <2>1. DOMAIN used' = Bound /\ \A what \in Bound : used'[what] \in Nat
    BY <1>7, UseType DEF Reopen, RegisterTypeOK, Bound
  <2>2. session' \in [Type -> Session]
    BY <1>7 DEF Reopen, RegisterTypeOK, Session, Status
  <2>3. Exists("DAILY")' => Exists("DAILY")
    BY <1>7 DEF Reopen, RegisterTypeOK, Exists
  <2>4. QED
    BY <1>7, <2>1, <2>2, <2>3 DEF Reopen, RegisterTypeOK, classVars, requestVars, Holder
<1>8. ASSUME NEW t \in Type, NEW sweep \in BOOLEAN, Finalize(t, sweep) PROVE RegisterTypeOK'
  <2>1. DOMAIN used' = Bound /\ \A what \in Bound : used'[what] \in Nat
    BY <1>8, UseType DEF Finalize, RegisterTypeOK, Bound
  <2>2. session' \in [Type -> Session]
    BY <1>8 DEF Finalize, RegisterTypeOK, Session, Status
  <2>3. record' \in [Type -> [Student -> Mark]]
    BY <1>8 DEF Finalize, AutoAbsent, RegisterTypeOK, Mark
  <2>4. Exists("DAILY")' => Exists("DAILY")
    BY <1>8 DEF Finalize, RegisterTypeOK, Exists
  <2>5. QED
    BY <1>8, <2>1, <2>2, <2>3, <2>4
    DEF Finalize, RegisterTypeOK, classVars, requestVars, Holder
<1>9. ASSUME NEW t \in Type, NEW s \in Student, NEW m \in {"PRESENT", "EXCUSED", "ABSENT"},
             Edit(t, s, m)
      PROVE  RegisterTypeOK'
  <2>1. DOMAIN used' = Bound /\ \A what \in Bound : used'[what] \in Nat
    BY <1>9, UseType DEF Edit, RegisterTypeOK, Bound
  <2>2. record' \in [Type -> [Student -> Mark]]
    BY <1>9 DEF Edit, RegisterTypeOK, Mark
  <2>3. QED
    BY <1>9, <2>1, <2>2 DEF Edit, RegisterTypeOK, classVars, requestVars, Holder, Exists
<1>10. ASSUME NEW s \in Student, Move(s) PROVE RegisterTypeOK'
  <2>1. DOMAIN used' = Bound /\ \A what \in Bound : used'[what] \in Nat
    BY <1>10, UseType DEF Move, RegisterTypeOK, Bound
  <2>2. QED
    BY <1>10, <2>1 DEF Move, RegisterTypeOK, requestVars, Holder, Exists
<1>11. ASSUME Assign PROVE RegisterTypeOK'
  <2>1. DOMAIN used' = Bound /\ \A what \in Bound : used'[what] \in Nat
    BY <1>11, UseType DEF Assign, RegisterTypeOK, Bound
  <2>2. QED
    BY <1>11, <2>1 DEF Assign, RegisterTypeOK, requestVars, Holder, Exists
<1>12. QED
  BY <1>1, <1>2, <1>3, <1>4, <1>5, <1>6, <1>7, <1>8, <1>9, <1>10, <1>11
  DEF RegisterNext, Serve

\* A step that leaves the register alone keeps its types.
LEMMA RegisterStutterType == RegisterTypeOK /\ UNCHANGED registerVars => RegisterTypeOK'
  BY DEF RegisterTypeOK, registerVars, classVars, requestVars, Holder, Exists

\* The state of the register is typed, and only one request at a time holds
\* the session it inserted, however teachers, polls and devices race.
THEOREM RegisterTypeCorrect == RegisterSpec => []RegisterTypeOK
<1>1. RegisterInit => RegisterTypeOK
  BY RegisterStartType, NoSessionTyped DEF RegisterInit
<1>2. RegisterTypeOK /\ [RegisterNext]_registerVars => RegisterTypeOK'
  BY RegisterNextType, RegisterStutterType
<1>3. QED
  BY <1>1, <1>2, PTL DEF RegisterSpec

\* A step of the register keeps every session there is, and changes its marks
\* only by the sweep of a finalization or by an edit.
LEMMA RegisterStepMarks ==
  ASSUME RegisterTypeOK, RegisterNext, NEW t \in Type, NEW s \in Student, Exists(t)
  PROVE  /\ Exists(t)'
         /\ \/ record'[t][s] = record[t][s]
            \/ record[t][s] = "UNMARKED" /\ record'[t][s] = "ABSENT"
            \/ <<t, s>> \in ruled'
<1> DEFINE Goal == /\ Exists(t)'
                   /\ \/ record'[t][s] = record[t][s]
                      \/ record[t][s] = "UNMARKED" /\ record'[t][s] = "ABSENT"
                      \/ <<t, s>> \in ruled'
<1>1. ASSUME NEW r \in Request, Holder(r), Persist(r) PROVE Goal
  <2>1. t # "DAILY"
    BY <1>1 DEF RegisterTypeOK
  <2>2. QED
    BY <1>1, <2>1 DEF Persist, RegisterTypeOK, Exists
<1>2. ASSUME NEW r \in Request, Serve(r) \/ Cut(r) \/ Lost(r) PROVE Goal
  BY <1>1, <1>2 DEF Serve, InsertSession, ReadRoster, Commit, Cut, Lost, Holder, Exists
<1>3. ASSUME NEW u \in Type, NEW sweep \in BOOLEAN, Finalize(u, sweep) PROVE Goal
  <2>1. Exists(t)'
    BY <1>3 DEF Finalize, RegisterTypeOK, Exists
  <2>2. QED
    BY <1>3, <2>1 DEF Finalize, AutoAbsent, RegisterTypeOK
<1>4. ASSUME NEW u \in Type, Reopen(u) PROVE Goal
  BY <1>4 DEF Reopen, RegisterTypeOK, Exists
<1>5. ASSUME NEW u \in Type, NEW q \in Student, NEW m \in {"PRESENT", "EXCUSED", "ABSENT"},
             Edit(u, q, m)
      PROVE  Goal
  BY <1>5 DEF Edit, RegisterTypeOK, Exists
<1>6. ASSUME NEW r \in Request, NEW c \in Caller, Ask(r, c) PROVE Goal
  BY <1>6 DEF Ask, Exists
<1>7. ASSUME NEW q \in Student, Move(q) PROVE Goal
  BY <1>7 DEF Move, Exists
<1>8. ASSUME Assign PROVE Goal
  BY <1>8 DEF Assign, Exists
<1>9. QED
  BY <1>2, <1>3, <1>4, <1>5, <1>6, <1>7, <1>8 DEF RegisterNext

\* What staff ruled stays ruled, and only what they rule becomes manual.
LEMMA RegisterStepRules ==
  ASSUME RegisterNext
  PROVE  ruled \subseteq ruled' /\ manual' \subseteq manual \cup ruled'
  BY DEF RegisterNext, Serve, InsertSession, ReadRoster, Commit, Cut, Lost, Ask, Finalize,
         Reopen, Edit, Move, Assign

-----------------------------------------------------------------------------
\* A request that read its roster read somebody: a class is never empty.
SnapshotsAreRead ==
  /\ enrolled # {}
  /\ \A r \in Request : stage[r] = "filled" => snapshot[r] # {}

RosterInv == RegisterTypeOK /\ SnapshotsAreRead /\ RosterUnlessTorn

\* Every step keeps the roster of a DAILY session that was not torn.
LEMMA RosterNext == RosterInv /\ RegisterNext => RosterInv'
<1> SUFFICES ASSUME RosterInv, RegisterNext PROVE RosterInv'
  OBVIOUS
<1>0. RegisterTypeOK /\ RegisterTypeOK'
  BY RegisterNextType DEF RosterInv
<1>1. ASSUME NEW r \in Request, InsertSession(r) \/ ReadRoster(r) \/ Lost(r)
      PROVE  SnapshotsAreRead' /\ RosterUnlessTorn'
  BY <1>0, <1>1
  DEF InsertSession, ReadRoster, Lost, Free, RosterInv, SnapshotsAreRead,
      RosterUnlessTorn, classVars, Exists, RegisterTypeOK
<1>2. ASSUME NEW r \in Request, Commit(r)
      PROVE  SnapshotsAreRead' /\ RosterUnlessTorn'
  BY <1>0, <1>2
  DEF Commit, Persist, Free, RosterInv, SnapshotsAreRead, RosterUnlessTorn, classVars,
      RegisterTypeOK
<1>3. ASSUME NEW r \in Request, Cut(r)
      PROVE  SnapshotsAreRead' /\ RosterUnlessTorn'
  <2>1. stage[r] = "filled" \/ torn'
    BY <1>3 DEF Cut, Holder
  <2>2. QED
    BY <1>0, <1>3, <2>1
    DEF Cut, Persist, Free, RosterInv, SnapshotsAreRead, RosterUnlessTorn, classVars,
        RegisterTypeOK
<1>4. ASSUME NEW r \in Request, NEW c \in Caller, Ask(r, c)
      PROVE  SnapshotsAreRead' /\ RosterUnlessTorn'
  BY <1>0, <1>4
  DEF Ask, RosterInv, SnapshotsAreRead, RosterUnlessTorn, classVars, requestVars, Exists,
      RegisterTypeOK
<1>5. ASSUME NEW t \in Type, Reopen(t) \/ \E sweep \in BOOLEAN : Finalize(t, sweep)
      PROVE  SnapshotsAreRead' /\ RosterUnlessTorn'
  <2>1. Exists("DAILY")' => Exists("DAILY")
    <3>1. CASE Reopen(t)
      BY <1>0, <3>1 DEF Reopen, Exists, RegisterTypeOK
    <3>2. CASE \E sweep \in BOOLEAN : Finalize(t, sweep)
      BY <1>0, <3>2 DEF Finalize, Exists, RegisterTypeOK
    <3>3. QED
      BY <1>5, <3>1, <3>2
  <2>2. QED
    BY <1>5, <2>1
    DEF Reopen, Finalize, RosterInv, SnapshotsAreRead, RosterUnlessTorn, classVars,
        requestVars
<1>6. ASSUME NEW t \in Type, NEW s \in Student, NEW m \in {"PRESENT", "EXCUSED", "ABSENT"},
             Edit(t, s, m)
      PROVE  SnapshotsAreRead' /\ RosterUnlessTorn'
  BY <1>6
  DEF Edit, RosterInv, SnapshotsAreRead, RosterUnlessTorn, classVars, requestVars, Exists
<1>7. ASSUME NEW s \in Student, Move(s)
      PROVE  SnapshotsAreRead' /\ RosterUnlessTorn'
  BY <1>7 DEF Move, RosterInv, SnapshotsAreRead, RosterUnlessTorn, requestVars, Exists
<1>8. ASSUME Assign
      PROVE  SnapshotsAreRead' /\ RosterUnlessTorn'
  BY <1>8 DEF Assign, RosterInv, SnapshotsAreRead, RosterUnlessTorn, requestVars, Exists
<1>9. SnapshotsAreRead' /\ RosterUnlessTorn'
  BY <1>1, <1>2, <1>3, <1>4, <1>5, <1>6, <1>7, <1>8 DEF RegisterNext, Serve
<1>10. QED
  BY <1>0, <1>9 DEF RosterInv

\* A DAILY session has a roster, whichever of the requests that raced for it won
\* and whatever failed, unless a cut connection committed it halfway.
THEOREM RosterCorrect == RegisterSpec => []RosterUnlessTorn
<1>1. RegisterInit => RosterInv
  <2>1. RegisterInit => RegisterTypeOK
    BY RegisterStartType, NoSessionTyped DEF RegisterInit
  <2>2. RegisterInit => SnapshotsAreRead /\ RosterUnlessTorn
    BY RegisterAssumption
    DEF RegisterInit, RegisterStart, SnapshotsAreRead, RosterUnlessTorn, Exists, NoSession,
        Type
  <2>3. QED
    BY <2>1, <2>2 DEF RosterInv
<1>2. RosterInv /\ [RegisterNext]_registerVars => RosterInv'
  <2>1. RosterInv /\ UNCHANGED registerVars => RosterInv'
    BY RegisterStutterType
    DEF RosterInv, SnapshotsAreRead, RosterUnlessTorn, registerVars, classVars, requestVars,
        Exists
  <2>2. QED
    BY <2>1, RosterNext
<1>3. RosterInv => RosterUnlessTorn
  BY DEF RosterInv
<1>4. QED
  BY <1>1, <1>2, <1>3, PTL DEF RegisterSpec
=============================================================================
