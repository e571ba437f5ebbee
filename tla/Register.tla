------------------------------ MODULE Register ------------------------------
(***************************************************************************)
(* The attendance register of one class on one day: how its sessions come  *)
(* to be (a teacher's request, the poll of the gate page, a device that    *)
(* worked offline), and how staff edit and close them. A class can have    *)
(* two sessions a day: the DAILY one, made with a roster, and the          *)
(* GATE_ARRIVAL one that only the gate makes (GateWebhook, GateIngest),    *)
(* without a roster.                                                       *)
(***************************************************************************)
EXTENDS Integers, FiniteSets

CONSTANTS
  Student,     \* students of the school who may be in the class
  Request,     \* requests for a session the server works on at a time
  Device,      \* devices that began the session offline, each with its own id
  MaxRequests, \* bound: requests of teachers and polls
  MaxEdits,    \* bound: manual edits
  MaxCloses,   \* bound: changes of a session's status
  MaxMoves,    \* bound: changes of enrolment or of the assigned teacher
  MaxFaults    \* bound: connections cut and transactions lost

\* A device is named by its client session id, a UUID it made.
ASSUME RegisterAssumption ==
  /\ {MaxRequests, MaxEdits, MaxCloses, MaxMoves, MaxFaults} \subseteq Nat
  /\ {"nobody", "staff", "poll"} \cap Device = {}
  /\ Student # {}

Type    == {"DAILY", "GATE_ARRIVAL"}
Caller  == {"staff", "poll"} \cup Device
Nobody  == "nobody"
\* DRAFT, SUBMITTED, VERIFIED and REVIEW differ from OPEN in no guard.
Status  == {"NONE", "OPEN", "FINALIZED", "REOPENED"}
Mark    == {"none", "UNMARKED", "PRESENT", "EXCUSED", "ABSENT"}
Session == [status : Status, client : Device \cup {Nobody}]
Bound   == {"requests", "edits", "closes", "moves", "faults", "sends"}
NoSession == [status |-> "NONE", client |-> Nobody]

VARIABLES
  session,   \* attendance_sessions of the class and day, by session_type
  roster,    \* attendance_session_roster of the DAILY session
  record,    \* attendance_records.status, by session and student
  manual,    \* the records whose capture_method is MANUAL
  ruled,     \* history: the records staff edited
  enrolled,  \* active students with an active enrolment in the class
  taught,    \* a teacher is assigned to the class
  caller, stage, snapshot, \* the requests; snapshot: the roster read so far
  answered,  \* devices that were told the session of their client session id
  torn,      \* history: a request was cut between the session and its roster
  used       \* how much of each bound is used

requestVars  == <<caller, stage, snapshot>>
classVars    == <<enrolled, taught>>
registerVars == <<session, roster, record, manual, ruled, classVars, requestVars,
                  answered, torn, used>>

Use(what, limit) == used[what] < limit /\ used' = [used EXCEPT ![what] = @ + 1]
Exists(t) == session[t].status # "NONE"

RegisterStart(sessions) ==
  /\ session = sessions
  /\ roster = {}
  /\ record = [t \in Type |-> [s \in Student |-> "none"]]
  /\ manual = {} /\ ruled = {}
  /\ enrolled = Student
  /\ taught = TRUE
  /\ caller = [r \in Request |-> Nobody]
  /\ stage = [r \in Request |-> "free"]
  /\ snapshot = [r \in Request |-> {}]
  /\ answered = {}
  /\ torn = FALSE
  /\ used = [what \in Bound |-> 0]

RegisterInit == RegisterStart([t \in Type |-> NoSession])

-----------------------------------------------------------------------------
(* Creating the DAILY session *)

\* Mutant of Located: a device looks for its own client session id only.
X_OwnIdOnly(c) ==
  IF c \in Device THEN Exists("DAILY") /\ session["DAILY"].client = c
  ELSE IF c = "poll" THEN \E t \in Type : Exists(t) ELSE Exists("DAILY")

\* What the first lookup finds: a device falls back on the natural key; the
\* poll of the gate page takes a session of either type.
Located(c) ==
  IF c = "poll" THEN \E t \in Type : Exists(t) ELSE Exists("DAILY")

Free(r) ==
  /\ caller' = [caller EXCEPT ![r] = Nobody]
  /\ stage' = [stage EXCEPT ![r] = "free"]
  /\ snapshot' = [snapshot EXCEPT ![r] = {}]

Told(c) == answered' = answered \cup ({c} \cap Device)

\* A device sends its batch until it is answered, and is turned away while its
\* teacher is not assigned to the class; the others ask when they like.
Ask(r, c) ==
  /\ stage[r] = "free"
  /\ IF c \in Device THEN c \notin answered /\ taught /\ UNCHANGED used
                     ELSE Use("requests", MaxRequests)
  /\ IF Located(c) \/ (c = "poll" /\ ~taught)
     THEN Told(c) /\ UNCHANGED requestVars
     ELSE /\ caller' = [caller EXCEPT ![r] = c]
          /\ stage' = [stage EXCEPT ![r] = "missing"]
          /\ UNCHANGED <<snapshot, answered>>
  /\ UNCHANGED <<session, roster, record, manual, ruled, classVars, torn>>

Holder(r) == stage[r] \in {"inserted", "filled"}

\* Mutant of KeyFree: the natural key of a session is not unique.
X_NoKey == TRUE
KeyFree == \A r \in Request : ~Holder(r)

\* The insert waits for an open transaction that inserted the same key. If the
\* key is there by now, the poll looks again, a device finds its own id, and
\* every other request fails.
InsertSession(r) ==
  /\ stage[r] = "missing"
  /\ KeyFree
  /\ IF Exists("DAILY")
     THEN /\ Free(r)
          /\ IF session["DAILY"].client = caller[r] THEN Told(caller[r])
                                                    ELSE UNCHANGED answered
     ELSE /\ stage' = [stage EXCEPT ![r] = "inserted"]
          /\ UNCHANGED <<caller, snapshot, answered>>
  /\ UNCHANGED <<session, roster, record, manual, ruled, classVars, torn, used>>

ReadRoster(r) ==
  /\ stage[r] = "inserted"
  /\ stage' = [stage EXCEPT ![r] = "filled"]
  /\ snapshot' = [snapshot EXCEPT ![r] = enrolled]
  /\ UNCHANGED <<session, roster, record, manual, ruled, classVars, caller, answered, torn, used>>

\* What the transaction of r leaves when it commits.
Persist(r) ==
  /\ session' = [session EXCEPT !["DAILY"] =
       [status |-> "OPEN",
        client |-> IF caller[r] \in Device THEN caller[r] ELSE Nobody]]
  /\ roster' = snapshot[r]
  /\ record' = [record EXCEPT !["DAILY"] =
       [s \in Student |-> IF s \in snapshot[r] THEN "UNMARKED" ELSE "none"]]

Commit(r) ==
  /\ stage[r] = "filled"
  /\ Persist(r) /\ Free(r) /\ Told(caller[r])
  /\ UNCHANGED <<manual, ruled, classVars, torn, used>>

\* The middleware commits the transaction of a device's request when its
\* connection closes, wherever the handler is.
Cut(r) ==
  /\ Holder(r) /\ caller[r] \in Device
  /\ Use("faults", MaxFaults)
  /\ Persist(r) /\ Free(r)
  /\ torn' = (torn \/ stage[r] = "inserted")
  /\ UNCHANGED <<manual, ruled, classVars, answered>>

\* Mutant of Lost: the session is inserted outside the transaction.
X_SessionStays(r) ==
  /\ stage[r] # "free"
  /\ Use("faults", MaxFaults)
  /\ Free(r)
  /\ IF Holder(r) THEN Persist(r) ELSE UNCHANGED <<session, roster, record>>
  /\ UNCHANGED <<manual, ruled, classVars, answered, torn>>

Lost(r) ==
  /\ stage[r] # "free"
  /\ Use("faults", MaxFaults)
  /\ Free(r)
  /\ UNCHANGED <<session, roster, record, manual, ruled, classVars, answered, torn>>

-----------------------------------------------------------------------------
(* Staff *)

AutoAbsent(t) ==
  [s \in Student |-> IF record[t][s] = "UNMARKED" THEN "ABSENT" ELSE record[t][s]]

Finalize(t, sweep) ==
  /\ Use("closes", MaxCloses)
  /\ session[t].status \in {"OPEN", "REOPENED"}
  /\ session' = [session EXCEPT ![t].status = "FINALIZED"]
  /\ record' = IF sweep THEN [record EXCEPT ![t] = AutoAbsent(t)] ELSE record
  /\ UNCHANGED <<roster, manual, ruled, classVars, requestVars, answered, torn>>

Reopen(t) ==
  /\ Use("closes", MaxCloses)
  /\ Exists(t)
  /\ session' = [session EXCEPT ![t].status = "REOPENED"]
  /\ UNCHANGED <<roster, record, manual, ruled, classVars, requestVars, answered, torn>>

\* A record that is missing is made if its student is on the roster. An edit to
\* the status the record has changes nothing. Admins edit finalized sessions.
Edit(t, s, m) ==
  /\ Use("edits", MaxEdits)
  /\ Exists(t)
  /\ record[t][s] # m
  /\ record[t][s] # "none" \/ (t = "DAILY" /\ s \in roster)
  /\ record' = [record EXCEPT ![t][s] = m]
  /\ manual' = manual \cup {<<t, s>>}
  /\ ruled' = ruled \cup {<<t, s>>}
  /\ UNCHANGED <<session, roster, classVars, requestVars, answered, torn>>

\* A student joins or leaves the class; some student always stays.
Move(s) ==
  /\ Use("moves", MaxMoves)
  /\ enrolled' = IF s \in enrolled THEN enrolled \ {s} ELSE enrolled \cup {s}
  /\ enrolled' # {}
  /\ UNCHANGED <<session, roster, record, manual, ruled, taught, requestVars, answered, torn>>

Assign ==
  /\ Use("moves", MaxMoves)
  /\ taught' = ~taught
  /\ UNCHANGED <<session, roster, record, manual, ruled, enrolled, requestVars, answered, torn>>

-----------------------------------------------------------------------------
Serve(r) == InsertSession(r) \/ ReadRoster(r) \/ Commit(r)

RegisterNext ==
  \/ \E r \in Request : Serve(r) \/ Cut(r) \/ Lost(r)
  \/ \E r \in Request, c \in Caller : Ask(r, c)
  \/ \E t \in Type : Reopen(t) \/ \E sweep \in BOOLEAN : Finalize(t, sweep)
  \/ \E t \in Type, s \in Student, m \in {"PRESENT", "EXCUSED", "ABSENT"} : Edit(t, s, m)
  \/ \E s \in Student : Move(s)
  \/ Assign

\* The outbox of a device is flushed again while it holds scans (a batch that is
\* turned away is a stutter), and a request the server has begun goes on.
RegisterFairness ==
  /\ \A d \in Device : WF_registerVars(\E r \in Request : Ask(r, d))
  /\ \A r \in Request : WF_registerVars(Serve(r))

RegisterSpec == RegisterInit /\ [][RegisterNext]_registerVars /\ RegisterFairness

-----------------------------------------------------------------------------
(* Properties *)

\* The values of the state; a request holds a snapshot only once it read it, and
\* only one request at a time has inserted the session of the day.
RegisterTypeOK ==
  /\ session \in [Type -> Session]
  /\ roster \subseteq Student
  /\ record \in [Type -> [Student -> Mark]]
  /\ manual \cup ruled \subseteq Type \X Student
  /\ enrolled \subseteq Student /\ taught \in BOOLEAN
  /\ caller \in [Request -> Caller \cup {Nobody}]
  /\ stage \in [Request -> {"free", "missing", "inserted", "filled"}]
  /\ snapshot \in [Request -> SUBSET Student]
  /\ answered \subseteq Device /\ torn \in BOOLEAN
  /\ DOMAIN used = Bound
  /\ \A what \in Bound : used[what] \in Nat
  /\ \A r \in Request : stage[r] = "free" <=> caller[r] = Nobody
  /\ \A r \in Request : snapshot[r] # {} => stage[r] = "filled"
  /\ \A q, r \in Request : Holder(q) /\ Holder(r) => q = r /\ ~Exists("DAILY")

\* A DAILY session has a roster, whichever of the requests that raced for it won
\* and whatever failed, unless a cut connection committed it halfway.
RosterUnlessTorn == Exists("DAILY") /\ ~torn => roster # {}

\* Two devices that began the same class offline, and a teacher online, race for
\* one session: the losers fail, ask again and are told the winner's, unless the
\* class loses its teacher for good.
DevicesReconcile == <>[]taught => \A d \in Device : <>(d \in answered)
=============================================================================
