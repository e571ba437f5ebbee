------------------------------ MODULE Calendar ------------------------------
(***************************************************************************)
(* The calendar of a school for one academic year: staff edit days in a    *)
(* draft version, one by one, by range or from a template, and approve the *)
(* version, which supersedes the one approved before. A request is one     *)
(* transaction of requireTenant, followed statement by statement. Every    *)
(* statement sees what was committed when it began and what its own        *)
(* transaction wrote.                                                      *)
(***************************************************************************)
EXTENDS Integers, Sequences, FiniteSets, FiniteSetsExt

CONSTANTS
  Day,         \* dates of the year, as numbers in their order
  Request,     \* requests the server works on at a time
  MaxVersions, \* bound: versions of the calendar
  MaxAsks,     \* bound: requests
  MaxFaults    \* bound: transactions lost and connections cut

ASSUME CalendarAssumption ==
  /\ Day \subseteq Nat /\ IsFiniteSet(Day)
  /\ {MaxVersions, MaxAsks, MaxFaults} \subseteq Nat

Version == 1 .. MaxVersions
Nothing == 0
Status  == {"NONE", "DRAFT", "APPROVED", "SUPERSEDED"}
Kind    == {"exact", "approximate"}
Entry   == Day \X Kind
Row     == Version \X Day

VARIABLES
  status,   \* academic_calendar_versions.status, by version
  days,     \* academic_calendar_days.is_approximate, by version and date
  pc, todo, \* the requests, and the entries an edit has left
  target,   \* the version a request works on
  made, wrote, \* the version its transaction inserted, the days it wrote
  found, gone, \* the approved versions an approval found and superseded
  late,     \* history: requests about to make a draft beside another's
  doubled,  \* history: such a draft was committed
  crossed,  \* history: versions that were edited while they were approved
  torn,     \* history: an approval was cut between its two updates
  asks, faults

rowVars     == <<status, days>>
requestVars == <<pc, todo, target, made, wrote, found, gone>>
historyVars == <<late, doubled, crossed, torn>>
vars == <<rowVars, requestVars, historyVars, asks, faults>>

Untouched == [row \in Row |-> "none"]

\* A year may begin with nothing, or with the version 1 that the migration made
\* of the days there were, or that was approved.
Init ==
  /\ \E first \in {"NONE", "DRAFT", "APPROVED"}, kinds \in [Day -> Kind \cup {"none"}] :
       /\ first = "NONE" <=> \A d \in Day : kinds[d] = "none"
       /\ first = "APPROVED" => \A d \in Day : kinds[d] # "approximate"
       /\ status = [v \in Version |-> IF v = 1 THEN first ELSE "NONE"]
       /\ days = [row \in Row |-> IF row[1] = 1 THEN kinds[row[2]] ELSE "none"]
  /\ pc = [r \in Request |-> "free"]
  /\ todo = [r \in Request |-> << >>]
  /\ target = [r \in Request |-> Nothing]
  /\ made = [r \in Request |-> Nothing]
  /\ wrote = [r \in Request |-> Untouched]
  /\ found = [r \in Request |-> {}]
  /\ gone = [r \in Request |-> {}]
  /\ late = {} /\ doubled = FALSE /\ crossed = {} /\ torn = FALSE
  /\ asks = 0 /\ faults = 0

Fault == faults < MaxFaults /\ faults' = faults + 1
GoTo(r, step) == pc' = [pc EXCEPT ![r] = step]

Begin(r, step, v, entries) ==
  /\ pc[r] = "free"
  /\ asks < MaxAsks /\ asks' = asks + 1
  /\ GoTo(r, step)
  /\ target' = [target EXCEPT ![r] = v]
  /\ todo' = [todo EXCEPT ![r] = entries]
  /\ UNCHANGED <<rowVars, made, wrote, found, gone, historyVars, faults>>

\* The request is over, and with it its transaction.
End(r) ==
  /\ GoTo(r, "free")
  /\ todo' = [todo EXCEPT ![r] = << >>]
  /\ target' = [target EXCEPT ![r] = Nothing]
  /\ made' = [made EXCEPT ![r] = Nothing]
  /\ wrote' = [wrote EXCEPT ![r] = Untouched]
  /\ found' = [found EXCEPT ![r] = {}]
  /\ gone' = [gone EXCEPT ![r] = {}]

Rollback(r) ==
  /\ End(r)
  /\ late' = late \ {r}
  /\ UNCHANGED <<rowVars, doubled, crossed, torn, asks>>

Others(r) == Request \ {r}
Sees(r, v) == IF v = made[r] THEN "DRAFT" ELSE status[v]
Wrote(r, v) == \E d \in Day : wrote[r][<<v, d>>] # "none"
Edits(r, v) == (pc[r] = "write" /\ target[r] = v) \/ Wrote(r, v)
Locks(r, v) == pc[r] \in {"find", "supersede", "promote", "done"} /\ target[r] = v

-----------------------------------------------------------------------------
(* Editing days *)

Ascending(list) == \A i, j \in DOMAIN list : i < j => list[i][1] < list[j][1]

\* One day; a range, of one kind; the template, which mixes exact dates and
\* approximate ones. Each goes through its dates in their order.
Lists == {list \in UNION {[1 .. n -> Entry] : n \in 1 .. Cardinality(Day)} : Ascending(list)}

Edit(r, list) == Begin(r, "look", Nothing, list)

\* Mutant of Editable: the latest version is edited, whatever its status.
X_AnyStatus(r) == {v \in Version : Sees(r, v) # "NONE"}

\* Mutant of Editable: only a draft the request has made itself is looked for.
X_OwnDraft(r) == {v \in Version : v = made[r]}

Editable(r) == {v \in Version : Sees(r, v) = "DRAFT"}

\* Every day looks for the draft anew: the latest there is.
Look(r) ==
  /\ pc[r] = "look" /\ todo[r] # << >>
  /\ IF Editable(r) = {} THEN GoTo(r, "make") /\ UNCHANGED <<target, crossed>>
     ELSE LET v == Max(Editable(r)) IN
          /\ GoTo(r, "write")
          /\ target' = [target EXCEPT ![r] = v]
          /\ crossed' = IF \E q \in Request : Locks(q, v) THEN crossed \cup {v} ELSE crossed
  /\ UNCHANGED <<rowVars, todo, made, wrote, found, gone, late, doubled, torn, asks, faults>>

\* The insert takes the number after the last one it sees ...
Number(r) ==
  /\ pc[r] = "make"
  /\ LET known == {v \in Version : Sees(r, v) # "NONE"} IN
       /\ known # Version
       /\ target' = [target EXCEPT ![r] = Max(known \cup {0}) + 1]
  /\ GoTo(r, "number")
  /\ UNCHANGED <<rowVars, todo, made, wrote, found, gone, historyVars, asks, faults>>

\* ... and waits for another transaction that takes the same. If that one
\* commits, the insert fails and aborts the transaction: the lookup in the
\* handler of the error fails as well, and everything is rolled back.
InsertDraft(r) ==
  /\ pc[r] = "number"
  /\ \A q \in Others(r) : made[q] # target[r]
  /\ IF status[target[r]] # "NONE" THEN Rollback(r) /\ UNCHANGED faults
     ELSE /\ made' = [made EXCEPT ![r] = target[r]]
          /\ GoTo(r, "write")
          /\ UNCHANGED <<rowVars, todo, target, wrote, found, gone, historyVars, asks, faults>>

\* Mutant of RowFree: a row another transaction has written is not waited for.
X_NoRowLock(r, row) == TRUE

RowFree(r, row) == \A q \in Others(r) : wrote[q][row] = "none"

\* A row another transaction has written is waited for. A new row references
\* its version: it waits for an approval that has locked the version, and goes
\* in all the same afterwards. An update looks at the version no more.
WriteDay(r) ==
  /\ pc[r] = "write"
  /\ LET row == <<target[r], Head(todo[r])[1]>> IN
       /\ RowFree(r, row)
       /\ days[row] = "none" => \A q \in Others(r) : ~Locks(q, target[r])
       /\ wrote' = [wrote EXCEPT ![r][row] = Head(todo[r])[2]]
  /\ todo' = [todo EXCEPT ![r] = Tail(@)]
  /\ target' = [target EXCEPT ![r] = Nothing]
  /\ GoTo(r, "look")
  /\ UNCHANGED <<rowVars, made, found, gone, historyVars, asks, faults>>

-----------------------------------------------------------------------------
(* Approving a version *)

Approve(r, v) == status[v] # "NONE" /\ Begin(r, "lock", v, << >>)

Approved == {v \in Version : status[v] = "APPROVED"}

\* Mutant of Ready: approximate days are not counted.
X_AnyDay(v) == \E d \in Day : days[<<v, d>>] # "none"

Ready(v) ==
  /\ \E d \in Day : days[<<v, d>>] # "none"
  /\ \A d \in Day : days[<<v, d>>] # "approximate"

Inserts(r, v) == \E d \in Day : wrote[r][<<v, d>>] # "none" /\ days[<<v, d>>] = "none"

\* SELECT ... FOR UPDATE waits for approvals of the version and for new days
\* that reference it, not for updates of its days. Then the days are counted.
LockAndCount(r) ==
  /\ pc[r] = "lock"
  /\ LET v == target[r] IN
       /\ \A q \in Others(r) : ~Locks(q, v) /\ ~Inserts(q, v) /\ v \notin gone[q]
       /\ IF status[v] = "DRAFT" /\ Ready(v)
          THEN /\ GoTo(r, "find")
               /\ crossed' = IF \E q \in Others(r) : Edits(q, v)
                             THEN crossed \cup {v} ELSE crossed
               /\ UNCHANGED <<rowVars, todo, target, made, wrote, found, gone, late,
                              doubled, torn, asks>>
          ELSE Rollback(r)
  /\ UNCHANGED faults

\* The update of the approved version finds it as it begins, ...
Find(r) ==
  /\ pc[r] = "find"
  /\ found' = [found EXCEPT ![r] = Approved]
  /\ GoTo(r, "supersede")
  /\ UNCHANGED <<rowVars, todo, target, made, wrote, gone, historyVars, asks, faults>>

\* ... waits for another transaction that has updated it, and looks again.
Supersede(r) ==
  /\ pc[r] = "supersede"
  /\ \A q \in Others(r) : gone[q] \cap found[r] = {}
  /\ gone' = [gone EXCEPT ![r] = found[r] \cap Approved]
  /\ GoTo(r, "promote")
  /\ UNCHANGED <<rowVars, todo, target, made, wrote, found, historyVars, asks, faults>>

\* Mutant of Alone: no unique index over the approved versions of a year.
X_NoIndex(r) == TRUE

\* The unique index has no other approved version.
Alone(r) == Approved \subseteq gone[r]

\* The index waits for whoever is about to add or take away an entry.
Promote(r) ==
  /\ pc[r] = "promote"
  /\ \A q \in Others(r) : pc[q] # "done" /\ gone[q] = {}
  /\ IF Alone(r)
     THEN GoTo(r, "done")
          /\ UNCHANGED <<rowVars, todo, target, made, wrote, found, gone, historyVars, asks>>
     ELSE Rollback(r)
  /\ UNCHANGED faults

-----------------------------------------------------------------------------
(* The end of a request *)

\* What the transaction of r has written is committed.
Persist(r) ==
  /\ status' = [v \in Version |->
       IF v = made[r] THEN "DRAFT"
       ELSE IF v \in gone[r] THEN "SUPERSEDED"
       ELSE IF pc[r] = "done" /\ v = target[r] THEN "APPROVED" ELSE status[v]]
  /\ days' = [row \in Row |-> IF wrote[r][row] # "none" THEN wrote[r][row] ELSE days[row]]
  /\ doubled' = (doubled \/ (made[r] # Nothing /\ r \in late))
  /\ late' = (IF made[r] = Nothing THEN late
              ELSE late \cup {q \in Request : pc[q] \in {"make", "number"}}) \ {r}
  /\ End(r)

Commit(r) ==
  /\ pc[r] = "done" \/ (pc[r] = "look" /\ todo[r] = << >>)
  /\ Persist(r)
  /\ UNCHANGED <<crossed, torn, asks, faults>>

\* The middleware commits when the connection closes, wherever the handler is,
\* within the savepoint of an approval too.
Cut(r) ==
  /\ pc[r] \notin {"free", "done"}
  /\ Fault
  /\ Persist(r)
  /\ torn' = (torn \/ gone[r] # {})
  /\ UNCHANGED <<crossed, asks>>

Lost(r) == pc[r] # "free" /\ Fault /\ Rollback(r)

-----------------------------------------------------------------------------
Serve(r) ==
  \/ Look(r) \/ Number(r) \/ InsertDraft(r) \/ WriteDay(r)
  \/ LockAndCount(r) \/ Find(r) \/ Supersede(r) \/ Promote(r)
  \/ Commit(r)

Next ==
  \E r \in Request :
    \/ \E list \in Lists : Edit(r, list)
    \/ \E v \in Version : Approve(r, v)
    \/ Serve(r) \/ Cut(r) \/ Lost(r)

Spec == Init /\ [][Next]_vars

-----------------------------------------------------------------------------
(* Properties *)

\* The values of the state; one transaction at a time holds a version number, a
\* day, the lock of a version and the place of the approved one.
TypeOK ==
  /\ status \in [Version -> Status] /\ days \in [Row -> Kind \cup {"none"}]
  /\ pc \in [Request -> {"free", "look", "make", "number", "write", "lock", "find",
                         "supersede", "promote", "done"}]
  /\ todo \in [Request -> Seq(Entry)]
  /\ target \in [Request -> Version \cup {Nothing}]
  /\ made \in [Request -> Version \cup {Nothing}]
  /\ wrote \in [Request -> [Row -> Kind \cup {"none"}]]
  /\ found \in [Request -> SUBSET Version] /\ gone \in [Request -> SUBSET Version]
  /\ late \subseteq Request /\ crossed \subseteq Version
  /\ doubled \in BOOLEAN /\ torn \in BOOLEAN
  /\ \A r \in Request : gone[r] \subseteq Approved /\ Cardinality(gone[r]) <= 1
  /\ \A r \in Request : made[r] # Nothing => status[made[r]] = "NONE"
  /\ \A q, r \in Request : q # r =>
       /\ made[q] = made[r] => made[q] = Nothing
       /\ \A row \in Row : "none" \in {wrote[q][row], wrote[r][row]}
       /\ \A v \in Version : ~(Locks(q, v) /\ Locks(r, v))
       /\ gone[q] \cap gone[r] = {} /\ ~(pc[q] = "done" /\ pc[r] = "done")

\* An approved calendar has days, and none that is approximate, unless it was
\* edited while it was approved.
ApprovedIsConfirmed ==
  \A v \in Version \ crossed :
    status[v] \in {"APPROVED", "SUPERSEDED"} =>
      {days[<<v, d>>] : d \in Day} \in {{"exact"}, {"exact", "none"}}

\* Whatever was approved stays as it was: only an edit that overlapped with the
\* approval may still change a day of the version.
ApprovedIsFrozen ==
  [][\A v \in Version, d \in Day :
       status[v] \in {"APPROVED", "SUPERSEDED"} /\ days'[<<v, d>>] # days[<<v, d>>]
       => v \in crossed]_vars

\* Once a year has an approved calendar it always has exactly one, however
\* approvals overlap or fail, unless one was cut between its two updates.
CalendarStands ==
  (\E v \in Version : status[v] \in {"APPROVED", "SUPERSEDED"})
  => Cardinality(Approved) = 1 \/ torn

\* The draft is the newest version, so that approving it never goes back, and
\* there is only one, unless two requests found none and made one each.
DraftIsNewest ==
  \A v, w \in Version :
    status[v] = "DRAFT" /\ status[w] # "NONE" /\ w # v => w < v \/ doubled

-----------------------------------------------------------------------------
(* What the document says and the code does not keep *)

\* academic-calendar.md:37: "A calendar version containing any approximate day
\* cannot be approved."
NoApproximateApproved ==
  \A v \in Approved, d \in Day : days[<<v, d>>] # "approximate"

\* isSchoolOpen of the gate takes any row of the date, in whatever version.
GateReads(d) == {v \in Version : days[<<v, d>>] # "none"}

\* academic-calendar.md:18: a DRAFT is "editable and not authoritative".
DraftIsSilent == \A d \in Day : GateReads(d) \subseteq Approved
=============================================================================
