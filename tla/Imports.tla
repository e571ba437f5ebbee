------------------------------ MODULE Imports ------------------------------
(***************************************************************************)
(* The students of a school, their enrolments and QR cards, and the bulk   *)
(* imports of students. Every request works in a transaction of its own,   *)
(* statement by statement; a statement that meets a row or a unique key    *)
(* another open transaction has written waits for it. Imports and QR       *)
(* requests run under requireTenant, which commits when the answer is      *)
(* finished or the connection closes; the others under tenantRoute.        *)
(***************************************************************************)
EXTENDS Integers, Sequences, FiniteSets, SequencesExt

CONSTANTS
  Code,     \* student codes; a student is named by the code
  Seat,     \* places in a class: a section and a roll number
  Job,      \* import jobs
  Request,  \* requests the server works on at a time
  MaxKnown, \* bound: students who are there before
  MaxAsks,  \* bound: requests
  MaxStaff, \* bound: after as many, only files are sent and confirmed
  MaxFailures \* bound: transactions lost or cut, and statements that fail by themselves

NoSeat == "no seat"
Kind   == {"idle", "staff", "badges", "revocation"}

ASSUME ImportsAssumption ==
  /\ {MaxKnown, MaxAsks, MaxStaff, MaxFailures} \subseteq Nat
  /\ IsFiniteSet(Code) /\ NoSeat \notin Seat /\ Kind \cap Job = {}

Mode   == {"CREATE_ONLY", "UPDATE_EXISTING", "UPSERT"}
Key    == ({"student", "enrolment", "qr"} \X Code) \cup ({"job"} \X Job)
Row    == Code \X Seat
NoFile == [mode |-> "UPSERT", rows |-> << >>]
NoEnrolment == [seat |-> NoSeat, active |-> FALSE]
NoQr   == [version |-> 0, status |-> "NONE"]

VARIABLES
  db,     \* the committed rows
  draft,  \* what the open transaction of a request has written, by row
  prog,   \* the statements a request has still to run
  doing,  \* what a request is for: the job it imports, or its Kind
  file,   \* the staged data of a job
  aged,   \* jobs older than an hour
  twice,  \* history: jobs confirmed while a confirmation of them was under way
  torn,   \* history: rows a transaction had written when it was cut
  imported, \* history: students written by committed imports, by job
  anonymous, \* codes anonymization has made
  former, \* history: students who came with no enrolment of the current year
  gone,   \* history: rows of the files whose student was anonymized before the import
          \* was through with them, by job
  asks, faults

identities  == <<anonymous, former, gone>>
importsVars == <<db, draft, prog, doing, file, aged, twice, torn, imported, identities,
                 asks, faults>>

Blank(k) ==
  CASE k[1] = "enrolment" -> NoEnrolment [] k[1] = "qr" -> NoQr
    [] OTHER -> "NONE"

\* Some students may be there before. An enrolment is one of the current academic
\* year; students of earlier years need not have any.
ImportsInit ==
  /\ \E known \in SUBSET Code, place \in [Code -> Seat] :
       /\ Cardinality(known) <= MaxKnown
       /\ former \in SUBSET known
       /\ \A c, d \in known \ former : place[c] = place[d] => c = d
       /\ db = [k \in Key |->
            IF k[1] = "job" \/ k[2] \notin known THEN Blank(k)
            ELSE CASE k[1] = "student" -> "ACTIVE"
                   [] k[1] = "enrolment" ->
                        IF k[2] \in former THEN NoEnrolment
                        ELSE [seat |-> place[k[2]], active |-> TRUE]
                   [] k[1] = "qr" -> [version |-> 1, status |-> "ACTIVE"]]
  /\ draft = [r \in Request |-> << >>]
  /\ prog = [r \in Request |-> << >>]
  /\ doing = [r \in Request |-> "idle"]
  /\ file = [j \in Job |-> NoFile]
  /\ aged = {} /\ twice = {} /\ torn = {}
  /\ imported = [j \in Job |-> {}]
  /\ anonymous = {} /\ gone = {}
  /\ asks = 0 /\ faults = 0

-----------------------------------------------------------------------------
(* Transactions *)

Ask   == asks < MaxAsks /\ asks' = asks + 1
Fault == faults < MaxFailures /\ faults' = faults + 1
Codes(keys) == {c \in Code : <<"student", c>> \in keys}

Over(kind, d) == [k \in DOMAIN d \cup Key |-> IF k \in DOMAIN d THEN d[k] ELSE kind[k]]
Sees(r, k) == IF k \in DOMAIN draft[r] THEN draft[r][k] ELSE db[k]

\* No other open transaction has written the row.
Free(r, k) == \A q \in Request \ {r} : k \notin DOMAIN draft[q]

Put(r, k, v) ==
  draft' = [draft EXCEPT ![r] = [i \in DOMAIN @ \cup {k} |-> IF i = k THEN v ELSE @[i]]]

Begin(r, kind, statements) ==
  /\ doing[r] = "idle"
  /\ Ask
  /\ doing' = [doing EXCEPT ![r] = kind]
  /\ prog' = [prog EXCEPT ![r] = statements]

End(r) ==
  /\ doing' = [doing EXCEPT ![r] = "idle"]
  /\ prog' = [prog EXCEPT ![r] = << >>]
  /\ draft' = [draft EXCEPT ![r] = << >>]

Keep(r) ==
  /\ db' = Over(db, draft[r])
  /\ imported' = [j \in Job |-> IF doing[r] = j THEN imported[j] \cup Codes(DOMAIN draft[r])
                                ELSE imported[j]]
  /\ End(r)

Commit(r) ==
  /\ doing[r] # "idle" /\ prog[r] = << >>
  /\ Keep(r)
  /\ UNCHANGED <<file, aged, twice, torn, asks, faults, identities>>

\* requireTenant commits when the connection closes, wherever the handler is;
\* the handler goes on without a transaction of the school.
Cut(r) ==
  /\ doing[r] \notin {"idle", "staff"} /\ prog[r] # << >>
  /\ Fault
  /\ torn' = torn \cup DOMAIN draft[r]
  /\ Keep(r)
  /\ UNCHANGED <<file, aged, twice, asks, identities>>

Lost(r) ==
  /\ doing[r] # "idle"
  /\ Fault
  /\ End(r)
  /\ UNCHANGED <<db, file, aged, twice, torn, imported, asks, identities>>

-----------------------------------------------------------------------------
(* Statements: what to do, to which student or job, and a third value *)

Stmt(r)  == Head(prog[r])
On(r)     == Stmt(r)[2]
Doing(r, what) == prog[r] # << >> /\ Stmt(r)[1] = what
Proceed(r, more) == prog' = [prog EXCEPT ![r] = more \o Tail(@)]

\* Mutant of Violated: rows of the import that fail are left out.
X_SkipRow(r) == Proceed(r, << >>) /\ UNCHANGED <<draft, doing>>
\* Mutant of Violated: what was written before is committed.
X_KeepWritten(r) ==
  /\ prog' = [prog EXCEPT ![r] = << >>]
  /\ IF doing[r] \in Job THEN Put(r, <<"job", doing[r]>>, "FAILED") ELSE UNCHANGED draft
  /\ UNCHANGED doing

\* A statement that fails undoes its transaction; an import goes back to its
\* savepoint and marks its job.
Violated(r) ==
  IF doing[r] \in Job
  THEN /\ draft' = [draft EXCEPT ![r] = [k \in {<<"job", doing[r]>>} |-> "FAILED"]]
       /\ prog' = [prog EXCEPT ![r] = << >>]
       /\ UNCHANGED doing
  ELSE End(r)

SetRow(r, k, v) == Free(r, k) /\ Put(r, k, v) /\ Proceed(r, << >>) /\ UNCHANGED doing

InsertStudent(r) ==
  /\ Doing(r, "student")
  /\ LET k == <<"student", On(r)>> IN
       /\ Free(r, k)
       /\ IF Sees(r, k) = "NONE" THEN SetRow(r, k, "ACTIVE") ELSE Violated(r)

SeatOf(r, c) == Sees(r, <<"enrolment", c>>).seat

\* No other open transaction takes the place or leaves it.
SeatFree(r, s) ==
  \A q \in Request \ {r}, c \in Code :
    <<"enrolment", c>> \in DOMAIN draft[q] => SeatOf(q, c) # s /\ db[<<"enrolment", c>>].seat # s

\* A roll number is taken, whatever the status of the enrolment that has it.
Place(r, c, s, active) ==
  /\ Free(r, <<"enrolment", c>>) /\ SeatFree(r, s)
  /\ IF \E d \in Code \ {c} : SeatOf(r, d) = s THEN Violated(r)
     ELSE SetRow(r, <<"enrolment", c>>, [seat |-> s, active |-> active])

InsertEnrolment(r) == Doing(r, "enrolment") /\ Place(r, On(r), Stmt(r)[3], TRUE)

\* The update names the current year: it finds no row of a student enrolled in
\* another one, and says nothing.
MoveEnrolment(r) ==
  /\ Doing(r, "move")
  /\ IF SeatOf(r, On(r)) = NoSeat THEN Proceed(r, << >>) /\ UNCHANGED <<draft, doing>>
     ELSE Place(r, On(r), Stmt(r)[3], Sees(r, <<"enrolment", On(r)>>).active)

UpdateStudent(r) ==
  /\ Doing(r, "update")
  /\ LET k == <<"student", On(r)>> IN SetRow(r, k, Sees(r, k))

\* The row of a student the school has is updated; another is inserted or, in
\* UPDATE_EXISTING mode, left out.
Lookup(r) ==
  /\ Doing(r, "lookup")
  /\ LET c == On(r)  s == Stmt(r)[3] IN
     Proceed(r, IF Sees(r, <<"student", c>>) # "NONE"
                THEN << <<"update", c, s>>, <<"move", c, s>> >>
                ELSE IF file[doing[r]].mode = "UPSERT"
                THEN << <<"student", c, s>>, <<"enrolment", c, s>>, <<"qr", c, s>> >>
                ELSE << >>)
  /\ UNCHANGED <<draft, doing>>

SetStatus(r) ==
  /\ Doing(r, "status")
  /\ SetRow(r, <<"student", On(r)>>, Stmt(r)[3])

EndEnrolment(r) ==
  /\ Doing(r, "end")
  /\ LET k == <<"enrolment", On(r)>> IN
       /\ Free(r, k)
       /\ IF Sees(r, k).active THEN SetRow(r, k, [seat |-> SeatOf(r, On(r)), active |-> FALSE])
          ELSE Proceed(r, << >>) /\ UNCHANGED <<draft, doing>>

\* One card of a student is active at a time.
InsertQr(r) ==
  /\ Doing(r, "qr")
  /\ LET k == <<"qr", On(r)>> IN
       /\ Free(r, k)
       /\ IF Sees(r, k).status = "ACTIVE" THEN Violated(r)
          ELSE SetRow(r, k, [version |-> Sees(r, k).version + 1, status |-> "ACTIVE"])

\* The update takes the active card it sees as it starts; if it has to wait, it
\* looks at that card again, not at one issued meanwhile.
RevokeQr(r) ==
  /\ Doing(r, "revoke")
  /\ LET card == Sees(r, <<"qr", On(r)>>) IN
     Proceed(r, IF card.status = "ACTIVE" THEN << <<"recheck", On(r), card>> >> ELSE << >>)
  /\ UNCHANGED <<draft, doing>>

RecheckQr(r) ==
  /\ Doing(r, "recheck")
  /\ LET k == <<"qr", On(r)>>  card == Stmt(r)[3] IN
       /\ Free(r, k)
       /\ IF Sees(r, k) = card THEN SetRow(r, k, [version |-> card.version, status |-> "REVOKED"])
          ELSE Proceed(r, << >>) /\ UNCHANGED <<draft, doing>>

\* Students of a class who have a card are left out, or get a new one.
FindQr(r) ==
  /\ Doing(r, "find")
  /\ LET c == On(r)  reissueAll == Stmt(r)[3] IN
     Proceed(r, IF Sees(r, <<"qr", c>>).status # "ACTIVE" THEN << <<"qr", c, NoSeat>> >>
                ELSE IF reissueAll THEN << <<"revoke", c, NoSeat>>, <<"qr", c, NoSeat>> >>
                ELSE << >>)
  /\ UNCHANGED <<draft, doing>>

SetJob(r) ==
  /\ Doing(r, "job")
  /\ SetRow(r, <<"job", On(r)>>, Stmt(r)[3])

Statement(r) ==
  /\ \/ InsertStudent(r) \/ InsertEnrolment(r) \/ MoveEnrolment(r) \/ UpdateStudent(r)
     \/ Lookup(r) \/ SetStatus(r) \/ EndEnrolment(r) \/ InsertQr(r) \/ RevokeQr(r)
     \/ RecheckQr(r) \/ FindQr(r) \/ SetJob(r)
  /\ UNCHANGED <<db, file, aged, twice, torn, imported, asks, faults, identities>>

\* A deadlock, a timeout: the statement fails.
Abort(r) ==
  /\ prog[r] # << >> /\ Stmt(r)[1] # "job"
  /\ Fault
  /\ Violated(r)
  /\ UNCHANGED <<db, file, aged, twice, torn, imported, asks, identities>>

-----------------------------------------------------------------------------
(* Imports *)

Processing == {j \in Job : db[<<"job", j>>] = "PROCESSING"}
Untouched(j) == \A r \in Request : <<"job", j>> \notin DOMAIN draft[r]

\* The rows of a file are checked against the students there are, not against
\* their places.
Valid(mode, rows) ==
  \A i \in DOMAIN rows :
    LET known == db[<<"student", rows[i][1]>>] # "NONE" IN
    (mode = "CREATE_ONLY" => ~known) /\ (mode = "UPDATE_EXISTING" => known)

\* A job an hour old that is still PROCESSING is given up; a younger one keeps
\* every upload out.
Validate(j, mode, rows) ==
  /\ db[<<"job", j>>] = "NONE"
  /\ Ask
  /\ \A i \in Processing \cap aged : Untouched(i)
  /\ LET after == [k \in Key |-> IF k \in {"job"} \X (Processing \cap aged) THEN "FAILED"
                                 ELSE db[k]] IN
     IF Processing \subseteq aged
     THEN /\ db' = [after EXCEPT ![<<"job", j>>] =
                      IF Valid(mode, rows) THEN "VALIDATED" ELSE "FAILED"]
          /\ file' = IF Valid(mode, rows) THEN [file EXCEPT ![j] = [mode |-> mode, rows |-> rows]]
                     ELSE file
     ELSE db' = after /\ UNCHANGED file
  /\ UNCHANGED <<draft, prog, doing, aged, twice, torn, imported, faults, identities>>

Age(j) ==
  /\ j \notin aged /\ db[<<"job", j>>] \in {"VALIDATED", "PROCESSING"}
  /\ aged' = aged \cup {j}
  /\ UNCHANGED <<db, draft, prog, doing, file, twice, torn, imported, asks, faults, identities>>

All(what, rows) == [i \in DOMAIN rows |-> <<what, rows[i][1], rows[i][2]>>]

RowStatements(f) ==
  IF f.mode = "CREATE_ONLY"
  THEN All("student", f.rows) \o All("enrolment", f.rows) \o All("qr", f.rows)
  ELSE All("lookup", f.rows)

\* The job is read, then marked PROCESSING with its token consumed, whatever it
\* has become meanwhile.
Confirm(r, j) ==
  /\ db[<<"job", j>>] = "VALIDATED"
  /\ Begin(r, j, IF j \in aged THEN << <<"job", j, "FAILED">> >>
                 ELSE << <<"job", j, "PROCESSING">> >> \o RowStatements(file[j])
                      \o << <<"job", j, "COMPLETED">> >>)
  /\ twice' = IF \E q \in Request : doing[q] = j THEN twice \cup {j} ELSE twice
  /\ UNCHANGED <<db, draft, file, aged, torn, imported, faults, identities>>

-----------------------------------------------------------------------------
(* Students and their cards, one at a time or by class *)

Known(c) == db[<<"student", c>>] # "NONE"

\* An ended enrolment still has its roll number; only active ones are looked for.
CreateStudent(r, c, s) ==
  /\ ~Known(c)
  /\ \A d \in Code : db[<<"enrolment", d>>] # [seat |-> s, active |-> TRUE]
  /\ Begin(r, "staff", << <<"student", c, s>>, <<"enrolment", c, s>> >>)

UpdateStatus(r, c, to) ==
  /\ Known(c)
  /\ Begin(r, "staff", IF to = "ACTIVE" THEN << <<"status", c, to>> >>
                       ELSE << <<"status", c, to>>, <<"end", c, NoSeat>> >>)

Issue(r, c)   == Known(c) /\ Begin(r, "badges", << <<"qr", c, NoSeat>> >>)
Revoke(r, c)  == Known(c) /\ Begin(r, "revocation", << <<"revoke", c, NoSeat>> >>)
Reissue(r, c) ==
  Known(c) /\ Begin(r, "badges", << <<"revoke", c, NoSeat>>, <<"qr", c, NoSeat>> >>)

ActiveRoster == {c \in Code : db[<<"student", c>>] = "ACTIVE" /\ db[<<"enrolment", c>>].active}

\* bulk issue, or a batch of cards to print
PrintBatch(r, reissueAll) ==
  \E order \in SetToSeqs(ActiveRoster) :
    Begin(r, "badges", [i \in DOMAIN order |-> <<"find", order[i], reissueAll>>])

Injective(seq, i) == \A a, b \in DOMAIN seq : seq[a][i] = seq[b][i] => a = b

\* The files that pass the checks of the rows themselves.
Files == {rows \in UNION {[1 .. n -> Row] : n \in 1 .. Cardinality(Code)} :
            Injective(rows, 1) /\ Injective(rows, 2)}

\* The setup wizard enrols a list of students, who get no card, and checks
\* nothing. Their codes are made from their places; any pairing stands for it.
ImportRoster(r) ==
  \E rows \in Files :
    Begin(r, "staff", [i \in 1 .. 2 * Len(rows) |->
      LET row == rows[(i + 1) \div 2] IN
        <<IF i % 2 = 1 THEN "student" ELSE "enrolment", row[1], row[2]>>])

Start(r) ==
  /\ asks < MaxStaff
  /\ \/ \E c \in Code, s \in Seat : CreateStudent(r, c, s)
     \/ ImportRoster(r)
     \/ \E c \in Code, to \in {"ACTIVE", "INACTIVE"} : UpdateStatus(r, c, to)
     \/ \E c \in Code : Issue(r, c) \/ Revoke(r, c) \/ Reissue(r, c)
     \/ \E reissueAll \in BOOLEAN : PrintBatch(r, reissueAll)
  /\ UNCHANGED <<db, draft, file, aged, twice, torn, imported, faults, identities>>

-----------------------------------------------------------------------------
(* Anonymization *)

\* Statements that name a student by the row they have found. The others use the
\* code, or the student they have just inserted under it.
ById(r, t) ==
  \/ t[1] \in {"update", "move", "status", "end", "find", "revoke", "recheck"}
  \/ t[1] = "qr" /\ doing[r] \notin Job

Following(r, c, n) ==
  [i \in DOMAIN prog[r] |->
     LET t == prog[r][i] IN IF ById(r, t) /\ t[2] = c THEN <<t[1], n, t[3]>> ELSE t]

JobRows == {"job"} \X Job
Recoded(k, c, n) == IF k \notin JobRows /\ k[2] = c THEN <<k[1], n>> ELSE k

Names(j, c) == \E i \in DOMAIN file[j].rows : file[j].rows[i][1] = c

\* A code made from the student's id, which nobody has used.
Unused(n) ==
  /\ n \notin anonymous
  /\ \A k \in Key \ JobRows : k[2] = n =>
       db[k] = Blank(k) /\ \A r \in Request : k \notin DOMAIN draft[r]
  /\ \A r \in Request : \A i \in DOMAIN prog[r] : prog[r][i][1] # "job" => prog[r][i][2] # n
  /\ \A j \in Job : ~Names(j, n)

\* An import that has looked the student up, or would find nobody now.
Misses(j, c) ==
  /\ Names(j, c)
  /\ \/ file[j].mode = "UPDATE_EXISTING"
     \/ \E r \in Request :
          doing[r] = j /\ \A i \in DOMAIN prog[r] :
            prog[r][i][2] = c => prog[r][i][1] \notin {"lookup", "student"}

\* The student becomes n, with the enrolment and the card; a new code takes the
\* row's strongest lock, so it waits for whoever has written the student or a row
\* that refers to him.
Anonymize(c, n) ==
  /\ Known(c) /\ c \notin anonymous /\ Unused(n)
  /\ asks < MaxStaff /\ Ask
  /\ \A r \in Request : \A k \in DOMAIN draft[r] : k \notin JobRows => k[2] # c
  /\ db' = [k \in Key |->
       IF k \in JobRows \/ k[2] \notin {c, n} THEN db[k]
       ELSE IF k[2] = c THEN Blank(k)
       ELSE IF k[1] = "student" THEN "INACTIVE" ELSE db[<<k[1], c>>]]
  /\ prog' = [r \in Request |-> Following(r, c, n)]
  /\ torn' = {Recoded(k, c, n) : k \in torn}
  /\ anonymous' = anonymous \cup {n}
  /\ former' = {IF d = c THEN n ELSE d : d \in former}
  /\ gone' = gone \cup {<<j, c>> : j \in {i \in Job : Misses(i, c)}}
  /\ UNCHANGED <<draft, doing, file, aged, twice, imported, faults>>

-----------------------------------------------------------------------------
ImportsNext ==
  \/ \E r \in Request : \/ Statement(r) \/ Abort(r) \/ Commit(r) \/ Cut(r) \/ Lost(r)
                        \/ Start(r) \/ \E j \in Job : Confirm(r, j)
  \/ \E j \in Job : Age(j) \/ \E mode \in Mode, rows \in Files : Validate(j, mode, rows)
  \/ \E c, n \in Code : Anonymize(c, n)

ImportsSpec == ImportsInit /\ [][ImportsNext]_importsVars

-----------------------------------------------------------------------------
(* Properties *)

\* The values of the rows; a row is written by one open transaction at a time,
\* and no roll number is committed twice.
ImportsTypeOK ==
  /\ DOMAIN db = Key
  /\ \A c \in Code :
       /\ db[<<"student", c>>] \in {"NONE", "ACTIVE", "INACTIVE"}
       /\ db[<<"enrolment", c>>] \in [seat : Seat \cup {NoSeat}, active : BOOLEAN]
       /\ db[<<"qr", c>>] \in [version : Nat, status : {"NONE", "ACTIVE", "REVOKED"}]
  /\ \A j \in Job :
       db[<<"job", j>>] \in {"NONE", "VALIDATED", "PROCESSING", "COMPLETED", "FAILED"}
  /\ \A r \in Request : DOMAIN draft[r] \subseteq Key
  /\ doing \in [Request -> Kind \cup Job]
  /\ \A j \in Job : file[j].mode \in Mode /\ file[j].rows \in Seq(Row)
  /\ aged \cup twice \subseteq Job /\ torn \subseteq Key
  /\ imported \in [Job -> SUBSET Code]
  /\ anonymous \cup former \subseteq Code /\ gone \subseteq Job \X Code
  /\ \A q, r \in Request : q # r => DOMAIN draft[q] \cap DOMAIN draft[r] = {}
  /\ \A c, d \in Code :
       c # d /\ db[<<"enrolment", c>>].seat # NoSeat =>
         db[<<"enrolment", c>>].seat # db[<<"enrolment", d>>].seat

\* A job is COMPLETED by a transaction that leaves every student of its file in
\* the place the file gives. It passes over students who are known but not enrolled
\* in the current year, or were committed without an enrolment, and rows whose
\* student was anonymized before it wrote them.
CompletedIsImported ==
  [][\A j \in Job :
       db[<<"job", j>>] # "COMPLETED" /\ db'[<<"job", j>>] = "COMPLETED" =>
         \A i \in DOMAIN file[j].rows :
           LET c == file[j].rows[i][1]  held == db'[<<"enrolment", c>>].seat IN
             \/ <<j, c>> \in gone
             \/ /\ db'[<<"student", c>>] # "NONE"
                /\ held \in {file[j].rows[i][2], NoSeat}
                /\ held = NoSeat => <<"student", c>> \in torn \/ c \in former]_importsVars

\* A FAILED job has imported nobody, unless it was confirmed twice at once or
\* its confirmation was cut.
FailedImportsNobody ==
  \A j \in Job : db[<<"job", j>>] = "FAILED" =>
    imported[j] = {} \/ j \in twice \/ <<"job", j>> \in torn

\* Every student has an enrolment of the current year, and the roll number with it,
\* but those who came without one and those a cut connection committed alone.
StudentIsEnrolled ==
  \A c \in Code : Known(c) =>
    db[<<"enrolment", c>>].seat # NoSeat \/ <<"student", c>> \in torn \/ c \in former

\* A card is taken from a student only by a revocation: reissuing, printing and
\* importing leave the student with a valid card, unless they are cut. One who is
\* anonymized keeps it.
CardIsReplaced ==
  [][\A c \in Code :
       db[<<"qr", c>>].status = "ACTIVE" /\ db'[<<"qr", c>>].status # "ACTIVE" =>
         \/ \E r \in Request : doing[r] = "revocation" /\ doing'[r] = "idle"
         \/ <<"qr", c>> \in torn'
         \/ \E n \in anonymous' \ anonymous : db'[<<"qr", n>>] = db[<<"qr", c>>]]_importsVars
=============================================================================
