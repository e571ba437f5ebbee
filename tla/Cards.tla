-------------------------------- MODULE Cards --------------------------------
(***************************************************************************)
(* RFID cards of the students and gate readers of a school: enrolment (one *)
(* card or many in one request), the life of a card, replacement, the      *)
(* erasure of a student, and the life of a reader. A request is one        *)
(* transaction; a handler catches its errors, so that the transaction of a *)
(* failed statement is "committed", which rolls it back without an error.  *)
(* The digest of a card is unique over all rows: a card is its row.        *)
(***************************************************************************)
EXTENDS Integers, Sequences, FiniteSets

CONSTANTS
  Student, Card, Reader,
  Worker,      \* requests the server works on at a time
  MaxRequests, \* bound: requests of more than one statement
  MaxChanges,  \* bound: requests of one statement
  MaxFaults    \* bound: transactions lost

ASSUME CardsAssumption ==
  /\ {MaxRequests, MaxChanges, MaxFaults} \subseteq Nat
  /\ "nobody" \notin Student \cup Card \cup Reader \cup Worker

Status == {"NONE", "PENDING", "ACTIVE", "SUSPENDED", "REVOKED", "REPLACED", "EXPIRED"}
Live   == {"PENDING", "ACTIVE"}
Ended  == {"REVOKED", "REPLACED", "EXPIRED"}
Nobody == "nobody"
Entry  == [student : Student, card : Card]
Route  == {"enroll", "enroll-epc", "bulk-enroll"}
Bound  == {"requests", "changes", "faults"}

VARIABLES
  status, holder, \* rfid_credentials, by card
  reader,         \* rfid_readers.status
  admitted,       \* active students whose guardian consents to RFID
  pc, route,      \* the requests
  entries,        \* entries an enrolment has left
  staged,         \* rows its transaction inserted
  failed,         \* requests whose transaction a statement aborted
  target,         \* the card or reader a request read
  overtaken,      \* history: requests that read what has changed since
  excused,        \* history: students who got a card beside the check of enrolment
  erased,         \* history: students anonymized
  reported,       \* history: cards whose enrolment was answered as a success
  used

requestVars == <<pc, route, entries, staged, failed, target>>
historyVars == <<overtaken, excused, erased, reported>>
vars == <<status, holder, reader, admitted, requestVars, historyVars, used>>

Init ==
  /\ status = [c \in Card |-> "NONE"]
  /\ holder = [c \in Card |-> Nobody]
  /\ reader = [r \in Reader |-> "NONE"]
  /\ admitted = Student
  /\ pc = [w \in Worker |-> "free"]
  /\ route = [w \in Worker |-> "enroll"]
  /\ entries = [w \in Worker |-> << >>]
  /\ staged = [w \in Worker |-> {}]
  /\ failed = {}
  /\ target = [w \in Worker |-> Nobody]
  /\ overtaken = {} /\ excused = {} /\ erased = {} /\ reported = {}
  /\ used = [b \in Bound |-> 0]

Use(what, limit) == used[what] < limit /\ used' = [used EXCEPT ![what] = @ + 1]
GoTo(w, step) == pc' = [pc EXCEPT ![w] = step]

\* The request is over.
Leave(w) ==
  /\ GoTo(w, "free")
  /\ route' = [route EXCEPT ![w] = "enroll"]
  /\ entries' = [entries EXCEPT ![w] = << >>]
  /\ staged' = [staged EXCEPT ![w] = {}]
  /\ failed' = failed \ {w}
  /\ target' = [target EXCEPT ![w] = Nobody]

Held(s, S) == {c \in Card : holder[c] = s /\ status[c] \in S}
Rows(w) == {e.card : e \in staged[w]}

-----------------------------------------------------------------------------
(* Enrolment *)

\* bulk-enroll is given a list, the other routes one entry.
Enroll(w, kind, list) ==
  /\ pc[w] = "free"
  /\ Use("requests", MaxRequests)
  /\ GoTo(w, "look")
  /\ route' = [route EXCEPT ![w] = kind]
  /\ entries' = [entries EXCEPT ![w] = list]
  /\ UNCHANGED <<status, holder, reader, admitted, staged, failed, target, historyVars>>

\* Mutant of Refused: a student who has a card may be given another.
X_SecondCard(w, e) ==
  \/ e.student \notin admitted
  \/ status[e.card] \in Live \cup {"SUSPENDED"} \/ e.card \in Rows(w)

Refused(w, e) ==
  \/ e.student \notin admitted
  \/ Held(e.student, Live) # {} \/ \E f \in staged[w] : f.student = e.student
  \/ status[e.card] \in Live \cup {"SUSPENDED"} \/ e.card \in Rows(w)

\* An entry that is refused is passed over.
Look(w) ==
  /\ pc[w] = "look" /\ entries[w] # << >>
  /\ IF Refused(w, Head(entries[w]))
     THEN entries' = [entries EXCEPT ![w] = Tail(@)] /\ UNCHANGED pc
     ELSE GoTo(w, "insert") /\ UNCHANGED entries
  /\ UNCHANGED <<status, holder, reader, admitted, route, staged, failed, target,
                 historyVars, used>>

\* Mutant of Blockers: the digest of a card is not unique.
X_NeverBlocked(w) == {}

\* What another request holds under the same unique digest must be waited for.
Blockers(w) == {v \in Worker \ {w} : pc[w] = "insert" /\ Head(entries[w]).card \in Rows(v)}

\* A digest that is there, of an ended card that is, aborts the transaction:
\* every statement after it fails.
Insert(w) ==
  /\ pc[w] = "insert"
  /\ Blockers(w) = {}
  /\ GoTo(w, "look")
  /\ LET e == Head(entries[w]) IN
     IF status[e.card] # "NONE"
     THEN /\ failed' = failed \cup {w}
          /\ entries' = [entries EXCEPT ![w] = << >>]
          /\ UNCHANGED staged
     ELSE /\ staged' = [staged EXCEPT ![w] = @ \cup {e}]
          /\ entries' = [entries EXCEPT ![w] = Tail(@)]
          /\ UNCHANGED failed
  /\ UNCHANGED <<status, holder, reader, admitted, route, target, historyVars, used>>

\* Of two requests that wait for each other the database aborts one.
BreakDeadlock(w) ==
  /\ \E v \in Blockers(w) : w \in Blockers(v)
  /\ GoTo(w, "look")
  /\ failed' = failed \cup {w}
  /\ entries' = [entries EXCEPT ![w] = << >>]
  /\ UNCHANGED <<status, holder, reader, admitted, route, staged, target, historyVars, used>>

\* Others that looked at the student or the reader by now act on what they saw.
Rivals(w, S) ==
  {v \in Worker \ {w} :
     \/ \E e \in staged[v] : e.student \in S
     \/ pc[v] = "insert" /\ Head(entries[v]).student \in S}

\* bulk-enroll answers with the outcome of each entry, whatever came after it.
Finish(w) ==
  /\ pc[w] = "look" /\ entries[w] = << >>
  /\ LET kept == IF w \in failed THEN {} ELSE staged[w]
         of(c) == CHOOSE e \in staged[w] : e.card = c IN
     /\ status' = [c \in Card |-> IF c \notin {e.card : e \in kept} THEN status[c]
                                  ELSE IF route[w] = "enroll" THEN "PENDING" ELSE "ACTIVE"]
     /\ holder' = [c \in Card |-> IF c \in {e.card : e \in kept} THEN of(c).student
                                                                ELSE holder[c]]
     /\ overtaken' = (overtaken \cup Rivals(w, {e.student : e \in kept})) \ {w}
     /\ excused' = IF w \in overtaken THEN excused \cup {e.student : e \in kept} ELSE excused
     /\ reported' = IF w \in failed /\ route[w] # "bulk-enroll" THEN reported
                    ELSE reported \cup Rows(w)
  /\ Leave(w)
  /\ UNCHANGED <<reader, admitted, erased, used>>

-----------------------------------------------------------------------------
(* Reactivation and provisioning read a row and write it later *)

ReadCard(w, c) ==
  /\ pc[w] = "free" /\ status[c] = "SUSPENDED"
  /\ Use("requests", MaxRequests)
  /\ GoTo(w, "reactivate")
  /\ target' = [target EXCEPT ![w] = c]
  /\ UNCHANGED <<status, holder, reader, admitted, route, entries, staged, failed, historyVars>>

\* Mutant of Reactivated: the update names the card by its id alone.
X_Whatever(c) == "ACTIVE"
Reactivated(c) == IF status[c] = "SUSPENDED" THEN "ACTIVE" ELSE status[c]

\* The answer is a success even if the card is not suspended any more.
Reactivate(w) ==
  /\ pc[w] = "reactivate"
  /\ LET c == target[w] IN
     /\ status' = [status EXCEPT ![c] = Reactivated(c)]
     /\ excused' = IF status'[c] = "ACTIVE" THEN excused \cup {holder[c]} ELSE excused
     /\ overtaken' = (overtaken \cup {v \in Rivals(w, {holder[c]}) : status'[c] = "ACTIVE"})
                     \ {w}
  /\ Leave(w)
  /\ UNCHANGED <<holder, reader, admitted, erased, reported, used>>

\* Mutant of Provisionable: the status of the reader is not looked at.
X_AnyReader(r) == reader[r] # "NONE"
Provisionable(r) == reader[r] \in {"PENDING", "ACTIVE"}

ReadReader(w, r) ==
  /\ pc[w] = "free" /\ Provisionable(r)
  /\ Use("requests", MaxRequests)
  /\ GoTo(w, "provision")
  /\ target' = [target EXCEPT ![w] = r]
  /\ UNCHANGED <<status, holder, reader, admitted, route, entries, staged, failed, historyVars>>

\* The update names the reader by its id alone.
Provision(w) ==
  /\ pc[w] = "provision"
  /\ reader' = [reader EXCEPT ![target[w]] = "ACTIVE"]
  /\ overtaken' = overtaken \ {w}
  /\ Leave(w)
  /\ UNCHANGED <<status, holder, admitted, excused, erased, reported, used>>

\* The process dies or the connection is lost before the commit.
Die(w) ==
  /\ pc[w] # "free"
  /\ Use("faults", MaxFaults)
  /\ overtaken' = overtaken \ {w}
  /\ Leave(w)
  /\ UNCHANGED <<status, holder, reader, admitted, excused, erased, reported>>

-----------------------------------------------------------------------------
(* Requests of one statement *)

\* activateCredential, suspendCredential, revokeCredential, expireCredentials.
ChangeCard(c, from, to) ==
  /\ status[c] \in from
  /\ status' = [status EXCEPT ![c] = to]
  /\ UNCHANGED <<holder, reader, admitted, requestVars, historyVars>>

Activate(c) == ChangeCard(c, {"PENDING"}, "ACTIVE")
Suspend(c)  == ChangeCard(c, {"ACTIVE"}, "SUSPENDED")
RevokeCard(c) == ChangeCard(c, Status \ {"NONE"}, "REVOKED")
Expire(c)   == ChangeCard(c, {"ACTIVE"}, "EXPIRED")

\* Neither the status of the old card nor its student is looked at; a digest
\* that is there rolls the replacement back, one another request holds is waited
\* for. The history excuses the student of an old card that was not live.
Replace(old, new) ==
  /\ status[old] # "NONE" /\ status[new] = "NONE"
  /\ \A w \in Worker : new \notin Rows(w)
  /\ LET s == holder[old] IN
     /\ status' = [status EXCEPT ![old] = "REPLACED", ![new] = "ACTIVE"]
     /\ holder' = [holder EXCEPT ![new] = s]
     /\ excused' = IF status[old] \in Live THEN excused ELSE excused \cup {s}
     /\ overtaken' = overtaken \cup Rivals(Nobody, {s})
  /\ UNCHANGED <<reader, admitted, requestVars, erased, reported>>

\* Mutant of Taken: anonymization ends the active cards only.
X_ActiveOnly(s) == Held(s, {"ACTIVE"})

\* Anonymization ends every card of the student.
Taken(s) == Held(s, Status)

Erase(s) ==
  /\ status' = [c \in Card |-> IF c \in Taken(s) THEN "REVOKED" ELSE status[c]]
  /\ admitted' = admitted \ {s}
  /\ erased' = erased \cup {s}
  /\ overtaken' = overtaken \cup Rivals(Nobody, {s})
  /\ UNCHANGED <<holder, reader, requestVars, excused, reported>>

\* The student is activated again, or consent is given or withdrawn.
Admit(s) ==
  /\ admitted' = IF s \in admitted THEN admitted \ {s} ELSE admitted \cup {s}
  /\ erased' = erased \ {s}
  /\ UNCHANGED <<status, holder, reader, requestVars, overtaken, excused, reported>>

\* registerReader, approveReader, suspendReader, revokeReader, retireReader. The
\* requests that are about to provision the reader act on what they read.
ChangeReader(r, from, to) ==
  /\ reader[r] \in from
  /\ reader' = [reader EXCEPT ![r] = to]
  /\ overtaken' = overtaken \cup {w \in Worker : target[w] = r}
  /\ UNCHANGED <<status, holder, admitted, requestVars, excused, erased, reported>>

Register(r)      == ChangeReader(r, {"NONE"}, "PENDING")
Approve(r)       == ChangeReader(r, {"PENDING"}, "ACTIVE")
SuspendReader(r) == ChangeReader(r, {"ACTIVE"}, "SUSPENDED")
RevokeReader(r)  == reader[r] # "NONE" /\ ChangeReader(r, {reader[r]}, "REVOKED")
Retire(r)        == reader[r] # "NONE" /\ ChangeReader(r, {reader[r]}, "RETIRED")

Change ==
  /\ Use("changes", MaxChanges)
  /\ \/ \E c \in Card : Activate(c) \/ Suspend(c) \/ RevokeCard(c) \/ Expire(c)
     \/ \E old, new \in Card : Replace(old, new)
     \/ \E s \in Student : Erase(s) \/ Admit(s)
     \/ \E r \in Reader : \/ Register(r) \/ Approve(r) \/ SuspendReader(r)
                           \/ RevokeReader(r) \/ Retire(r)

Receive(w) ==
  \/ \E e \in Entry : Enroll(w, "enroll", <<e>>) \/ Enroll(w, "enroll-epc", <<e>>)
  \/ \E e, f \in Entry : Enroll(w, "bulk-enroll", <<e, f>>)
  \/ \E c \in Card : ReadCard(w, c)
  \/ \E r \in Reader : ReadReader(w, r)

Serve(w) == Look(w) \/ Insert(w) \/ BreakDeadlock(w) \/ Finish(w) \/ Reactivate(w) \/ Provision(w)

Next == Change \/ \E w \in Worker : Receive(w) \/ Serve(w) \/ Die(w)

Spec == Init /\ [][Next]_vars

-----------------------------------------------------------------------------
(* Properties *)

\* The values of the state; a card without a row is nobody's, and two requests
\* never hold the same digest.
TypeOK ==
  /\ status \in [Card -> Status] /\ holder \in [Card -> Student \cup {Nobody}]
  /\ reader \in [Reader -> {"NONE", "PENDING", "ACTIVE", "SUSPENDED", "REVOKED", "RETIRED"}]
  /\ admitted \subseteq Student
  /\ pc \in [Worker -> {"free", "look", "insert", "reactivate", "provision"}]
  /\ route \in [Worker -> Route] /\ staged \in [Worker -> SUBSET Entry]
  /\ entries \in [Worker -> Seq(Entry)]
  /\ failed \cup overtaken \subseteq {w \in Worker : pc[w] # "free"}
  /\ target \in [Worker -> Card \cup Reader \cup {Nobody}]
  /\ excused \cup erased \subseteq Student /\ reported \subseteq Card
  /\ \A c \in Card : holder[c] = Nobody <=> status[c] = "NONE"
  /\ \A v, w \in Worker : v # w => Rows(v) \cap Rows(w) = {}
  /\ \A w \in Worker : \A c \in Rows(w) : status[c] = "NONE"

\* A student has one card that is pending or active. The exceptions: a card was
\* reactivated, a card that was not in use was replaced, or two requests gave
\* the student a card at the same time.
OneLiveCard ==
  \A s \in Student : Cardinality(Held(s, Live)) <= 1 \/ s \in excused

\* A revoked, replaced or expired card is never used again, whatever requests
\* about it overlap; a reader that was taken out of service is active again only
\* by a provisioning that had read it before.
EndedStaysEnded ==
  [][/\ \A c \in Card : status[c] \in Ended => status'[c] \in Ended
     /\ \A r \in Reader :
          reader[r] \in {"SUSPENDED", "REVOKED", "RETIRED"} /\ reader'[r] = "ACTIVE"
          => \E w \in overtaken : target[w] = r /\ pc[w] = "provision"]_vars

\* A student who was anonymized has no card in use, unless an enrolment had
\* looked at the student before or a card was replaced afterwards.
ErasedHasNoCard == \A s \in erased : Held(s, Live) = {} \/ s \in excused

\* A card whose enrolment was answered as a success is in the table.
ReportedIsEnrolled == \A c \in reported : status[c] # "NONE"
=============================================================================
