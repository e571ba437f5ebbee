-------------------------- MODULE Students_proofs --------------------------
(* Theorems about what the students of a school carry and how they come to it: *)
(* first the RFID cards of Cards, then the QR cards and enrolments of Imports. *)
EXTENDS Cards, Imports, FiniteSetTheorems, TLAPS

-----------------------------------------------------------------------------
(* Cards and readers: the inductive invariant *)

\* Where a request is tells what it holds: an enrolment that inserts has an
\* entry unlike the ones it staged; a reader about to be provisioned may be,
\* unless the request was overtaken.
Flow(w) ==
  /\ pc[w] \notin {"look", "insert"} => staged[w] = {} /\ entries[w] = << >>
  /\ pc[w] = "free" => target[w] = Nobody
  /\ pc[w] = "insert" =>
       /\ entries[w] # << >> /\ Head(entries[w]).card \notin Rows(w)
       /\ \A f \in staged[w] : f.student # Head(entries[w]).student
  /\ \A e, f \in staged[w] : e.card = f.card \/ e.student = f.student => e = f
  /\ pc[w] = "reactivate" => target[w] \in Card /\ status[target[w]] # "NONE"
  /\ pc[w] = "provision" =>
       target[w] \in Reader /\ (w \in overtaken \/ Provisionable(target[w]))

FlowHolds == \A w \in Worker : Flow(w)

\* The request w is past the check of enrolment for the student s.
Pending(w, s) ==
  \/ \E e \in staged[w] : e.student = s
  \/ pc[w] = "insert" /\ Head(entries[w]).student = s

\* A student who has no excuse has one live card, and none while an enrolment
\* that nobody overtook is about to give one.
CardsHold ==
  /\ admitted \cap erased = {}
  /\ \A s \in Student \ excused : \A c, d \in Held(s, Live) : c = d
  /\ \A w \in Worker \ overtaken : \A s \in Student : Pending(w, s) =>
       s \notin erased /\ (Held(s, Live) = {} \/ s \in excused)
  /\ ErasedHasNoCard

CardsInv == TypeOK /\ FlowHolds /\ CardsHold

-----------------------------------------------------------------------------
(* Types, and where each request is *)

Steps == {"free", "look", "insert", "reactivate", "provision"}

\* What is left of the entries of an enrolment are entries.
LEMMA EntriesLeft ==
  ASSUME TypeOK, NEW w \in Worker, entries[w] # << >>
  PROVE  /\ Head(entries[w]) \in Entry /\ Tail(entries[w]) \in Seq(Entry)
         /\ Head(entries[w]).student \in Student /\ Head(entries[w]).card \in Card
  <1>1. entries[w] \in Seq(Entry)
    BY DEF TypeOK
  <1>2. Head(entries[w]) \in Entry /\ Tail(entries[w]) \in Seq(Entry)
    BY <1>1
  <1>3. QED
    BY <1>2 DEF Entry

\* The rows a request staged are cards of students.
LEMMA RowsTyped ==
  ASSUME TypeOK, NEW w \in Worker
  PROVE  /\ Rows(w) \subseteq Card /\ \A e \in staged[w] : e.student \in Student
         /\ \A e \in staged[w] : e.card \in Rows(w)
  BY DEF TypeOK, Rows, Entry

\* A request that leaves is free, and the others stand.
LEMMA LeaveType ==
  ASSUME TypeOK, FlowHolds, NEW w \in Worker, Leave(w)
  PROVE  /\ pc' \in [Worker -> Steps] /\ route' \in [Worker -> Route]
         /\ staged' \in [Worker -> SUBSET Entry] /\ entries' \in [Worker -> Seq(Entry)]
         /\ failed' \subseteq {v \in Worker : pc'[v] # "free"}
         /\ target' \in [Worker -> Card \cup Reader \cup {Nobody}]
         /\ pc'[w] = "free" /\ staged'[w] = {} /\ entries'[w] = << >> /\ target'[w] = Nobody
         /\ \A v \in Worker : v # w => /\ pc'[v] = pc[v] /\ staged'[v] = staged[v]
                                       /\ entries'[v] = entries[v] /\ target'[v] = target[v]
  BY DEF TypeOK, Leave, GoTo, Steps, Route

\* Requests that stand, or are free, hold their rows as before.
LEMMA RowsStand ==
  ASSUME TypeOK, \A v \in Worker : staged'[v] = staged[v] \/ staged'[v] = {}
  PROVE  /\ \A v \in Worker : Rows(v)' \subseteq Rows(v)
         /\ \A v, w \in Worker : v # w => Rows(v)' \cap Rows(w)' = {}
  <1>1. \A v \in Worker : Rows(v)' \subseteq Rows(v)
    BY DEF Rows
  <1>2. QED
    BY <1>1 DEF TypeOK

\* A request that stands is where it was.
Stands(v) ==
  /\ pc'[v] = pc[v] /\ staged'[v] = staged[v] /\ entries'[v] = entries[v]
  /\ target'[v] = target[v]
  /\ v \in overtaken => v \in overtaken'

LEMMA FlowStands ==
  ASSUME NEW v, Flow(v), Stands(v),
         pc[v] = "reactivate" /\ target[v] \in Card /\ status[target[v]] # "NONE"
           => status'[target[v]] # "NONE",
         pc[v] = "provision" /\ target[v] \in Reader /\ Provisionable(target[v])
           => v \in overtaken' \/ Provisionable(target[v])'
  PROVE  Flow(v)'
  BY DEF Flow, Stands, Rows, Provisionable

\* The steps that leave the cards and readers alone.
LEMMA FlowOfEnrolment ==
  ASSUME TypeOK, FlowHolds, NEW w \in Worker,
         \/ \E e \in Entry : Enroll(w, "enroll", <<e>>) \/ Enroll(w, "enroll-epc", <<e>>)
         \/ \E e, f \in Entry : Enroll(w, "bulk-enroll", <<e, f>>)
  PROVE  TypeOK' /\ FlowHolds'
<1>1. PICK list \in Seq(Entry), kind \in Route : Enroll(w, kind, list)
  <2>1. \A e, f \in Entry : <<e>> \in Seq(Entry) /\ <<e, f>> \in Seq(Entry)
    OBVIOUS
  <2>2. "enroll" \in Route /\ "enroll-epc" \in Route /\ "bulk-enroll" \in Route
    BY DEF Route
  <2>3. QED
    BY <2>1, <2>2
<1>2. /\ pc' = [pc EXCEPT ![w] = "look"] /\ route' = [route EXCEPT ![w] = kind]
      /\ entries' = [entries EXCEPT ![w] = list] /\ pc[w] = "free"
      /\ UNCHANGED <<status, holder, reader, admitted, staged, failed, target,
                     overtaken, excused, erased, reported>>
  BY <1>1 DEF Enroll, GoTo, historyVars
<1>3. TypeOK'
  BY <1>2 DEF TypeOK, Rows
<1>4. ASSUME NEW v \in Worker, v # w PROVE Flow(v)'
  BY <1>2, <1>4, FlowStands DEF FlowHolds, TypeOK, Stands, Provisionable
<1>5. Flow(w)'
  <2>1. staged'[w] = {} /\ pc'[w] = "look"
    BY <1>2 DEF FlowHolds, Flow, TypeOK
  <2>2. QED
    BY <2>1 DEF Flow
<1>6. QED
  BY <1>3, <1>4, <1>5 DEF FlowHolds

LEMMA FlowOfLook ==
  ASSUME TypeOK, FlowHolds, NEW w \in Worker, Look(w)
  PROVE  TypeOK' /\ FlowHolds'
<1>1. /\ pc[w] = "look" /\ entries[w] # << >>
      /\ UNCHANGED <<status, holder, reader, admitted, route, staged, failed, target,
                     overtaken, excused, erased, reported>>
  BY DEF Look, historyVars
<1>2. \/ /\ entries' = [entries EXCEPT ![w] = Tail(entries[w])] /\ pc' = pc
      \/ /\ entries' = entries /\ pc' = [pc EXCEPT ![w] = "insert"]
         /\ ~Refused(w, Head(entries[w]))
  BY DEF Look, GoTo
<1>3. entries' \in [Worker -> Seq(Entry)]
  BY <1>1, <1>2, EntriesLeft DEF TypeOK
<1>4. TypeOK'
  <2>1. pc' \in [Worker -> Steps] /\ \A v \in Worker : pc'[v] = "free" => pc[v] = "free"
    BY <1>1, <1>2 DEF TypeOK, Steps
  <2>2. \A v \in Worker : Rows(v)' = Rows(v)
    BY <1>1 DEF Rows
  <2>3. QED
    BY <1>1, <1>3, <2>1, <2>2 DEF TypeOK, Steps
<1>5. ASSUME NEW v \in Worker, v # w PROVE Flow(v)'
  BY <1>1, <1>2, <1>5, FlowStands DEF FlowHolds, TypeOK, Stands, Provisionable
<1>6. Flow(w)'
  <2>1. /\ pc'[w] = "look" \/ (pc'[w] = "insert" /\ entries' = entries)
        /\ pc'[w] = "insert" => ~Refused(w, Head(entries[w]))
    BY <1>1, <1>2 DEF TypeOK
  <2>2. QED
    BY <1>1, <2>1 DEF FlowHolds, Flow, Refused, Rows
<1>7. QED
  BY <1>4, <1>5, <1>6 DEF FlowHolds

LEMMA FlowOfInsert ==
  ASSUME TypeOK, FlowHolds, NEW w \in Worker, Insert(w)
  PROVE  TypeOK' /\ FlowHolds'
<1> DEFINE e == Head(entries[w])
<1>1. /\ pc[w] = "insert" /\ pc' = [pc EXCEPT ![w] = "look"] /\ Blockers(w) = {}
      /\ UNCHANGED <<status, holder, reader, admitted, route, target, overtaken, excused,
                     erased, reported>>
  BY DEF Insert, GoTo, historyVars
<1>2. /\ entries[w] # << >> /\ e.card \notin Rows(w)
      /\ \A f \in staged[w] : f.student # e.student
  BY <1>1 DEF FlowHolds, Flow
<1>3. e \in Entry /\ Tail(entries[w]) \in Seq(Entry) /\ << >> \in Seq(Entry)
  BY <1>2, EntriesLeft
<1>4. \/ /\ failed' = failed \cup {w} /\ staged' = staged
         /\ entries' = [entries EXCEPT ![w] = << >>]
      \/ /\ status[e.card] = "NONE" /\ staged' = [staged EXCEPT ![w] = @ \cup {e}]
         /\ entries' = [entries EXCEPT ![w] = Tail(@)] /\ failed' = failed
  BY DEF Insert
<1> HIDE DEF e
<1>5. Rows(w)' = Rows(w) \/ (Rows(w)' = Rows(w) \cup {e.card} /\ status[e.card] = "NONE")
  BY <1>4 DEF Rows, TypeOK
<1>6. \A v \in Worker : v # w => Rows(v)' = Rows(v) /\ e.card \notin Rows(v)
  <2>1. \A v \in Worker : v # w => e.card \notin Rows(v)
    BY <1>1 DEF Blockers, e
  <2>2. QED
    BY <1>4, <2>1 DEF Rows, TypeOK
<1>7. \A u, v \in Worker : u # v => Rows(u)' \cap Rows(v)' = {}
  <2>1. \A u, v \in Worker : u # v => Rows(u) \cap Rows(v) = {}
    BY DEF TypeOK
  <2>2. QED
    BY <1>5, <1>6, <2>1
<1>8. \A v \in Worker : \A c \in Rows(v)' : status'[c] = "NONE"
  <2>1. \A v \in Worker : \A c \in Rows(v) : status[c] = "NONE"
    BY DEF TypeOK
  <2>2. QED
    BY <1>1, <1>5, <1>6, <2>1
<1>9. staged' \in [Worker -> SUBSET Entry] /\ entries' \in [Worker -> Seq(Entry)]
  <2>1. staged \in [Worker -> SUBSET Entry] /\ entries \in [Worker -> Seq(Entry)]
    BY DEF TypeOK
  <2>2. staged' \in [Worker -> SUBSET Entry]
    BY <1>3, <1>4, <2>1
  <2>3. entries' \in [Worker -> Seq(Entry)]
    BY <1>3, <1>4, <2>1
  <2>4. QED
    BY <2>2, <2>3
<1>10. failed' \cup overtaken' \subseteq {v \in Worker : pc'[v] # "free"}
  BY <1>1, <1>4 DEF TypeOK
<1>11. TypeOK'
  BY <1>1, <1>7, <1>8, <1>9, <1>10 DEF TypeOK
<1>12. ASSUME NEW v \in Worker, v # w PROVE Flow(v)'
  BY <1>1, <1>4, <1>12, FlowStands DEF FlowHolds, TypeOK, Stands, Provisionable
<1>13. Flow(w)'
  <2>1. pc'[w] = "look" /\ (staged'[w] = staged[w] \/ staged'[w] = staged[w] \cup {e})
    BY <1>1, <1>4 DEF TypeOK
  <2>2. \A f \in staged[w] : f.card # e.card /\ f.student # e.student
    BY <1>2 DEF Rows, e
  <2>3. \A f, g \in staged[w] : f.card = g.card \/ f.student = g.student => f = g
    BY DEF FlowHolds, Flow
  <2>4. QED
    BY <2>1, <2>2, <2>3 DEF Flow
<1>14. QED
  BY <1>11, <1>12, <1>13 DEF FlowHolds

LEMMA FlowOfDeadlock ==
  ASSUME TypeOK, FlowHolds, NEW w \in Worker, BreakDeadlock(w)
  PROVE  TypeOK' /\ FlowHolds'
<1>1. /\ pc' = [pc EXCEPT ![w] = "look"] /\ pc[w] = "insert"
      /\ failed' = failed \cup {w} /\ entries' = [entries EXCEPT ![w] = << >>]
      /\ UNCHANGED <<status, holder, reader, admitted, route, staged, target, overtaken,
                     excused, erased, reported>>
  BY DEF BreakDeadlock, GoTo, Blockers, historyVars
<1>2. entries' \in [Worker -> Seq(Entry)] /\ pc' \in [Worker -> Steps]
  BY <1>1 DEF TypeOK, Steps
<1>3. TypeOK'
  <2>1. \A v \in Worker : pc'[v] = IF v = w THEN "look" ELSE pc[v]
    BY <1>1 DEF TypeOK
  <2>2. failed' \cup overtaken' \subseteq {v \in Worker : pc'[v] # "free"}
    BY <1>1, <2>1 DEF TypeOK
  <2>3. \A v \in Worker : Rows(v)' = Rows(v)
    BY <1>1 DEF Rows
  <2>4. /\ \A u, v \in Worker : u # v => Rows(u)' \cap Rows(v)' = {}
        /\ \A v \in Worker : \A c \in Rows(v)' : status'[c] = "NONE"
    BY <1>1, <2>3 DEF TypeOK
  <2>5. QED
    BY <1>1, <1>2, <2>2, <2>4 DEF TypeOK, Steps
<1>4. ASSUME NEW v \in Worker, v # w PROVE Flow(v)'
  BY <1>1, <1>4, FlowStands DEF FlowHolds, TypeOK, Stands, Provisionable
<1>5. Flow(w)'
  BY <1>1 DEF FlowHolds, Flow, TypeOK
<1>6. QED
  BY <1>3, <1>4, <1>5 DEF FlowHolds

\* What the rows become that a request inserted and did not lose.
Kept(w) == IF w \in failed THEN {} ELSE staged[w]
Takers(w) == {e.student : e \in Kept(w)}

LEMMA FinishFacts ==
  ASSUME TypeOK, FlowHolds, NEW w \in Worker, Finish(w)
  PROVE  /\ status' \in [Card -> Status] /\ holder' \in [Card -> Student \cup {Nobody}]
         /\ \A e \in Kept(w) : /\ e \in staged[w] /\ e.card \in Card /\ e.student \in Student
                               /\ status[e.card] = "NONE"
                               /\ status'[e.card] \in Live /\ holder'[e.card] = e.student
         /\ \A c \in Card : \/ status'[c] = status[c] /\ holder'[c] = holder[c]
                            \/ \E e \in Kept(w) : e.card = c
         /\ overtaken' = (overtaken \cup Rivals(w, Takers(w))) \ {w}
         /\ excused' = IF w \in overtaken THEN excused \cup Takers(w) ELSE excused
         /\ reported' \subseteq reported \cup Rows(w)
         /\ Leave(w) /\ pc[w] = "look" /\ UNCHANGED <<reader, admitted, erased>>
<1> DEFINE of(c) == CHOOSE e \in staged[w] : e.card = c
           cards == {e.card : e \in Kept(w)}
<1>1. /\ status' = [c \in Card |-> IF c \notin cards THEN status[c]
                                   ELSE IF route[w] = "enroll" THEN "PENDING" ELSE "ACTIVE"]
      /\ holder' = [c \in Card |-> IF c \in cards THEN of(c).student ELSE holder[c]]
      /\ overtaken' = (overtaken \cup Rivals(w, Takers(w))) \ {w}
      /\ excused' = IF w \in overtaken THEN excused \cup Takers(w) ELSE excused
      /\ reported' \subseteq reported \cup Rows(w)
      /\ Leave(w) /\ pc[w] = "look" /\ UNCHANGED <<reader, admitted, erased>>
  BY DEF Finish, Kept, Takers
<1>2. \A e \in staged[w] : of(e.card) = e
  BY DEF FlowHolds, Flow
<1>3. \A e \in Kept(w) : /\ e \in staged[w] /\ e.card \in Card /\ e.student \in Student
                         /\ status[e.card] = "NONE"
  <2>1. \A e \in Kept(w) : e \in staged[w]
    BY DEF Kept
  <2>2. QED
    BY <2>1, RowsTyped DEF TypeOK
<1>4. \A e \in Kept(w) : e.card \in cards /\ of(e.card).student = e.student
  BY <1>2, <1>3
<1>5. \A c \in cards : of(c).student \in Student
  BY <1>3, <1>4
<1> HIDE DEF of, cards
<1>6. status' \in [Card -> Status]
  BY <1>1 DEF TypeOK, Status
<1>7. holder' \in [Card -> Student \cup {Nobody}]
  BY <1>1, <1>5 DEF TypeOK
<1>8. \A e \in Kept(w) : status'[e.card] \in Live /\ holder'[e.card] = e.student
  BY <1>1, <1>3, <1>4 DEF Live
<1>9. \A c \in Card : \/ status'[c] = status[c] /\ holder'[c] = holder[c]
                      \/ \E e \in Kept(w) : e.card = c
  BY <1>1 DEF cards
<1>10. QED
  BY <1>1, <1>3, <1>6, <1>7, <1>8, <1>9

\* Whoever a history names as overtaken is at work.
LEMMA RivalsWork ==
  ASSUME TypeOK, FlowHolds, NEW w, NEW S
  PROVE  /\ Rivals(w, S) \subseteq {v \in Worker : pc[v] # "free"} \ {w}
         /\ \A v \in Worker, s \in S : Pending(v, s) /\ v # w => v \in Rivals(w, S)
  BY DEF Rivals, FlowHolds, Flow, Pending

\* A row that is there is never deleted.
LEMMA StatusStays ==
  ASSUME TypeOK, FlowHolds, NEW c \in Card, status[c] # "NONE",
         \/ Change
         \/ \E w \in Worker : Finish(w) \/ Reactivate(w)
  PROVE  status'[c] # "NONE"
<1>1. ASSUME NEW d \in Card, NEW from, NEW to \in Status \ {"NONE"}, ChangeCard(d, from, to)
      PROVE  status'[c] # "NONE"
  BY <1>1 DEF ChangeCard, TypeOK
<1>2. ASSUME NEW w \in Worker, Finish(w) PROVE status'[c] # "NONE"
  BY <1>2, FinishFacts DEF Live
<1>3. ASSUME NEW w \in Worker, Reactivate(w) PROVE status'[c] # "NONE"
  BY <1>3 DEF Reactivate, Reactivated, TypeOK
<1>4. ASSUME NEW old \in Card, NEW new \in Card, Replace(old, new) PROVE status'[c] # "NONE"
  BY <1>4 DEF Replace, TypeOK
<1>5. ASSUME NEW s \in Student, Erase(s) \/ Admit(s) PROVE status'[c] # "NONE"
  BY <1>5 DEF Erase, Admit, TypeOK
<1>6. ASSUME NEW r \in Reader, NEW from, NEW to, ChangeReader(r, from, to)
      PROVE  status'[c] # "NONE"
  BY <1>6 DEF ChangeReader
<1>7. ASSUME NEW d \in Card, Activate(d) \/ Suspend(d) \/ RevokeCard(d) \/ Expire(d)
      PROVE  status'[c] # "NONE"
  <2>1. {"ACTIVE", "SUSPENDED", "REVOKED", "EXPIRED"} \subseteq Status \ {"NONE"}
    BY DEF Status
  <2>2. QED
    BY <1>1, <1>7, <2>1 DEF Activate, Suspend, RevokeCard, Expire
<1>8. ASSUME NEW r \in Reader, Register(r) \/ Approve(r) \/ SuspendReader(r)
                              \/ RevokeReader(r) \/ Retire(r)
      PROVE  status'[c] # "NONE"
  BY <1>6, <1>8 DEF Register, Approve, SuspendReader, RevokeReader, Retire
<1>9. CASE Change
  BY <1>4, <1>5, <1>7, <1>8, <1>9 DEF Change
<1>10. QED
  BY <1>2, <1>3, <1>9

LEMMA FlowOfFinish ==
  ASSUME TypeOK, FlowHolds, NEW w \in Worker, Finish(w)
  PROVE  TypeOK' /\ FlowHolds'
<1>1. \A v \in Worker : Rows(v)' \subseteq Rows(v)
      /\ \A u \in Worker : u # v => Rows(u)' \cap Rows(v)' = {}
  BY FinishFacts, LeaveType, RowsStand
<1>2. \A c \in Card : holder'[c] = Nobody <=> status'[c] = "NONE"
  <2>1. TAKE c \in Card
  <2>2. ASSUME NEW e \in Kept(w), e.card = c PROVE holder'[c] # Nobody /\ status'[c] # "NONE"
    <3>1. status'[c] \in Live /\ holder'[c] \in Student
      BY <2>2, FinishFacts
    <3>2. QED
      BY <3>1, CardsAssumption DEF Live, Nobody
  <2>3. CASE status'[c] = status[c] /\ holder'[c] = holder[c]
    BY <2>3 DEF TypeOK
  <2>4. QED
    BY <2>2, <2>3, FinishFacts
<1>3. \A v \in Worker : \A c \in Rows(v)' : status'[c] = "NONE"
  <2>1. TAKE v \in Worker
  <2>2. CASE v = w
    BY <2>2, FinishFacts, LeaveType DEF Rows
  <2>3. CASE v # w
    <3>1. \A c \in Rows(v) : c \in Card /\ c \notin Rows(w) /\ status[c] = "NONE"
      BY <2>3, RowsTyped DEF TypeOK
    <3>2. \A e \in Kept(w) : e.card \in Rows(w)
      BY RowsTyped DEF Kept
    <3>3. QED
      BY <1>1, <3>1, <3>2, FinishFacts
  <2>4. QED
    BY <2>2, <2>3
<1>4. failed' \cup overtaken' \subseteq {v \in Worker : pc'[v] # "free"}
  <2>1. overtaken' \subseteq {v \in Worker : pc[v] # "free"} \ {w}
    BY FinishFacts, RivalsWork DEF TypeOK
  <2>2. failed' \subseteq {v \in Worker : pc'[v] # "free"}
    BY FinishFacts, LeaveType
  <2>3. \A v \in Worker : v # w => pc'[v] = pc[v]
    BY FinishFacts, LeaveType
  <2>4. QED
    BY <2>1, <2>2, <2>3
<1>5. Takers(w) \subseteq Student /\ Rows(w) \subseteq Card
  BY FinishFacts, RowsTyped DEF Takers
<1>6. excused' \cup erased' \subseteq Student /\ reported' \subseteq Card
  <2>1. /\ excused' \subseteq excused \cup Takers(w) /\ erased' = erased
        /\ reported' \subseteq reported \cup Rows(w)
    BY FinishFacts
  <2>2. excused \cup erased \subseteq Student /\ reported \subseteq Card
    BY DEF TypeOK
  <2>3. QED
    BY <1>5, <2>1, <2>2
<1>7. TypeOK'
  BY <1>1, <1>2, <1>3, <1>4, <1>6, FinishFacts, LeaveType DEF TypeOK, Steps
<1>8. ASSUME NEW v \in Worker, v # w PROVE Flow(v)'
  <2>1. Stands(v) /\ reader' = reader
    BY <1>8, FinishFacts, LeaveType DEF Stands
  <2>2. Flow(v) /\ (Provisionable(target[v]) => Provisionable(target[v])')
    BY <2>1 DEF FlowHolds, Provisionable, Stands
  <2>3. target[v] \in Card /\ status[target[v]] # "NONE" => status'[target[v]] # "NONE"
    BY StatusStays
  <2>4. QED
    BY <2>1, <2>2, <2>3, FlowStands
<1>9. Flow(w)'
  BY FinishFacts, LeaveType DEF Flow
<1>10. QED
  BY <1>7, <1>8, <1>9 DEF FlowHolds

LEMMA FlowOfRead ==
  ASSUME TypeOK, FlowHolds, NEW w \in Worker,
         \/ \E c \in Card : ReadCard(w, c)
         \/ \E r \in Reader : ReadReader(w, r)
  PROVE  TypeOK' /\ FlowHolds'
<1>1. PICK x \in Card \cup Reader, step \in {"reactivate", "provision"} :
        /\ pc' = [pc EXCEPT ![w] = step] /\ target' = [target EXCEPT ![w] = x]
        /\ step = "reactivate" => x \in Card /\ status[x] # "NONE"
        /\ step = "provision" => x \in Reader /\ Provisionable(x)
        /\ pc[w] = "free"
        /\ UNCHANGED <<status, holder, reader, admitted, route, entries, staged, failed,
                       overtaken, excused, erased, reported>>
  BY DEF ReadCard, ReadReader, GoTo, historyVars
<1>2. TypeOK'
  BY <1>1 DEF TypeOK, Rows
<1>3. ASSUME NEW v \in Worker, v # w PROVE Flow(v)'
  BY <1>1, <1>3, FlowStands DEF FlowHolds, TypeOK, Stands, Provisionable
<1>4. Flow(w)'
  <2>1. pc'[w] = step /\ target'[w] = x /\ staged'[w] = {} /\ entries'[w] = << >>
    BY <1>1 DEF FlowHolds, Flow, TypeOK
  <2>2. QED
    BY <1>1, <2>1 DEF Flow, Provisionable
<1>5. QED
  BY <1>2, <1>3, <1>4 DEF FlowHolds

\* A reactivation makes the card active only while it is suspended or active.
LEMMA ReactivateFacts ==
  ASSUME TypeOK, FlowHolds, NEW w \in Worker, Reactivate(w)
  PROVE  \E c \in Card :
           /\ c = target[w] /\ holder[c] \in Student
           /\ \A d \in Card : d # c => status'[d] = status[d]
           /\ status'[c] = Reactivated(c) /\ status' \in [Card -> Status]
           /\ status'[c] # "NONE"
           /\ excused' = IF status'[c] = "ACTIVE" THEN excused \cup {holder[c]} ELSE excused
           /\ overtaken \ {w} \subseteq overtaken'
           /\ overtaken' \subseteq (overtaken \cup Rivals(w, {holder[c]})) \ {w}
           /\ Leave(w) /\ pc[w] = "reactivate"
           /\ UNCHANGED <<holder, reader, admitted, erased, reported>>
<1>1. pc[w] = "reactivate" /\ target[w] \in Card /\ status[target[w]] # "NONE"
  BY DEF Reactivate, FlowHolds, Flow
<1>2. holder[target[w]] \in Student
  BY <1>1 DEF TypeOK
<1>3. status' = [status EXCEPT ![target[w]] = Reactivated(target[w])]
  BY DEF Reactivate
<1>4. Reactivated(target[w]) \in Status \ {"NONE"}
  BY <1>1 DEF Reactivated, TypeOK, Status
<1>5. status' \in [Card -> Status] /\ status'[target[w]] = Reactivated(target[w])
  BY <1>1, <1>3, <1>4 DEF TypeOK
<1>6. \A d \in Card : d # target[w] => status'[d] = status[d]
  BY <1>3 DEF TypeOK
<1>7. /\ Leave(w) /\ UNCHANGED <<holder, reader, admitted, erased, reported>>
      /\ excused' = IF status'[target[w]] = "ACTIVE" THEN excused \cup {holder[target[w]]}
                                                     ELSE excused
      /\ overtaken \ {w} \subseteq overtaken'
      /\ overtaken' \subseteq (overtaken \cup Rivals(w, {holder[target[w]]})) \ {w}
  BY DEF Reactivate
<1>8. QED
  BY <1>1, <1>2, <1>4, <1>5, <1>6, <1>7

\* A request that is over, whatever it did to the cards and readers.
LEMMA FlowOfLeave ==
  ASSUME TypeOK, FlowHolds, NEW w \in Worker, Leave(w),
         status' \in [Card -> Status], UNCHANGED <<holder, admitted, erased, reported>>,
         reader' \in [Reader -> {"NONE", "PENDING", "ACTIVE", "SUSPENDED", "REVOKED", "RETIRED"}],
         \A c \in Card : status[c] = "NONE" <=> status'[c] = "NONE",
         \A r \in Reader : Provisionable(r) => reader'[r] \in {"PENDING", "ACTIVE"},
         excused' \subseteq Student,
         overtaken' \subseteq {v \in Worker : pc[v] # "free"} \ {w},
         overtaken \ {w} \subseteq overtaken'
  PROVE  TypeOK' /\ FlowHolds'
<1>1. \A v \in Worker : Rows(v)' \subseteq Rows(v)
      /\ \A u \in Worker : u # v => Rows(u)' \cap Rows(v)' = {}
  BY LeaveType, RowsStand
<1>2. \A v \in Worker : \A c \in Rows(v)' : status'[c] = "NONE"
  BY <1>1, RowsTyped DEF TypeOK
<1>3. failed' \cup overtaken' \subseteq {v \in Worker : pc'[v] # "free"}
  <2>1. \A v \in Worker : v # w => pc'[v] = pc[v]
    BY LeaveType
  <2>2. failed' \subseteq {v \in Worker : pc'[v] # "free"}
    BY LeaveType
  <2>3. QED
    BY <2>1, <2>2
<1>4. TypeOK'
  BY <1>1, <1>2, <1>3, LeaveType DEF TypeOK, Steps
<1>5. ASSUME NEW v \in Worker, v # w PROVE Flow(v)'
  <2>1. Stands(v) /\ Flow(v)
    BY <1>5, LeaveType DEF Stands, FlowHolds
  <2>2. /\ target[v] \in Card /\ status[target[v]] # "NONE" => status'[target[v]] # "NONE"
        /\ target[v] \in Reader /\ Provisionable(target[v]) => Provisionable(target[v])'
    BY <2>1 DEF Stands, Provisionable
  <2>3. QED
    BY <2>1, <2>2, FlowStands
<1>6. Flow(w)'
  BY LeaveType DEF Flow
<1>7. QED
  BY <1>4, <1>5, <1>6 DEF FlowHolds

LEMMA FlowOfReactivate ==
  ASSUME TypeOK, FlowHolds, NEW w \in Worker, Reactivate(w)
  PROVE  TypeOK' /\ FlowHolds'
<1>1. PICK c \in Card :
        /\ c = target[w] /\ holder[c] \in Student
        /\ \A d \in Card : d # c => status'[d] = status[d]
        /\ status'[c] = Reactivated(c) /\ status' \in [Card -> Status]
        /\ status'[c] # "NONE"
        /\ excused' = IF status'[c] = "ACTIVE" THEN excused \cup {holder[c]} ELSE excused
        /\ overtaken \ {w} \subseteq overtaken'
        /\ overtaken' \subseteq (overtaken \cup Rivals(w, {holder[c]})) \ {w}
        /\ Leave(w) /\ pc[w] = "reactivate"
        /\ UNCHANGED <<holder, reader, admitted, erased, reported>>
  BY ReactivateFacts
<1>2. status[c] # "NONE"
  BY <1>1 DEF FlowHolds, Flow
<1>3. \A d \in Card : status[d] = "NONE" <=> status'[d] = "NONE"
  BY <1>1, <1>2
<1>4. overtaken' \subseteq {v \in Worker : pc[v] # "free"} \ {w}
  BY <1>1, RivalsWork DEF TypeOK
<1>5. \A r \in Reader : Provisionable(r) => reader'[r] \in {"PENDING", "ACTIVE"}
  BY <1>1 DEF Provisionable
<1>6. excused' \subseteq Student /\ reader' = reader
  BY <1>1 DEF TypeOK
<1>7. QED
  BY <1>1, <1>3, <1>4, <1>5, <1>6, FlowOfLeave DEF TypeOK

LEMMA FlowOfProvision ==
  ASSUME TypeOK, FlowHolds, NEW w \in Worker, Provision(w)
  PROVE  TypeOK' /\ FlowHolds'
<1>1. /\ reader' = [reader EXCEPT ![target[w]] = "ACTIVE"] /\ target[w] \in Reader
      /\ overtaken' = overtaken \ {w} /\ Leave(w)
      /\ UNCHANGED <<status, holder, admitted, excused, erased, reported>>
  BY DEF Provision, FlowHolds, Flow
<1>2. reader' \in [Reader -> {"NONE", "PENDING", "ACTIVE", "SUSPENDED", "REVOKED", "RETIRED"}]
  BY <1>1 DEF TypeOK
<1>3. \A r \in Reader : Provisionable(r) => reader'[r] \in {"PENDING", "ACTIVE"}
  BY <1>1 DEF Provisionable, TypeOK
<1>4. QED
  BY <1>1, <1>2, <1>3, FlowOfLeave DEF TypeOK

LEMMA FlowOfDeath ==
  ASSUME TypeOK, FlowHolds, NEW w \in Worker, Die(w)
  PROVE  TypeOK' /\ FlowHolds'
<1>1. /\ overtaken' = overtaken \ {w} /\ Leave(w)
      /\ UNCHANGED <<status, holder, reader, admitted, excused, erased, reported>>
  BY DEF Die
<1>2. \A r \in Reader : Provisionable(r) => reader'[r] \in {"PENDING", "ACTIVE"}
  BY <1>1 DEF Provisionable
<1>3. QED
  BY <1>1, <1>2, FlowOfLeave DEF TypeOK

-----------------------------------------------------------------------------
(* Changes of one statement *)

\* The requests at work when a change of one statement is made.
LEMMA FlowOfCards ==
  ASSUME TypeOK, FlowHolds, UNCHANGED <<requestVars, reader>>,
         status' \in [Card -> Status], holder' \in [Card -> Student \cup {Nobody}],
         admitted' \subseteq Student, excused' \cup erased' \subseteq Student,
         reported' = reported,
         \A c \in Card : holder'[c] = Nobody <=> status'[c] = "NONE",
         \A c \in Card : status[c] # "NONE" => status'[c] # "NONE",
         \A w \in Worker : \A c \in Rows(w) : status'[c] = "NONE",
         overtaken \subseteq overtaken', overtaken' \subseteq {v \in Worker : pc[v] # "free"}
  PROVE  TypeOK' /\ FlowHolds'
<1>1. UNCHANGED <<pc, route, entries, staged, failed, target, reader>>
  BY DEF requestVars
<1>2. TypeOK'
  BY <1>1 DEF TypeOK, Rows
<1>3. ASSUME NEW v \in Worker PROVE Flow(v)'
  <2>1. Stands(v) /\ Flow(v)
    BY <1>1 DEF Stands, FlowHolds
  <2>2. /\ target[v] \in Card /\ status[target[v]] # "NONE" => status'[target[v]] # "NONE"
        /\ target[v] \in Reader /\ Provisionable(target[v]) => Provisionable(target[v])'
    BY <1>1, <2>1 DEF Stands, Provisionable
  <2>3. QED
    BY <2>1, <2>2, FlowStands
<1>4. QED
  BY <1>2, <1>3 DEF FlowHolds

LEMMA FlowOfReaders ==
  ASSUME TypeOK, FlowHolds, NEW r \in Reader, NEW from,
         NEW to \in {"PENDING", "ACTIVE", "SUSPENDED", "REVOKED", "RETIRED"},
         ChangeReader(r, from, to)
  PROVE  TypeOK' /\ FlowHolds'
<1>1. /\ reader' = [reader EXCEPT ![r] = to]
      /\ overtaken' = overtaken \cup {w \in Worker : target[w] = r}
      /\ UNCHANGED <<status, holder, admitted, pc, route, entries, staged, failed, target,
                     excused, erased, reported>>
  BY DEF ChangeReader, requestVars
<1>2. \A w \in Worker : target[w] = r => pc[w] # "free"
  BY CardsAssumption DEF FlowHolds, Flow, Nobody
<1>3. TypeOK'
  <2>1. reader' \in [Reader -> {"NONE", "PENDING", "ACTIVE", "SUSPENDED", "REVOKED", "RETIRED"}]
    BY <1>1 DEF TypeOK
  <2>2. overtaken' \subseteq {w \in Worker : pc'[w] # "free"}
    BY <1>1, <1>2 DEF TypeOK
  <2>3. QED
    BY <1>1, <2>1, <2>2 DEF TypeOK, Rows
<1>4. ASSUME NEW v \in Worker PROVE Flow(v)'
  <2>1. Stands(v) /\ Flow(v)
    BY <1>1 DEF Stands, FlowHolds
  <2>2. target[v] \in Reader /\ Provisionable(target[v]) =>
          v \in overtaken' \/ Provisionable(target[v])'
    BY <1>1 DEF Provisionable, TypeOK
  <2>3. QED
    BY <1>1, <2>1, <2>2, FlowStands
<1>5. QED
  BY <1>3, <1>4 DEF FlowHolds

\* A change of one card, of the status its row has.
LEMMA FlowOfChange ==
  ASSUME TypeOK, FlowHolds, NEW c \in Card, NEW from \in SUBSET (Status \ {"NONE"}),
         NEW to \in Status \ {"NONE"}, ChangeCard(c, from, to)
  PROVE  TypeOK' /\ FlowHolds'
<1>1. /\ status' = [status EXCEPT ![c] = to] /\ status[c] # "NONE"
      /\ UNCHANGED <<holder, reader, admitted, requestVars, overtaken, excused, erased,
                     reported>>
  BY DEF ChangeCard, historyVars
<1>2. status' \in [Card -> Status]
  BY <1>1 DEF TypeOK
<1>3. \A d \in Card : status'[d] = IF d = c THEN to ELSE status[d]
  BY <1>1 DEF TypeOK
<1>4. \A w \in Worker : \A d \in Rows(w) : status'[d] = "NONE"
  BY <1>1, <1>3, RowsTyped DEF TypeOK
<1>5. QED
  BY <1>1, <1>2, <1>3, <1>4, FlowOfCards DEF TypeOK

\* A replacement moves the student from the old card to the new one.
LEMMA ReplaceFacts ==
  ASSUME TypeOK, NEW old \in Card, NEW new \in Card, Replace(old, new)
  PROVE  /\ new # old
         /\ \A c \in Card : status'[c] = IF c = new THEN "ACTIVE"
                                        ELSE IF c = old THEN "REPLACED" ELSE status[c]
         /\ \A c \in Card : holder'[c] = IF c = new THEN holder[old] ELSE holder[c]
<1>1. new # old /\ status \in [Card -> Status] /\ holder \in [Card -> Student \cup {Nobody}]
  BY DEF Replace, TypeOK
<1>2. status' = [status EXCEPT ![old] = "REPLACED", ![new] = "ACTIVE"]
  BY DEF Replace
<1>3. holder' = [holder EXCEPT ![new] = holder[old]]
  BY DEF Replace
<1>4. \A c \in Card : status'[c] = IF c = new THEN "ACTIVE"
                                   ELSE IF c = old THEN "REPLACED" ELSE status[c]
  BY <1>1, <1>2
<1>5. \A c \in Card : holder'[c] = IF c = new THEN holder[old] ELSE holder[c]
  BY <1>1, <1>3
<1>6. QED
  BY <1>1, <1>4, <1>5

LEMMA FlowOfReplace ==
  ASSUME TypeOK, FlowHolds, NEW old \in Card, NEW new \in Card, Replace(old, new)
  PROVE  TypeOK' /\ FlowHolds'
<1>1. /\ status[old] # "NONE" /\ status[new] = "NONE" /\ holder[old] \in Student
      /\ \A w \in Worker : new \notin Rows(w)
      /\ status' = [status EXCEPT ![old] = "REPLACED", ![new] = "ACTIVE"]
      /\ holder' = [holder EXCEPT ![new] = holder[old]]
      /\ excused' \in {excused, excused \cup {holder[old]}}
      /\ overtaken' = overtaken \cup Rivals(Nobody, {holder[old]})
      /\ UNCHANGED <<reader, admitted, requestVars, erased, reported>>
  BY DEF Replace, TypeOK
<1>2. status' \in [Card -> Status] /\ holder' \in [Card -> Student \cup {Nobody}]
  BY <1>1 DEF TypeOK, Status
<1>3. /\ new # old
      /\ \A c \in Card : status'[c] = IF c = new THEN "ACTIVE"
                                     ELSE IF c = old THEN "REPLACED" ELSE status[c]
      /\ \A c \in Card : holder'[c] = IF c = new THEN holder[old] ELSE holder[c]
  BY ReplaceFacts
<1>4. \A c \in Card : holder'[c] = Nobody <=> status'[c] = "NONE"
  BY <1>1, <1>3 DEF TypeOK
<1>5. \A w \in Worker : \A c \in Rows(w) : status'[c] = "NONE"
  BY <1>1, <1>3, RowsTyped DEF TypeOK
<1>6. overtaken' \subseteq {v \in Worker : pc[v] # "free"}
  BY <1>1, RivalsWork DEF TypeOK
<1>7. QED
  BY <1>1, <1>2, <1>3, <1>4, <1>5, <1>6, FlowOfCards DEF TypeOK

LEMMA FlowOfStudents ==
  ASSUME TypeOK, FlowHolds, NEW s \in Student, Erase(s) \/ Admit(s)
  PROVE  TypeOK' /\ FlowHolds'
<1>1. /\ status' = status \/ status' = [c \in Card |-> IF c \in Taken(s) THEN "REVOKED" ELSE status[c]]
      /\ admitted' \subseteq admitted \cup {s} /\ erased' \subseteq erased \cup {s}
      /\ overtaken' \in {overtaken, overtaken \cup Rivals(Nobody, {s})}
      /\ UNCHANGED <<holder, reader, requestVars, excused, reported>>
  BY DEF Erase, Admit
<1>2. \A c \in Taken(s) : c \in Card /\ status[c] # "NONE"
  BY CardsAssumption DEF Taken, Held, TypeOK, Nobody
<1>3. status' \in [Card -> Status]
  BY <1>1 DEF TypeOK, Status
<1>4. \A c \in Card : status[c] = "NONE" <=> status'[c] = "NONE"
  BY <1>1, <1>2
<1>5. overtaken' \subseteq {v \in Worker : pc[v] # "free"}
  BY <1>1, RivalsWork DEF TypeOK
<1>6. \A w \in Worker : \A c \in Rows(w) : status'[c] = "NONE"
  BY <1>4, RowsTyped DEF TypeOK
<1>7. QED
  BY <1>1, <1>3, <1>4, <1>5, <1>6, FlowOfCards DEF TypeOK

\* Every step keeps the types and where the requests are.
LEMMA FlowNext == TypeOK /\ FlowHolds /\ [Next]_vars => TypeOK' /\ FlowHolds'
<1> SUFFICES ASSUME TypeOK, FlowHolds, [Next]_vars PROVE TypeOK' /\ FlowHolds'
  OBVIOUS
<1>1. ASSUME UNCHANGED vars PROVE TypeOK' /\ FlowHolds'
  <2>1. TypeOK'
    BY <1>1 DEF vars, requestVars, historyVars, TypeOK, Rows
  <2>2. ASSUME NEW w \in Worker PROVE Flow(w)'
    BY <1>1, FlowStands
    DEF vars, requestVars, historyVars, FlowHolds, Stands, Provisionable
  <2>3. QED
    BY <2>1, <2>2 DEF FlowHolds
<1>2. ASSUME Change PROVE TypeOK' /\ FlowHolds'
  <2>1. {"PENDING"} \in SUBSET (Status \ {"NONE"}) /\ {"ACTIVE"} \in SUBSET (Status \ {"NONE"})
        /\ {"ACTIVE", "SUSPENDED", "REVOKED", "EXPIRED"} \subseteq Status \ {"NONE"}
    BY DEF Status
  <2>2. ASSUME NEW c \in Card, Activate(c) \/ Suspend(c) \/ RevokeCard(c) \/ Expire(c)
        PROVE  TypeOK' /\ FlowHolds'
    BY <2>1, <2>2, FlowOfChange DEF Activate, Suspend, RevokeCard, Expire
  <2>3. ASSUME NEW r \in Reader, Register(r) \/ Approve(r) \/ SuspendReader(r)
                                \/ RevokeReader(r) \/ Retire(r)
        PROVE  TypeOK' /\ FlowHolds'
    BY <2>3, FlowOfReaders DEF Register, Approve, SuspendReader, RevokeReader, Retire
  <2>4. QED
    BY <1>2, <2>2, <2>3, FlowOfReplace, FlowOfStudents DEF Change
<1>3. ASSUME NEW w \in Worker, Receive(w) \/ Serve(w) \/ Die(w)
      PROVE  TypeOK' /\ FlowHolds'
  BY <1>3, FlowOfEnrolment, FlowOfRead, FlowOfLook, FlowOfInsert, FlowOfDeadlock,
     FlowOfFinish, FlowOfReactivate, FlowOfProvision, FlowOfDeath
  DEF Receive, Serve
<1>4. QED
  BY <1>1, <1>2, <1>3 DEF Next

-----------------------------------------------------------------------------
(* Who has a live card *)

\* A step that gives no card to a student without an excuse, and takes no
\* request that nobody overtook past the check.
LEMMA CardsStand ==
  ASSUME CardsHold, excused \subseteq excused', admitted' \cap erased' = {},
         erased' \subseteq Student,
         \A s \in Student : s \in excused' \/ Held(s, Live)' \subseteq Held(s, Live),
         \A s \in Student : s \in erased' => s \in erased \/ Held(s, Live)' = {},
         \A w \in Worker \ overtaken' : \A s \in Student : Pending(w, s)' =>
           w \notin overtaken /\ Pending(w, s) /\ (s \in erased' => s \in erased)
  PROVE  CardsHold'
<1>1. \A s \in Student \ excused' : \A c, d \in Held(s, Live)' : c = d
  BY DEF CardsHold
<1>2. \A w \in Worker \ overtaken' : \A s \in Student : Pending(w, s)' =>
        s \notin erased' /\ (Held(s, Live)' = {} \/ s \in excused')
  BY DEF CardsHold
<1>3. \A s \in erased' : Held(s, Live)' = {} \/ s \in excused'
  BY DEF CardsHold, ErasedHasNoCard
<1>4. QED
  BY <1>1, <1>2, <1>3 DEF CardsHold, ErasedHasNoCard

\* Requests that hold no more than they did, while the cards are let alone.
LEMMA CardsOfRequests ==
  ASSUME TypeOK, CardsHold, UNCHANGED <<status, holder, admitted, excused, erased>>,
         \A w \in Worker : w \in overtaken /\ w \notin overtaken' => pc'[w] = "free" /\ staged'[w] = {},
         \A w \in Worker, s \in Student : Pending(w, s)' => Pending(w, s)
  PROVE  CardsHold'
<1>1. \A s \in Student : Held(s, Live)' = Held(s, Live)
  BY DEF Held
<1>2. \A w \in Worker \ overtaken' : \A s \in Student : Pending(w, s)' =>
        w \notin overtaken /\ Pending(w, s)
  BY DEF Pending
<1>3. admitted' \cap erased' = {} /\ erased' \subseteq Student
  BY DEF CardsHold, TypeOK
<1>4. QED
  BY <1>1, <1>2, <1>3, CardsStand

LEMMA CardsOfEnrolment ==
  ASSUME TypeOK, FlowHolds, CardsHold, NEW w \in Worker, Receive(w)
  PROVE  CardsHold'
<1>1. PICK step \in {"look", "reactivate", "provision"} :
        /\ pc' = [pc EXCEPT ![w] = step] /\ pc[w] = "free"
        /\ entries' = entries \/ \E list : entries' = [entries EXCEPT ![w] = list]
        /\ UNCHANGED <<status, holder, admitted, staged, overtaken, excused, erased>>
  BY DEF Receive, Enroll, ReadCard, ReadReader, GoTo, historyVars
<1>2. \A v \in Worker, s \in Student : Pending(v, s)' => Pending(v, s)
  BY <1>1 DEF Pending, TypeOK
<1>3. QED
  BY <1>1, <1>2, CardsOfRequests

\* A request gets past the check for an admitted student without a live card.
LEMMA CardsOfLook ==
  ASSUME TypeOK, FlowHolds, CardsHold, NEW w \in Worker, Look(w)
  PROVE  CardsHold'
<1>1. UNCHANGED <<status, holder, admitted, staged, overtaken, excused, erased>>
      /\ pc[w] = "look"
  BY DEF Look, historyVars
<1>2. \A s \in Student : Held(s, Live)' = Held(s, Live)
  BY <1>1 DEF Held
<1>3. CASE Refused(w, Head(entries[w]))
  <2>1. pc' = pc /\ \A v \in Worker : v # w => entries'[v] = entries[v]
    BY <1>3 DEF Look, TypeOK
  <2>2. \A v \in Worker, s \in Student : Pending(v, s)' => Pending(v, s)
    BY <1>1, <2>1 DEF Pending
  <2>3. QED
    BY <1>1, <2>2, CardsOfRequests
<1>4. CASE ~Refused(w, Head(entries[w]))
  <2>1. pc' = [pc EXCEPT ![w] = "insert"] /\ entries' = entries
    BY <1>4 DEF Look, GoTo
  <2>2. \A v \in Worker, s \in Student : Pending(v, s)' =>
          Pending(v, s) \/ (v = w /\ s = Head(entries[w]).student)
    BY <1>1, <2>1 DEF Pending, TypeOK
  <2>3. \A s \in Student : s = Head(entries[w]).student =>
          s \notin erased /\ Held(s, Live) = {}
    BY <1>4 DEF Refused, CardsHold
  <2>4. \A v \in Worker \ overtaken' : \A s \in Student : Pending(v, s)' =>
          s \notin erased' /\ (Held(s, Live)' = {} \/ s \in excused')
    BY <1>1, <1>2, <2>2, <2>3 DEF CardsHold
  <2>5. \A s \in erased' : Held(s, Live)' = {} \/ s \in excused'
    BY <1>1, <1>2 DEF CardsHold, ErasedHasNoCard, TypeOK
  <2>6. QED
    BY <1>1, <1>2, <2>4, <2>5 DEF CardsHold, ErasedHasNoCard
<1>5. QED
  BY <1>3, <1>4

LEMMA CardsOfInsert ==
  ASSUME TypeOK, FlowHolds, CardsHold, NEW w \in Worker, Insert(w) \/ BreakDeadlock(w)
  PROVE  CardsHold'
<1>1. /\ pc' = [pc EXCEPT ![w] = "look"] /\ pc[w] = "insert"
      /\ UNCHANGED <<status, holder, admitted, overtaken, excused, erased>>
  BY DEF Insert, BreakDeadlock, Blockers, GoTo, historyVars
<1>2. \A v \in Worker : /\ v # w => entries'[v] = entries[v] /\ staged'[v] = staged[v]
                        /\ staged'[v] \subseteq staged[v] \cup {Head(entries[v])}
                        /\ v = w => staged'[v] \subseteq staged[v] \cup {Head(entries[v])}
  BY DEF Insert, BreakDeadlock, TypeOK
<1>3. \A v \in Worker, s \in Student : Pending(v, s)' => Pending(v, s)
  BY <1>1, <1>2 DEF Pending, TypeOK
<1>4. QED
  BY <1>1, <1>3, CardsOfRequests

\* The students of the rows that are kept have no other live card, unless the
\* request was overtaken; whoever checked the same students by now is overtaken.
LEMMA CardsOfFinish ==
  ASSUME TypeOK, FlowHolds, CardsHold, NEW w \in Worker, Finish(w)
  PROVE  CardsHold'
<1>1. /\ overtaken' = (overtaken \cup Rivals(w, Takers(w))) \ {w}
      /\ excused' = IF w \in overtaken THEN excused \cup Takers(w) ELSE excused
      /\ Leave(w) /\ UNCHANGED <<reader, admitted, erased>>
  BY FinishFacts
<1>2. \A e \in Kept(w) : /\ e \in staged[w] /\ e.card \in Card /\ e.student \in Student
                         /\ status[e.card] = "NONE" /\ holder'[e.card] = e.student
  BY FinishFacts
<1>3. \A s \in Student : \A c \in Held(s, Live)' :
        c \in Held(s, Live) \/ \E e \in Kept(w) : e.card = c /\ e.student = s
  BY <1>2, FinishFacts DEF Held
<1>4. \A s \in Student : s \notin Takers(w) => Held(s, Live)' \subseteq Held(s, Live)
  BY <1>3 DEF Takers
<1>5. \A s \in Takers(w) : s \in Student /\ Pending(w, s)
  BY <1>2 DEF Takers, Pending
<1>6. \A s \in Takers(w) : s \in excused' \/ (s \notin erased /\ Held(s, Live) = {})
  BY <1>1, <1>5 DEF CardsHold
<1>7. \A s \in Student \ excused' : \A c, d \in Held(s, Live)' : c = d
  <2>1. TAKE s \in Student \ excused'
  <2>2. s \notin excused
    BY <1>1
  <2>3. CASE s \notin Takers(w)
    BY <1>4, <2>2, <2>3 DEF CardsHold
  <2>4. CASE s \in Takers(w)
    <3>1. \A c \in Held(s, Live)' : \E e \in staged[w] : e.card = c /\ e.student = s
      BY <1>2, <1>3, <1>6, <2>4
    <3>2. \A e, f \in staged[w] : e.student = f.student => e = f
      BY DEF FlowHolds, Flow
    <3>3. QED
      BY <3>1, <3>2
  <2>5. QED
    BY <2>3, <2>4
<1>8. \A v \in Worker \ overtaken' : \A s \in Student : Pending(v, s)' =>
        s \notin erased' /\ (Held(s, Live)' = {} \/ s \in excused')
  <2>1. TAKE v \in Worker \ overtaken'
  <2>2. TAKE s \in Student
  <2>3. HAVE Pending(v, s)'
  <2>4. v # w
    BY <1>1, <2>3, LeaveType DEF Pending
  <2>5. Pending(v, s) /\ v \notin overtaken
    BY <1>1, <2>3, <2>4, LeaveType DEF Pending
  <2>6. s \notin Takers(w)
    BY <1>1, <2>4, <2>5, RivalsWork
  <2>7. QED
    BY <1>1, <1>4, <2>5, <2>6 DEF CardsHold
<1>9. \A s \in erased' : Held(s, Live)' = {} \/ s \in excused'
  BY <1>1, <1>4, <1>6 DEF CardsHold, ErasedHasNoCard, TypeOK
<1>10. admitted' \cap erased' = {}
  BY <1>1 DEF CardsHold
<1>11. QED
  BY <1>7, <1>8, <1>9, <1>10 DEF CardsHold, ErasedHasNoCard

LEMMA CardsOfReactivate ==
  ASSUME TypeOK, FlowHolds, CardsHold, NEW w \in Worker, Reactivate(w)
  PROVE  CardsHold'
<1>1. PICK c \in Card :
        /\ c = target[w] /\ holder[c] \in Student
        /\ \A d \in Card : d # c => status'[d] = status[d]
        /\ status'[c] = Reactivated(c) /\ status' \in [Card -> Status]
        /\ status'[c] # "NONE"
        /\ excused' = IF status'[c] = "ACTIVE" THEN excused \cup {holder[c]} ELSE excused
        /\ overtaken \ {w} \subseteq overtaken'
        /\ overtaken' \subseteq (overtaken \cup Rivals(w, {holder[c]})) \ {w}
        /\ Leave(w) /\ pc[w] = "reactivate"
        /\ UNCHANGED <<holder, reader, admitted, erased, reported>>
  BY ReactivateFacts
<1>2. status'[c] = "ACTIVE" \/ status'[c] = status[c]
  BY <1>1 DEF Reactivated
<1>3. \A s \in Student : s \in excused' \/ Held(s, Live)' \subseteq Held(s, Live)
  <2>1. TAKE s \in Student
  <2>2. CASE status'[c] = status[c]
    BY <1>1, <2>2 DEF Held
  <2>3. CASE status'[c] = "ACTIVE"
    <3>1. s = holder[c] => s \in excused'
      BY <1>1, <2>3
    <3>2. s # holder[c] => Held(s, Live)' \subseteq Held(s, Live)
      BY <1>1 DEF Held
    <3>3. QED
      BY <3>1, <3>2
  <2>4. QED
    BY <1>2, <2>2, <2>3
<1>4. \A v \in Worker \ overtaken' : \A s \in Student : Pending(v, s)' =>
        v \notin overtaken /\ Pending(v, s)
  BY <1>1, LeaveType DEF Pending
<1>5. excused \subseteq excused' /\ erased' \subseteq Student /\ erased' = erased
      /\ admitted' \cap erased' = {}
  BY <1>1 DEF TypeOK, CardsHold
<1>6. QED
  BY <1>3, <1>4, <1>5, CardsStand

LEMMA CardsOfLeave ==
  ASSUME TypeOK, FlowHolds, CardsHold, NEW w \in Worker, Provision(w) \/ Die(w)
  PROVE  CardsHold'
<1>1. /\ overtaken' = overtaken \ {w} /\ Leave(w)
      /\ UNCHANGED <<status, holder, admitted, excused, erased>>
  BY DEF Provision, Die
<1>2. \A v \in Worker : v \in overtaken /\ v \notin overtaken' => pc'[v] = "free" /\ staged'[v] = {}
  BY <1>1, LeaveType
<1>3. \A v \in Worker, s \in Student : Pending(v, s)' => Pending(v, s)
  BY <1>1, LeaveType DEF Pending
<1>4. QED
  BY <1>1, <1>2, <1>3, CardsOfRequests

\* A change of one card leaves nobody with a live card who had none.
LEMMA CardsOfChange ==
  ASSUME TypeOK, CardsHold, NEW c \in Card,
         \/ ChangeCard(c, {"PENDING"}, "ACTIVE")
         \/ \E from, to : ChangeCard(c, from, to) /\ to \notin Live
  PROVE  CardsHold'
<1>1. UNCHANGED <<holder, admitted, pc, entries, staged, overtaken, excused, erased>>
  BY DEF ChangeCard, requestVars, historyVars
<1>2. \A d \in Card : status'[d] \in Live => status[d] \in Live
  BY DEF ChangeCard, TypeOK, Live
<1>3. \A s \in Student : Held(s, Live)' \subseteq Held(s, Live)
  BY <1>1, <1>2 DEF Held
<1>4. \A v \in Worker, s \in Student : Pending(v, s)' => Pending(v, s)
  BY <1>1 DEF Pending
<1>5. excused \subseteq excused' /\ erased' \subseteq Student /\ erased' = erased
      /\ admitted' \cap erased' = {}
  BY <1>1 DEF TypeOK, CardsHold
<1>6. QED
  BY <1>1, <1>3, <1>4, <1>5, CardsStand

LEMMA CardsOfReaders ==
  ASSUME TypeOK, FlowHolds, CardsHold, NEW r \in Reader, NEW from, NEW to,
         ChangeReader(r, from, to)
  PROVE  CardsHold'
<1>1. UNCHANGED <<status, holder, admitted, pc, entries, staged, excused, erased>>
      /\ overtaken \subseteq overtaken'
  BY DEF ChangeReader, requestVars
<1>2. \A v \in Worker, s \in Student : Pending(v, s)' => Pending(v, s)
  BY <1>1 DEF Pending
<1>3. QED
  BY <1>1, <1>2, CardsOfRequests

\* The new card takes the place of the old one if that was live.
LEMMA CardsOfReplace ==
  ASSUME TypeOK, FlowHolds, CardsHold, NEW old \in Card, NEW new \in Card, Replace(old, new)
  PROVE  CardsHold'
<1>0. PICK s0 \in Student : s0 = holder[old]
  BY DEF Replace, TypeOK
<1>1. /\ status[old] # "NONE" /\ status[new] = "NONE"
      /\ excused' = IF status[old] \in Live THEN excused ELSE excused \cup {s0}
      /\ overtaken' = overtaken \cup Rivals(Nobody, {s0})
      /\ UNCHANGED <<admitted, pc, entries, staged, erased>>
  BY <1>0 DEF Replace, requestVars
<1>2. /\ new # old
      /\ \A c \in Card : status'[c] = IF c = new THEN "ACTIVE"
                                     ELSE IF c = old THEN "REPLACED" ELSE status[c]
      /\ \A c \in Card : holder'[c] = IF c = new THEN s0 ELSE holder[c]
  BY <1>0, ReplaceFacts
<1>3. \A s \in Student : s # s0 => Held(s, Live)' \subseteq Held(s, Live)
  BY <1>2 DEF Held, Live
<1>4. Held(s0, Live)' \subseteq (Held(s0, Live) \ {old}) \cup {new}
  BY <1>0, <1>1, <1>2 DEF Held, Live
<1>5. s0 \in excused' \/ old \in Held(s0, Live)
  BY <1>0, <1>1 DEF Held
<1>6. s0 \in excused' \/ Held(s0, Live)' \subseteq {new}
  BY <1>1, <1>4, <1>5 DEF CardsHold
<1>7. \A s \in Student \ excused' : \A c, d \in Held(s, Live)' : c = d
  <2>1. TAKE s \in Student \ excused'
  <2>2. s \notin excused
    BY <1>1
  <2>3. s # s0 => \A c, d \in Held(s, Live)' : c = d
    BY <1>3, <2>2 DEF CardsHold
  <2>4. s = s0 => \A c, d \in Held(s, Live)' : c = d
    BY <1>6
  <2>5. QED
    BY <2>3, <2>4
<1>8. \A v \in Worker \ overtaken' : \A s \in Student : Pending(v, s)' =>
        s # s0 /\ v \notin overtaken /\ Pending(v, s)
  <2>1. \A v \in Worker : v # Nobody
    BY CardsAssumption DEF Nobody
  <2>2. \A v \in Worker : Pending(v, s0) => v \in overtaken'
    BY <1>1, <2>1, RivalsWork
  <2>3. \A v \in Worker, s \in Student : Pending(v, s)' => Pending(v, s)
    BY <1>1 DEF Pending
  <2>4. QED
    BY <1>1, <2>2, <2>3
<1>9. \A v \in Worker \ overtaken' : \A s \in Student : Pending(v, s)' =>
        s \notin erased' /\ (Held(s, Live)' = {} \/ s \in excused')
  BY <1>1, <1>3, <1>8 DEF CardsHold
<1>10. \A s \in erased' : Held(s, Live)' = {} \/ s \in excused'
  <2>1. s0 \in erased => s0 \in excused'
    BY <1>1, <1>5 DEF CardsHold, ErasedHasNoCard
  <2>2. QED
    BY <1>1, <1>3, <2>1 DEF CardsHold, ErasedHasNoCard, TypeOK
<1>11. admitted' \cap erased' = {}
  BY <1>1 DEF CardsHold
<1>12. QED
  BY <1>7, <1>9, <1>10, <1>11 DEF CardsHold, ErasedHasNoCard

LEMMA CardsOfStudents ==
  ASSUME TypeOK, FlowHolds, CardsHold, NEW s \in Student, Erase(s) \/ Admit(s)
  PROVE  CardsHold'
<1>1. CASE Erase(s)
  <2>1. /\ status' = [c \in Card |-> IF c \in Taken(s) THEN "REVOKED" ELSE status[c]]
        /\ admitted' = admitted \ {s} /\ erased' = erased \cup {s}
        /\ overtaken' = overtaken \cup Rivals(Nobody, {s})
        /\ UNCHANGED <<holder, pc, entries, staged, excused>>
    BY <1>1 DEF Erase, requestVars
  <2>2. \A c \in Card : status'[c] \in Live => status[c] \in Live /\ holder[c] # s
    BY <2>1 DEF Taken, Held, Live, TypeOK
  <2>3. Held(s, Live)' = {} /\ \A t \in Student : Held(t, Live)' \subseteq Held(t, Live)
    BY <2>1, <2>2 DEF Held
  <2>4. \A v \in Worker : Pending(v, s) => v \in overtaken'
    <3>1. \A v \in Worker : v # Nobody
      BY CardsAssumption DEF Nobody
    <3>2. QED
      BY <2>1, <3>1, RivalsWork
  <2>5. \A v \in Worker, t \in Student : Pending(v, t)' => Pending(v, t)
    BY <2>1 DEF Pending
  <2>6. \A v \in Worker \ overtaken' : \A t \in Student : Pending(v, t)' =>
          v \notin overtaken /\ Pending(v, t) /\ (t \in erased' => t \in erased)
    BY <2>1, <2>4, <2>5
  <2>7. admitted' \cap erased' = {} /\ erased' \subseteq Student /\ excused \subseteq excused'
    BY <2>1 DEF TypeOK, CardsHold
  <2>8. QED
    BY <2>1, <2>3, <2>6, <2>7, CardsStand
<1>2. CASE Admit(s)
  <2>1. /\ admitted' \subseteq admitted \cup {s} /\ erased' = erased \ {s}
        /\ UNCHANGED <<status, holder, pc, entries, staged, excused, overtaken>>
    BY <1>2 DEF Admit, requestVars
  <2>2. \A t \in Student : Held(t, Live)' = Held(t, Live)
    BY <2>1 DEF Held
  <2>3. \A v \in Worker, t \in Student : Pending(v, t)' => Pending(v, t)
    BY <2>1 DEF Pending
  <2>4. admitted' \cap erased' = {} /\ erased' \subseteq Student
    BY <2>1 DEF TypeOK, CardsHold
  <2>5. QED
    BY <2>1, <2>2, <2>3, <2>4, CardsStand
<1>3. QED
  BY <1>1, <1>2

LEMMA CardsNext == CardsInv /\ [Next]_vars => CardsInv'
<1> SUFFICES ASSUME TypeOK, FlowHolds, CardsHold, [Next]_vars PROVE CardsInv'
  BY DEF CardsInv
<1>1. TypeOK' /\ FlowHolds'
  BY FlowNext
<1>2. ASSUME UNCHANGED vars PROVE CardsHold'
  <2>1. UNCHANGED <<status, holder, admitted, pc, entries, staged, overtaken, excused, erased>>
    BY <1>2 DEF vars, requestVars, historyVars
  <2>2. \A v \in Worker, s \in Student : Pending(v, s)' => Pending(v, s)
    BY <2>1 DEF Pending
  <2>3. QED
    BY <2>1, <2>2, CardsOfRequests
<1>3. ASSUME Change PROVE CardsHold'
  <2>1. ASSUME NEW c \in Card, Activate(c) \/ Suspend(c) \/ RevokeCard(c) \/ Expire(c)
        PROVE  CardsHold'
    BY <2>1, CardsOfChange DEF Activate, Suspend, RevokeCard, Expire, Live
  <2>2. ASSUME NEW r \in Reader, Register(r) \/ Approve(r) \/ SuspendReader(r)
                                \/ RevokeReader(r) \/ Retire(r)
        PROVE  CardsHold'
    BY <2>2, CardsOfReaders DEF Register, Approve, SuspendReader, RevokeReader, Retire
  <2>3. QED
    BY <1>3, <2>1, <2>2, CardsOfReplace, CardsOfStudents DEF Change
<1>4. ASSUME NEW w \in Worker, Receive(w) \/ Serve(w) \/ Die(w) PROVE CardsHold'
  BY <1>4, CardsOfEnrolment, CardsOfLook, CardsOfInsert, CardsOfFinish, CardsOfReactivate,
     CardsOfLeave
  DEF Serve
<1>5. QED
  BY <1>1, <1>2, <1>3, <1>4 DEF Next, CardsInv

LEMMA CardsInit == Init => CardsInv
<1> SUFFICES ASSUME Init PROVE CardsInv
  OBVIOUS
<1>1. \A w \in Worker : Rows(w) = {}
  BY DEF Init, Rows
<1>2. "nobody" \notin Student
  BY CardsAssumption
<1>3. TypeOK
  <2>1. \A w \in Worker : << >> \in Seq(Entry) /\ {} \in SUBSET Entry
    OBVIOUS
  <2>2. QED
    BY <1>1, <2>1 DEF Init, TypeOK, Status, Route
<1>4. FlowHolds
  BY DEF Init, FlowHolds, Flow
<1>5. CardsHold
  <2>1. \A s \in Student : Held(s, Live) = {}
    BY <1>2 DEF Init, Held, Live
  <2>2. QED
    BY <2>1 DEF Init, CardsHold, Pending, ErasedHasNoCard
<1>6. QED
  BY <1>3, <1>4, <1>5 DEF CardsInv

LEMMA CardsInvariant == Spec => []CardsInv
<1>1. QED
  BY CardsInit, CardsNext, PTL DEF Spec

-----------------------------------------------------------------------------
(* The theorems *)

\* The values of the state are of their types; a digest is held by one request.
THEOREM TypeCorrect == Spec => []TypeOK
<1>1. CardsInv => TypeOK
  BY DEF CardsInv
<1>2. QED
  BY <1>1, CardsInvariant, PTL

\* A student whose cards were not given beside the check has one live card.
THEOREM OneLiveCardCorrect == Spec => []OneLiveCard
<1>1. ASSUME CardsInv PROVE OneLiveCard
  <2>1. SUFFICES ASSUME NEW s \in Student, s \notin excused
                 PROVE  Cardinality(Held(s, Live)) <= 1
    BY DEF OneLiveCard
  <2>2. \A c, d \in Held(s, Live) : c = d
    BY <1>1, <2>1 DEF CardsInv, CardsHold
  <2>3. CASE Held(s, Live) = {}
    BY <2>3, FS_EmptySet
  <2>4. CASE Held(s, Live) # {}
    <3>1. PICK c \in Held(s, Live) : TRUE
      BY <2>4
    <3>2. Held(s, Live) = {c}
      BY <2>2, <3>1
    <3>3. Cardinality({c}) = 1
      BY FS_Singleton
    <3>4. QED
      BY <3>2, <3>3
  <2>5. QED
    BY <2>3, <2>4
<1>2. QED
  BY <1>1, CardsInvariant, PTL

\* A student who was anonymized has no live card, with the exceptions named.
THEOREM ErasedHasNoCardCorrect == Spec => []ErasedHasNoCard
<1>1. CardsInv => ErasedHasNoCard
  BY DEF CardsInv, CardsHold
<1>2. QED
  BY <1>1, CardsInvariant, PTL

\* No step takes a card out of the statuses that end it.
LEMMA CardEnds ==
  ASSUME CardsInv, [Next]_vars, NEW c \in Card, status[c] \in Ended
  PROVE  status'[c] \in Ended
<1> USE DEF CardsInv
<1>1. ASSUME NEW w \in Worker, Finish(w) PROVE status'[c] \in Ended
  <2>1. \A e \in Kept(w) : e.card # c
    BY <1>1, FinishFacts DEF Ended
  <2>2. QED
    BY <1>1, <2>1, FinishFacts
<1>2. ASSUME NEW w \in Worker, Reactivate(w) PROVE status'[c] \in Ended
  <2>1. PICK d \in Card : /\ \A x \in Card : x # d => status'[x] = status[x]
                          /\ status'[d] = Reactivated(d)
    BY <1>2, ReactivateFacts
  <2>2. QED
    BY <2>1 DEF Reactivated, Ended
<1>3. ASSUME NEW d \in Card, Activate(d) \/ Suspend(d) \/ RevokeCard(d) \/ Expire(d)
      PROVE  status'[c] \in Ended
  BY <1>3 DEF Activate, Suspend, RevokeCard, Expire, ChangeCard, Ended, TypeOK
<1>4. ASSUME NEW old \in Card, NEW new \in Card, Replace(old, new)
      PROVE  status'[c] \in Ended
  <2>1. status[new] = "NONE"
    BY <1>4 DEF Replace
  <2>2. QED
    BY <1>4, <2>1, ReplaceFacts DEF Ended
<1>5. ASSUME NEW s \in Student, Erase(s) \/ Admit(s) PROVE status'[c] \in Ended
  BY <1>5 DEF Erase, Admit, Ended
<1>6. ASSUME NEW r \in Reader, NEW from, NEW to, ChangeReader(r, from, to)
      PROVE  status'[c] \in Ended
  BY <1>6 DEF ChangeReader
<1>7. ASSUME NEW w \in Worker, Receive(w) \/ Look(w) \/ Insert(w) \/ BreakDeadlock(w)
                               \/ Provision(w) \/ Die(w)
      PROVE  status'[c] \in Ended
  BY <1>7 DEF Receive, Enroll, ReadCard, ReadReader, Look, Insert, BreakDeadlock, Provision, Die
<1>8. UNCHANGED vars => status'[c] \in Ended
  BY DEF vars
<1>9. ASSUME Change PROVE status'[c] \in Ended
  BY <1>3, <1>4, <1>5, <1>6, <1>9
  DEF Change, Register, Approve, SuspendReader, RevokeReader, Retire
<1>10. QED
  BY <1>1, <1>2, <1>7, <1>8, <1>9 DEF Next, Serve

\* A reader out of service comes back by a provisioning that had read it before.
LEMMA ReaderReturns ==
  ASSUME CardsInv, [Next]_vars, NEW r \in Reader,
         reader[r] \in {"SUSPENDED", "REVOKED", "RETIRED"}, reader'[r] = "ACTIVE"
  PROVE  \E w \in overtaken : target[w] = r /\ pc[w] = "provision"
<1> USE DEF CardsInv
<1>1. ASSUME NEW w \in Worker, Provision(w)
      PROVE  w \in overtaken /\ target[w] = r /\ pc[w] = "provision"
  <2>1. pc[w] = "provision" /\ reader' = [reader EXCEPT ![target[w]] = "ACTIVE"]
    BY <1>1 DEF Provision
  <2>2. target[w] = r
    BY <2>1 DEF TypeOK
  <2>3. w \in overtaken
    BY <2>1, <2>2 DEF FlowHolds, Flow, Provisionable
  <2>4. QED
    BY <2>1, <2>2, <2>3
<1>2. ASSUME NEW q \in Reader, NEW from, NEW to, ChangeReader(q, from, to),
             to # "ACTIVE" \/ reader[q] = "PENDING"
      PROVE  FALSE
  <2>1. /\ reader' = [reader EXCEPT ![q] = to] /\ reader \in [Reader -> {"NONE", "PENDING",
           "ACTIVE", "SUSPENDED", "REVOKED", "RETIRED"}]
    BY <1>2 DEF ChangeReader, TypeOK
  <2>2. QED
    BY <1>2, <2>1
<1>3. ASSUME NEW q \in Reader, Register(q) \/ Approve(q) \/ SuspendReader(q)
                               \/ RevokeReader(q) \/ Retire(q)
      PROVE  FALSE
  <2>1. Approve(q) => reader[q] = "PENDING"
    BY DEF Approve, ChangeReader
  <2>2. QED
    BY <1>2, <1>3, <2>1 DEF Register, Approve, SuspendReader, RevokeReader, Retire
<1>4. reader' # reader
  OBVIOUS
<1>5. ASSUME Change PROVE FALSE
  BY <1>3, <1>4, <1>5
  DEF Change, Activate, Suspend, RevokeCard, Expire, ChangeCard, Replace, Erase, Admit
<1>6. ASSUME NEW w \in Worker, Receive(w) \/ Look(w) \/ Insert(w) \/ BreakDeadlock(w)
                               \/ Finish(w) \/ Reactivate(w) \/ Die(w)
      PROVE  FALSE
  BY <1>4, <1>6
  DEF Receive, Enroll, ReadCard, ReadReader, Look, Insert, BreakDeadlock, Finish, Reactivate, Die
<1>7. ~UNCHANGED vars
  BY <1>4 DEF vars
<1>8. QED
  BY <1>1, <1>5, <1>6, <1>7 DEF Next, Serve, TypeOK

\* What has ended stays ended, whatever requests overlap.
THEOREM EndedStaysEndedCorrect == Spec => EndedStaysEnded
<1> DEFINE Stays ==
      /\ \A c \in Card : status[c] \in Ended => status'[c] \in Ended
      /\ \A r \in Reader :
           reader[r] \in {"SUSPENDED", "REVOKED", "RETIRED"} /\ reader'[r] = "ACTIVE"
           => \E w \in overtaken : target[w] = r /\ pc[w] = "provision"
<1>1. CardsInv /\ [Next]_vars => [Stays]_vars
  BY CardEnds, ReaderReturns
<1>2. QED
  BY <1>1, CardsInvariant, PTL DEF Spec, EndedStaysEnded

-----------------------------------------------------------------------------
(* Students, enrolments, QR cards and imports: the inductive invariant *)

\* What a transaction may write into a row.
Written(k, v) ==
  /\ k[1] = "student" => v \in {"ACTIVE", "INACTIVE"}
  /\ k[1] = "enrolment" => v \in [seat : Seat, active : BOOLEAN]
  /\ k[1] = "qr" => v \in [version : Nat, status : {"ACTIVE", "REVOKED"}]
  /\ k[1] = "job" => v \in {"PROCESSING", "COMPLETED", "FAILED"}

Task ==
  ({"student", "enrolment", "move", "update", "lookup"} \X Code \X Seat)
  \cup ({"qr", "end", "revoke"} \X Code \X (Seat \cup {NoSeat}))
  \cup ({"status"} \X Code \X {"ACTIVE", "INACTIVE"})
  \cup ({"find"} \X Code \X BOOLEAN)
  \cup ({"recheck"} \X Code \X [version : Nat, status : {"ACTIVE"}])
  \cup ({"job"} \X Job \X {"PROCESSING", "COMPLETED", "FAILED"})

ImportsTyped ==
  /\ DOMAIN db = Key
  /\ \A k \in Key : Written(k, db[k]) \/ db[k] = Blank(k) \/ (k[1] = "job" /\ db[k] = "VALIDATED")
  /\ DOMAIN draft = Request
  /\ \A r \in Request : /\ DOMAIN draft[r] \subseteq Key
                        /\ \A k \in DOMAIN draft[r] : Written(k, draft[r][k])
  /\ prog \in [Request -> Seq(Task)]
  /\ doing \in [Request -> Kind \cup Job]
  /\ file \in [Job -> [mode : Mode, rows : Seq(Row)]]
  /\ aged \cup twice \subseteq Job /\ torn \subseteq Key
  /\ imported \in [Job -> SUBSET Code]
  /\ anonymous \cup former \subseteq Code /\ gone \subseteq Job \X Code

JobRow(r) == <<"job", doing[r]>>
Has(r, k, v) == k \in DOMAIN draft[r] /\ draft[r][k] = v

\* A confirmation that has run no statement.
Staged(r) ==
  /\ DOMAIN draft[r] = {}
  /\ \/ prog[r] = << <<"job", doing[r], "FAILED">> >>
     \/ /\ Len(prog[r]) > 1
        /\ prog[r][1] = <<"job", doing[r], "PROCESSING">>
        /\ prog[r][Len(prog[r])] = <<"job", doing[r], "COMPLETED">>
        /\ \A i \in 2 .. Len(prog[r]) - 1 : prog[r][i][1] # "job"

\* One that has marked its job, but not as COMPLETED.
Underway(r) ==
  /\ Has(r, JobRow(r), "PROCESSING")
  /\ prog[r] # << >>
  /\ prog[r][Len(prog[r])] = <<"job", doing[r], "COMPLETED">>
  /\ \A i \in 1 .. Len(prog[r]) - 1 : prog[r][i][1] # "job"

\* One that has only to commit.
Settled(r) ==
  /\ prog[r] = << >>
  /\ \/ Has(r, JobRow(r), "COMPLETED")
     \/ Has(r, JobRow(r), "FAILED") /\ DOMAIN draft[r] = {JobRow(r)}

PhaseFits(r) ==
  /\ doing[r] = "idle" => prog[r] = << >> /\ DOMAIN draft[r] = {}
  /\ doing[r] \in Job => Staged(r) \/ Underway(r) \/ Settled(r)
  /\ doing[r] \notin Job => \A i \in DOMAIN prog[r] : prog[r][i][1] # "job"
  /\ \A k \in DOMAIN draft[r] : k[1] = "job" => k = JobRow(r)

\* A statement about c that program p comes to after its statement i.
Later(p, i, what, c) == \E k \in i + 1 .. Len(p) : p[k][1] = what /\ p[k][2] = c

\* A card that is taken back is replaced in the same transaction.
QrFits(r) ==
  doing[r] # "revocation" =>
    /\ \A i \in DOMAIN prog[r] :
         prog[r][i][1] \in {"revoke", "recheck"} => Later(prog[r], i, "qr", prog[r][i][2])
    /\ \A c \in Code :
         <<"qr", c>> \in DOMAIN draft[r] /\ draft[r][<<"qr", c>>].status # "ACTIVE"
         => Later(prog[r], 0, "qr", c)

\* A student the transaction has inserted.
OwnNew(r, c) == <<"student", c>> \in DOMAIN draft[r] /\ db[<<"student", c>>] = "NONE"
RowsOf(j) == {file[j].rows[n] : n \in DOMAIN file[j].rows}

\* A row of the file is looked up before anything else is done for it.
LookupFits(r, i) ==
  prog[r][i][1] = "lookup" =>
    /\ doing[r] \in Job /\ file[doing[r]].mode # "CREATE_ONLY"
    /\ <<"student", prog[r][i][2]>> \notin DOMAIN draft[r]
    /\ \A k \in DOMAIN prog[r] \ {i} :
         prog[r][k][1] # "job" => prog[r][k][2] # prog[r][i][2]

\* A student is inserted before the enrolment, and an enrolment follows.
EnrolmentFits(r, i) ==
  prog[r][i][1] = "enrolment" =>
    \/ OwnNew(r, prog[r][i][2])
    \/ \E k \in 1 .. i - 1 : prog[r][k][1] = "student" /\ prog[r][k][2] = prog[r][i][2]

StudentFits(r, i) ==
  prog[r][i][1] = "student" => Later(prog[r], i, "enrolment", prog[r][i][2])

UpdateFits(r, i) ==
  prog[r][i][1] \in {"update", "move", "status"} => Known(prog[r][i][2])

RowFits(r, i) ==
  doing[r] \in Job /\ prog[r][i][1] # "job" =>
    /\ prog[r][i][1] \in {"student", "enrolment", "qr", "update", "move", "lookup"}
    /\ prog[r][i][1] \notin {"update", "move"} =>
         <<prog[r][i][2], prog[r][i][3]>> \in RowsOf(doing[r])
    /\ \A row \in RowsOf(doing[r]) : row[1] = prog[r][i][2] => row[2] = prog[r][i][3]

TasksFit(r) ==
  \A i \in DOMAIN prog[r] :
    /\ LookupFits(r, i) /\ EnrolmentFits(r, i) /\ StudentFits(r, i)
    /\ UpdateFits(r, i) /\ RowFits(r, i)

DraftFits(r) ==
  \A c \in Code :
    /\ OwnNew(r, c) => <<"enrolment", c>> \in DOMAIN draft[r] \/ Later(prog[r], 0, "enrolment", c)
    /\ <<"enrolment", c>> \in DOMAIN draft[r] =>
         db[<<"enrolment", c>>].seat # NoSeat \/ OwnNew(r, c)

\* An import that may yet mark its job COMPLETED, or has.
Going(r) ==
  /\ doing[r] \in Job
  /\ \/ prog[r] = << >> /\ Has(r, JobRow(r), "COMPLETED")
     \/ prog[r] # << >> /\ prog[r][Len(prog[r])][3] = "COMPLETED"

Orphan(c) == Known(c) /\ db[<<"enrolment", c>>].seat = NoSeat
Passed(j, c) == Orphan(c) \/ <<j, c>> \in gone
Awaits(r, c, s) ==
  \E i \in DOMAIN prog[r] :
    prog[r][i] \in {<<"lookup", c, s>>, <<"enrolment", c, s>>, <<"move", c, s>>}
Placed(r, c, s) ==
  <<"enrolment", c>> \in DOMAIN draft[r] /\ draft[r][<<"enrolment", c>>].seat = s

\* No row of the file is left out but those of students who are gone.
RowsDone(r) ==
  Going(r) => \A row \in RowsOf(doing[r]) :
    Awaits(r, row[1], row[2]) \/ Placed(r, row[1], row[2]) \/ Passed(doing[r], row[1])

RequestFits(r) == PhaseFits(r) /\ QrFits(r) /\ TasksFit(r) /\ DraftFits(r) /\ RowsDone(r)

Disjoint == \A q, r \in Request : q # r => DOMAIN draft[q] \cap DOMAIN draft[r] = {}

FilesFit ==
  \A j \in Job :
    /\ Injective(file[j].rows, 1)
    /\ file[j].mode = "UPDATE_EXISTING" =>
         \A row \in RowsOf(j) : Known(row[1]) \/ <<j, row[1]>> \in gone

TableFits ==
  \A c \in Code :
    /\ db[<<"enrolment", c>>].seat # NoSeat => Known(c)
    /\ db[<<"enrolment", c>>].active => db[<<"enrolment", c>>].seat # NoSeat

\* A place is held once in the tables, and in what each transaction sees; no two
\* transactions have written it.
SeatsFit ==
  /\ \A c, e \in Code :
       c # e /\ db[<<"enrolment", c>>].seat # NoSeat =>
         db[<<"enrolment", c>>].seat # db[<<"enrolment", e>>].seat
  /\ \A r \in Request, c, e \in Code :
       c # e /\ SeatOf(r, c) # NoSeat => SeatOf(r, c) # SeatOf(r, e)
  /\ \A q, r \in Request, c, e \in Code :
       /\ q # r /\ c # e
       /\ <<"enrolment", c>> \in DOMAIN draft[q] /\ <<"enrolment", e>> \in DOMAIN draft[r]
       => draft[q][<<"enrolment", c>>].seat # draft[r][<<"enrolment", e>>].seat

Fresh(j) == db[<<"job", j>>] = "VALIDATED" /\ imported[j] = {}

JobsHold ==
  /\ \A j \in Job :
       /\ db[<<"job", j>>] \in {"NONE", "VALIDATED"} => imported[j] = {}
       /\ db[<<"job", j>>] = "PROCESSING" => <<"job", j>> \in torn
  /\ \A r \in Request : doing[r] \in Job =>
       /\ db[JobRow(r)] # "NONE"
       /\ Fresh(doing[r]) \/ doing[r] \in twice \/ JobRow(r) \in torn
       /\ \A q \in Request : q # r /\ doing[q] = doing[r] => doing[r] \in twice
  /\ FailedImportsNobody

ImportsInv ==
  /\ ImportsTyped /\ Disjoint /\ FilesFit /\ TableFits /\ JobsHold
  /\ \A r \in Request : RequestFits(r)
  /\ StudentIsEnrolled /\ SeatsFit

-----------------------------------------------------------------------------
(* What the statements do *)

\* The statement r runs is replaced by others; nothing is written.
Unfolds(r, more) ==
  /\ prog[r] # << >>
  /\ prog' = [prog EXCEPT ![r] = more \o Tail(@)]
  /\ UNCHANGED <<draft, doing>>

Expands(r, more) ==
  LET what == Stmt(r)[1]  c == On(r)  s == Stmt(r)[3] IN
    \/ /\ more = << >>
       /\ \/ what \in {"end", "revoke", "recheck", "find"}
          \/ what = "move" /\ SeatOf(r, c) = NoSeat
          \/ /\ what = "lookup" /\ Sees(r, <<"student", c>>) = "NONE"
             /\ file[doing[r]].mode # "UPSERT"
    \/ /\ what = "lookup" /\ Sees(r, <<"student", c>>) # "NONE"
       /\ more = << <<"update", c, s>>, <<"move", c, s>> >>
    \/ /\ what = "lookup" /\ Sees(r, <<"student", c>>) = "NONE"
       /\ more = << <<"student", c, s>>, <<"enrolment", c, s>>, <<"qr", c, s>> >>
    \/ /\ what = "revoke" /\ Sees(r, <<"qr", c>>).status = "ACTIVE"
       /\ more = << <<"recheck", c, Sees(r, <<"qr", c>>)>> >>
    \/ /\ what = "find"
       /\ \/ more = << <<"qr", c, NoSeat>> >>
          \/ more = << <<"revoke", c, NoSeat>>, <<"qr", c, NoSeat>> >>

Stores(r, k, v) ==
  LET what == Stmt(r)[1]  c == On(r)  s == Stmt(r)[3] IN
    \/ what = "student" /\ k = <<"student", c>> /\ v = "ACTIVE" /\ Sees(r, k) = "NONE"
    \/ /\ k = <<"enrolment", c>>
       /\ \/ what = "enrolment" /\ v = [seat |-> s, active |-> TRUE]
          \/ /\ what = "move" /\ SeatOf(r, c) # NoSeat
             /\ v = [seat |-> s, active |-> Sees(r, k).active]
       /\ SeatFree(r, s) /\ \A d \in Code \ {c} : SeatOf(r, d) # s
    \/ what = "update" /\ k = <<"student", c>> /\ v = Sees(r, k)
    \/ what = "status" /\ k = <<"student", c>> /\ v = s
    \/ /\ what = "end" /\ k = <<"enrolment", c>> /\ Sees(r, k).active
       /\ v = [seat |-> SeatOf(r, c), active |-> FALSE]
    \/ /\ what = "qr" /\ k = <<"qr", c>>
       /\ v = [version |-> Sees(r, k).version + 1, status |-> "ACTIVE"]
    \/ what = "recheck" /\ k = <<"qr", c>> /\ v = [version |-> s.version, status |-> "REVOKED"]
    \/ what = "job" /\ k = <<"job", c>> /\ v = s

\* A statement fails, is replaced by others, or writes one row.
LEMMA StatementCases ==
  ASSUME NEW r, Statement(r)
  PROVE  /\ prog[r] # << >>
         /\ UNCHANGED <<db, file, aged, twice, torn, imported, anonymous, former, gone>>
         /\ \/ Violated(r) /\ Stmt(r)[1] # "job"
            \/ \E more : Unfolds(r, more) /\ Expands(r, more)
            \/ \E k, v : SetRow(r, k, v) /\ Stores(r, k, v)
<1> USE DEF Doing, Unfolds, Proceed, identities
<1>1. CASE InsertStudent(r)
  BY <1>1 DEF Statement, InsertStudent, Stores, On
<1>2. ASSUME NEW c, NEW s, NEW active, Place(r, c, s, active)
      PROVE  \/ Violated(r)
             \/ /\ SetRow(r, <<"enrolment", c>>, [seat |-> s, active |-> active])
                /\ SeatFree(r, s) /\ \A d \in Code \ {c} : SeatOf(r, d) # s
  BY <1>2 DEF Place
<1>3. CASE InsertEnrolment(r)
  BY <1>2, <1>3 DEF Statement, InsertEnrolment, Stores, On
<1>4. CASE MoveEnrolment(r)
  BY <1>2, <1>4 DEF Statement, MoveEnrolment, Stores, Expands, On
<1>5. CASE UpdateStudent(r)
  BY <1>5 DEF Statement, UpdateStudent, Stores, On
<1>6. CASE Lookup(r)
  BY <1>6 DEF Statement, Lookup, Expands, On
<1>7. CASE SetStatus(r)
  BY <1>7 DEF Statement, SetStatus, Stores, On
<1>8. CASE EndEnrolment(r)
  BY <1>8 DEF Statement, EndEnrolment, Stores, Expands, On
<1>9. CASE InsertQr(r)
  BY <1>9 DEF Statement, InsertQr, Stores, On
<1>10. CASE RevokeQr(r)
  BY <1>10 DEF Statement, RevokeQr, Expands, On
<1>11. CASE RecheckQr(r)
  BY <1>11 DEF Statement, RecheckQr, Stores, Expands, On
<1>12. CASE FindQr(r)
  BY <1>12 DEF Statement, FindQr, Expands, On
<1>13. CASE SetJob(r)
  BY <1>13 DEF Statement, SetJob, Stores, On
<1>14. UNCHANGED <<db, file, aged, twice, torn, imported, anonymous, former, gone>>
  BY DEF Statement, identities
<1> QED
  BY <1>1, <1>3, <1>4, <1>5, <1>6, <1>7, <1>8, <1>9, <1>10, <1>11, <1>12, <1>13, <1>14
  DEF Statement

-----------------------------------------------------------------------------
(* Types *)

\* What a statement consists of.
LEMMA TaskShape ==
  ASSUME NEW t \in Task
  PROVE  /\ t = <<t[1], t[2], t[3]>>
         /\ t[1] \in {"student", "enrolment", "move", "update", "lookup"} =>
              t[2] \in Code /\ t[3] \in Seat
         /\ t[1] \in {"qr", "end", "revoke", "status", "find", "recheck"} => t[2] \in Code
         /\ t[1] = "status" => t[3] \in {"ACTIVE", "INACTIVE"}
         /\ t[1] = "recheck" => t[3] \in [version : Nat, status : {"ACTIVE"}]
         /\ t[1] = "job" => t[2] \in Job /\ t[3] \in {"PROCESSING", "COMPLETED", "FAILED"}
         /\ t[1] # "job" => t[2] \in Code
  BY DEF Task

\* The statement a request runs is the first of its program.
LEMMA HeadShape ==
  ASSUME ImportsTyped, NEW r \in Request, prog[r] # << >>
  PROVE  Stmt(r) \in Task /\ Stmt(r) = prog[r][1] /\ Len(prog[r]) \in Nat \ {0}
  BY DEF ImportsTyped, Stmt

\* A program whose first statement is replaced by others.
LEMMA Spliced ==
  ASSUME NEW p \in Seq(Task), p # << >>, NEW more \in Seq(Task), NEW q, q = more \o Tail(p)
  PROVE  /\ q \in Seq(Task) /\ Len(q) = Len(more) + Len(p) - 1
         /\ \A i \in 1 .. Len(more) : q[i] = more[i]
         /\ \A i \in 2 .. Len(p) : q[Len(more) + i - 1] = p[i]
         /\ \A i \in 1 .. Len(q) : i > Len(more) =>
              i - Len(more) + 1 \in 2 .. Len(p) /\ q[i] = p[i - Len(more) + 1]
<1>1. Tail(p) \in Seq(Task) /\ Len(Tail(p)) = Len(p) - 1
      /\ \A i \in 1 .. Len(p) - 1 : Tail(p)[i] = p[i + 1]
  OBVIOUS
<1>2. /\ q \in Seq(Task) /\ Len(q) = Len(more) + Len(p) - 1
      /\ \A i \in 1 .. Len(more) : q[i] = more[i]
      /\ \A i \in 1 .. Len(q) : i > Len(more) => q[i] = Tail(p)[i - Len(more)]
  BY <1>1
<1>3. ASSUME NEW i \in 1 .. Len(q), i > Len(more)
      PROVE  i - Len(more) + 1 \in 2 .. Len(p) /\ q[i] = p[i - Len(more) + 1]
  BY <1>1, <1>2, <1>3
<1>4. ASSUME NEW i \in 2 .. Len(p) PROVE q[Len(more) + i - 1] = p[i]
  BY <1>1, <1>2, <1>4
<1> QED
  BY <1>2, <1>3, <1>4

\* The values a request may see.
LEMMA TableShape ==
  ASSUME ImportsTyped, NEW c \in Code
  PROVE  /\ db[<<"student", c>>] \in {"NONE", "ACTIVE", "INACTIVE"}
         /\ db[<<"enrolment", c>>] \in [seat : Seat \cup {NoSeat}, active : BOOLEAN]
         /\ db[<<"qr", c>>] \in [version : Nat, status : {"NONE", "ACTIVE", "REVOKED"}]
<1> DEFINE S == <<"student", c>>  E == <<"enrolment", c>>  Q == <<"qr", c>>
<1>1. S \in Key /\ E \in Key /\ Q \in Key
  BY DEF Key
<1>2. S[1] = "student" /\ E[1] = "enrolment" /\ Q[1] = "qr"
  OBVIOUS
<1> HIDE DEF S, E, Q
<1>3. db[S] \in {"NONE", "ACTIVE", "INACTIVE"}
  BY <1>1, <1>2 DEF ImportsTyped, Written, Blank
<1>4. db[E] \in [seat : Seat \cup {NoSeat}, active : BOOLEAN]
  <2>1. Blank(E) = NoEnrolment
    BY <1>2 DEF Blank
  <2>2. db[E] \in [seat : Seat, active : BOOLEAN] \/ db[E] = NoEnrolment
    BY <1>1, <1>2, <2>1 DEF ImportsTyped, Written
  <2>3. NoEnrolment \in [seat : Seat \cup {NoSeat}, active : BOOLEAN]
    BY DEF NoEnrolment
  <2> QED
    BY <2>2, <2>3
<1>5. db[Q] \in [version : Nat, status : {"NONE", "ACTIVE", "REVOKED"}]
  BY <1>1, <1>2 DEF ImportsTyped, Written, Blank, NoQr
<1> QED
  BY <1>3, <1>4, <1>5 DEF S, E, Q

\* The values a transaction sees in its snapshot and its own writes.
LEMMA SeesShape ==
  ASSUME ImportsTyped, NEW r \in Request, NEW c \in Code
  PROVE  /\ Sees(r, <<"student", c>>) \in {"NONE", "ACTIVE", "INACTIVE"}
         /\ Sees(r, <<"enrolment", c>>) \in [seat : Seat \cup {NoSeat}, active : BOOLEAN]
         /\ Sees(r, <<"qr", c>>) \in [version : Nat, status : {"NONE", "ACTIVE", "REVOKED"}]
<1> DEFINE S == <<"student", c>>  E == <<"enrolment", c>>  Q == <<"qr", c>>
<1>1. S[1] = "student" /\ E[1] = "enrolment" /\ Q[1] = "qr"
  OBVIOUS
<1>2. /\ db[S] \in {"NONE", "ACTIVE", "INACTIVE"}
      /\ db[E] \in [seat : Seat \cup {NoSeat}, active : BOOLEAN]
      /\ db[Q] \in [version : Nat, status : {"NONE", "ACTIVE", "REVOKED"}]
  BY TableShape
<1> HIDE DEF S, E, Q
<1>3. Sees(r, S) \in {"NONE", "ACTIVE", "INACTIVE"}
  BY <1>1, <1>2 DEF ImportsTyped, Written, Sees
<1>4. Sees(r, E) \in [seat : Seat \cup {NoSeat}, active : BOOLEAN]
  BY <1>1, <1>2 DEF ImportsTyped, Written, Sees
<1>5. Sees(r, Q) \in [version : Nat, status : {"NONE", "ACTIVE", "REVOKED"}]
  BY <1>1, <1>2 DEF ImportsTyped, Written, Sees
<1> QED
  BY <1>3, <1>4, <1>5 DEF S, E, Q

\* A statement is replaced by statements.
LEMMA ExpandsShape ==
  ASSUME ImportsTyped, NEW r \in Request, NEW more, prog[r] # << >>, Expands(r, more)
  PROVE  more \in Seq(Task) /\ Stmt(r)[1] # "job" /\ \A i \in DOMAIN more : more[i][1] # "job"
<1> DEFINE what == Stmt(r)[1]  c == On(r)  s == Stmt(r)[3]  card == Sees(r, <<"qr", c>>)
<1>1. Stmt(r) \in Task
  BY HeadShape
<1>2. /\ what \in {"lookup"} => c \in Code /\ s \in Seat
      /\ what \in {"revoke", "find"} => c \in Code
  BY <1>1, TaskShape DEF On
<1>3. what # "job"
  BY DEF Expands
<1>4. CASE more = << >>
  BY <1>3, <1>4
<1>5. CASE what = "lookup" /\ more = << <<"update", c, s>>, <<"move", c, s>> >>
  <2>1. <<"update", c, s>> \in Task /\ <<"move", c, s>> \in Task
    BY <1>2, <1>5 DEF Task
  <2> QED
    BY <1>5, <2>1
<1>6. CASE what = "lookup"
           /\ more = << <<"student", c, s>>, <<"enrolment", c, s>>, <<"qr", c, s>> >>
  <2>1. <<"student", c, s>> \in Task /\ <<"enrolment", c, s>> \in Task /\ <<"qr", c, s>> \in Task
    BY <1>2, <1>6 DEF Task
  <2> QED
    BY <1>6, <2>1
<1>7. CASE what = "revoke" /\ card.status = "ACTIVE" /\ more = << <<"recheck", c, card>> >>
  <2>1. card \in [version : Nat, status : {"ACTIVE"}]
    BY <1>2, <1>7, SeesShape
  <2>2. <<"recheck", c, card>> \in Task
    BY <1>2, <1>7, <2>1 DEF Task
  <2> QED
    BY <1>7, <2>2
<1>8. CASE /\ what = "find"
           /\ \/ more = << <<"qr", c, NoSeat>> >>
              \/ more = << <<"revoke", c, NoSeat>>, <<"qr", c, NoSeat>> >>
  <2>1. <<"qr", c, NoSeat>> \in Task /\ <<"revoke", c, NoSeat>> \in Task
    BY <1>2, <1>8 DEF Task
  <2>2. CASE more = << <<"qr", c, NoSeat>> >>
    BY <1>3, <2>1, <2>2
  <2>3. CASE more = << <<"revoke", c, NoSeat>>, <<"qr", c, NoSeat>> >>
    BY <1>3, <2>1, <2>3
  <2> QED
    BY <1>8, <2>2, <2>3
<1> QED
  BY <1>4, <1>5, <1>6, <1>7, <1>8 DEF Expands

\* What a statement writes fits the row.
LEMMA StoresShape ==
  ASSUME ImportsTyped, TableFits, NEW r \in Request, TasksFit(r), NEW k, NEW v,
         prog[r] # << >>, Stores(r, k, v)
  PROVE  k \in Key /\ Written(k, v)
<1> DEFINE what == Stmt(r)[1]  c == On(r)  s == Stmt(r)[3]
<1>1. Stmt(r) \in Task /\ Stmt(r) = prog[r][1] /\ 1 \in DOMAIN prog[r]
  BY HeadShape DEF ImportsTyped
<1>2. /\ what \in {"student", "enrolment", "move", "update"} => c \in Code /\ s \in Seat
      /\ what \in {"status", "end", "qr", "recheck"} => c \in Code
      /\ what = "status" => s \in {"ACTIVE", "INACTIVE"}
      /\ what = "recheck" => s \in [version : Nat, status : {"ACTIVE"}]
      /\ what = "job" => c \in Job /\ s \in {"PROCESSING", "COMPLETED", "FAILED"}
  BY <1>1, TaskShape DEF On
<1>3. c \in Code => /\ Sees(r, <<"enrolment", c>>) \in [seat : Seat \cup {NoSeat}, active : BOOLEAN]
                    /\ Sees(r, <<"qr", c>>) \in [version : Nat, status : {"NONE", "ACTIVE", "REVOKED"}]
                    /\ Sees(r, <<"student", c>>) \in {"NONE", "ACTIVE", "INACTIVE"}
  BY SeesShape
<1>4. /\ what \in {"student", "update", "status"} => k = <<"student", c>>
      /\ what \in {"enrolment", "move", "end"} => k = <<"enrolment", c>>
      /\ what \in {"qr", "recheck"} => k = <<"qr", c>>
      /\ what = "job" => k = <<"job", c>>
      /\ what \in {"student", "update", "status", "enrolment", "move", "end", "qr", "recheck", "job"}
  BY DEF Stores
<1>5. k \in Key
  BY <1>2, <1>4 DEF Key
<1>6. CASE what \in {"student", "update", "status"}
  <2>1. what = "update" => Known(c)
    BY <1>1 DEF TasksFit, UpdateFits, On
  <2>2. what = "update" => Sees(r, <<"student", c>>) # "NONE"
    BY <1>2, <2>1, <1>5, <1>4 DEF Known, Sees, ImportsTyped, Written
  <2>3. v \in {"ACTIVE", "INACTIVE"}
    BY <1>2, <1>3, <1>6, <2>2 DEF Stores
  <2> QED
    BY <1>4, <1>5, <1>6, <2>3 DEF Written
<1>7. CASE what \in {"enrolment", "move", "end"}
  <2>1. what = "end" => Sees(r, k).active /\ v = [seat |-> SeatOf(r, c), active |-> FALSE]
    BY DEF Stores
  <2>2. what = "end" => SeatOf(r, c) \in Seat
    <3>1. CASE k \in DOMAIN draft[r]
      <4>1. Sees(r, k) = draft[r][k]
        BY <3>1 DEF Sees
      <4>2. k[1] = "enrolment" => draft[r][k].seat \in Seat
        BY <3>1 DEF ImportsTyped, Written
      <4> QED
        BY <4>1, <4>2, <1>4 DEF SeatOf
    <3>2. CASE k \notin DOMAIN draft[r]
      BY <3>2, <1>7, <1>4, <1>2, <1>3, <2>1 DEF SeatOf, Sees, TableFits
    <3> QED
      BY <3>1, <3>2
  <2>3. v \in [seat : Seat, active : BOOLEAN]
    <3>1. CASE what = "enrolment"
      <4>1. v = [seat |-> s, active |-> TRUE]
        BY <3>1 DEF Stores
      <4> QED
        BY <1>2, <3>1, <4>1
    <3>2. CASE what = "move"
      <4>1. v = [seat |-> s, active |-> Sees(r, k).active]
        BY <3>2 DEF Stores
      <4>2. k = <<"enrolment", c>> /\ c \in Code /\ s \in Seat
        BY <1>2, <1>4, <3>2
      <4>3. Sees(r, k) \in [seat : Seat \cup {NoSeat}, active : BOOLEAN]
        BY <1>3, <4>2
      <4> HIDE DEF s
      <4> QED
        BY <4>1, <4>2, <4>3
    <3>3. CASE what = "end"
      <4>1. v = [seat |-> SeatOf(r, c), active |-> FALSE] /\ SeatOf(r, c) \in Seat
        BY <2>1, <2>2, <3>3
      <4> HIDE DEF c
      <4> QED
        BY <4>1
    <3> QED
      BY <1>7, <3>1, <3>2, <3>3
  <2> QED
    BY <1>4, <1>5, <1>7, <2>3 DEF Written
<1>8. CASE what \in {"qr", "recheck"}
  BY <1>2, <1>3, <1>4, <1>5, <1>8 DEF Stores, Written
<1>9. CASE what = "job"
  BY <1>2, <1>4, <1>5, <1>9 DEF Stores, Written
<1> QED
  BY <1>4, <1>6, <1>7, <1>8, <1>9

-----------------------------------------------------------------------------
(* The request that moves *)

\* The program after a statement was replaced by others.
LEMMA AfterExpansion ==
  ASSUME ImportsTyped, NEW r \in Request, NEW more, Unfolds(r, more), Expands(r, more)
  PROVE  /\ more \in Seq(Task) /\ Len(more) \in Nat /\ Len(prog[r]) \in Nat \ {0}
         /\ prog'[r] \in Seq(Task) /\ Len(prog'[r]) = Len(more) + Len(prog[r]) - 1
         /\ \A i \in 1 .. Len(more) : prog'[r][i] = more[i]
         /\ \A i \in 2 .. Len(prog[r]) : prog'[r][Len(more) + i - 1] = prog[r][i]
         /\ \A i \in 1 .. Len(prog'[r]) : i > Len(more) =>
              i - Len(more) + 1 \in 2 .. Len(prog[r])
              /\ prog'[r][i] = prog[r][i - Len(more) + 1]
         /\ draft'[r] = draft[r] /\ doing'[r] = doing[r]
         /\ \A q \in Request \ {r} : prog'[q] = prog[q] /\ draft'[q] = draft[q] /\ doing'[q] = doing[q]
<1>1. more \in Seq(Task)
  BY ExpandsShape DEF Unfolds
<1>2. prog[r] \in Seq(Task) /\ prog[r] # << >> /\ prog'[r] = more \o Tail(prog[r])
  BY DEF ImportsTyped, Unfolds
<1>3. \A q \in Request \ {r} : prog'[q] = prog[q] /\ draft'[q] = draft[q] /\ doing'[q] = doing[q]
  BY DEF ImportsTyped, Unfolds
<1>4. Len(more) \in Nat /\ Len(prog[r]) \in Nat \ {0}
  BY <1>1, <1>2
<1>5. draft'[r] = draft[r] /\ doing'[r] = doing[r]
  BY DEF Unfolds
<1> HIDE DEF Unfolds, Expands
<1> QED
  BY <1>1, <1>2, <1>3, <1>4, <1>5, Spliced

\* The program and the draft after a statement wrote a row nobody else writes.
LEMMA AfterWrite ==
  ASSUME ImportsTyped, NEW r \in Request, prog[r] # << >>, NEW k, NEW v, SetRow(r, k, v)
  PROVE  /\ Len(prog[r]) \in Nat \ {0}
         /\ prog'[r] \in Seq(Task) /\ Len(prog'[r]) = Len(prog[r]) - 1
         /\ \A i \in 2 .. Len(prog[r]) : prog'[r][i - 1] = prog[r][i]
         /\ \A i \in 1 .. Len(prog'[r]) : prog'[r][i] = prog[r][i + 1]
         /\ DOMAIN draft'[r] = DOMAIN draft[r] \cup {k} /\ draft'[r][k] = v
         /\ \A i \in DOMAIN draft[r] \ {k} : draft'[r][i] = draft[r][i]
         /\ doing'[r] = doing[r] /\ DOMAIN draft' = Request
         /\ \A q \in Request \ {r} : prog'[q] = prog[q] /\ draft'[q] = draft[q] /\ doing'[q] = doing[q]
         /\ \A q \in Request \ {r} : k \notin DOMAIN draft[q]
<1> DEFINE none == << >>
<1>1. none \in Seq(Task) /\ Len(none) = 0
  OBVIOUS
<1>2. prog[r] \in Seq(Task) /\ prog'[r] = none \o Tail(prog[r])
  BY DEF ImportsTyped, SetRow, Proceed
<1>3. /\ DOMAIN draft'[r] = DOMAIN draft[r] \cup {k} /\ draft'[r][k] = v
      /\ \A i \in DOMAIN draft[r] \ {k} : draft'[r][i] = draft[r][i]
      /\ DOMAIN draft' = Request
  BY DEF ImportsTyped, SetRow, Put
<1>4. \A q \in Request \ {r} : prog'[q] = prog[q] /\ draft'[q] = draft[q] /\ doing'[q] = doing[q]
  BY DEF ImportsTyped, SetRow, Put, Proceed
<1>5. doing'[r] = doing[r] /\ \A q \in Request \ {r} : k \notin DOMAIN draft[q]
  BY DEF SetRow, Free
<1> HIDE DEF none
<1>6. /\ prog'[r] \in Seq(Task) /\ Len(prog'[r]) = Len(none) + Len(prog[r]) - 1
      /\ \A i \in 2 .. Len(prog[r]) : prog'[r][Len(none) + i - 1] = prog[r][i]
      /\ \A i \in 1 .. Len(prog'[r]) : i > Len(none) => prog'[r][i] = prog[r][i - Len(none) + 1]
  BY <1>1, <1>2, Spliced
<1>7. Len(prog[r]) \in Nat \ {0}
  BY <1>2
<1>8. Len(prog'[r]) = Len(prog[r]) - 1
  BY <1>1, <1>6, <1>7
<1>9. ASSUME NEW i \in 2 .. Len(prog[r]) PROVE prog'[r][i - 1] = prog[r][i]
  BY <1>1, <1>6, <1>7
<1>10. ASSUME NEW i \in 1 .. Len(prog'[r]) PROVE prog'[r][i] = prog[r][i + 1]
  BY <1>1, <1>6, <1>7
<1> QED
  BY <1>3, <1>4, <1>5, <1>6, <1>7, <1>8, <1>9, <1>10

\* Jobs are marked first and last.
LEMMA PhaseOfExpansion ==
  ASSUME ImportsTyped, NEW r \in Request, PhaseFits(r),
         NEW more, Unfolds(r, more), Expands(r, more)
  PROVE  PhaseFits(r)'
<1> DEFINE n == Len(more)  m == Len(prog[r])  p == prog'[r]
<1>1. /\ n \in Nat /\ m \in Nat \ {0} /\ Len(p) = n + m - 1 /\ p \in Seq(Task)
      /\ \A i \in 1 .. n : p[i] = more[i]
      /\ \A i \in 2 .. m : p[n + i - 1] = prog[r][i]
      /\ \A i \in 1 .. Len(p) : i > n => i - n + 1 \in 2 .. m /\ p[i] = prog[r][i - n + 1]
      /\ draft'[r] = draft[r] /\ doing'[r] = doing[r] /\ prog[r] \in Seq(Task)
  BY AfterExpansion DEF ImportsTyped
<1>2. /\ prog[r] # << >> /\ prog[r][1][1] # "job"
      /\ \A i \in 1 .. n : more[i][1] # "job"
  BY ExpandsShape, HeadShape, <1>1 DEF Unfolds
<1>0. n \in Nat /\ m \in Nat \ {0} /\ Len(p) = n + m - 1
  BY <1>1
<1> HIDE DEF n, m, p
<1>3. CASE doing[r] \in Job
  <2>1. Underway(r)
    BY <1>2, <1>3 DEF PhaseFits, Staged, Settled
  <2>2. m > 1
    BY <1>1, <1>2, <2>1 DEF Underway, m
  <2>3. p # << >> /\ Len(p) = n + m - 1 /\ p[n + m - 1] = prog[r][m]
    BY <1>1, <2>2
  <2>4. p[Len(p)] = <<"job", doing'[r], "COMPLETED">>
    BY <1>1, <2>1, <2>3 DEF Underway, m
  <2>5. ASSUME NEW i \in 1 .. Len(p) - 1 PROVE p[i][1] # "job"
    <3>1. CASE i \in 1 .. n
      BY <1>1, <1>2, <3>1
    <3>2. CASE i > n
      <4>1. i \in 1 .. Len(p) /\ i - n + 1 \in 1 .. m - 1
        BY <1>0, <3>2
      <4>2. p[i] = prog[r][i - n + 1]
        BY <1>1, <3>2, <4>1
      <4> QED
        BY <4>1, <4>2, <2>1 DEF Underway, m
    <3> QED
      BY <1>1, <3>1, <3>2
  <2>6. Underway(r)'
    BY <1>1, <2>1, <2>3, <2>4, <2>5 DEF Underway, Has, JobRow, p
  <2> QED
    BY <1>1, <1>3, <2>6, ImportsAssumption DEF PhaseFits, JobRow, Kind
<1>4. CASE doing[r] \notin Job
  <2>1. ASSUME NEW i \in 1 .. Len(p) PROVE p[i][1] # "job"
    <3>1. CASE i \in 1 .. n
      BY <1>1, <1>2, <3>1
    <3>2. CASE i > n
      <4>1. i - n + 1 \in 1 .. m /\ p[i] = prog[r][i - n + 1]
        BY <1>1, <3>2
      <4> QED
        BY <4>1, <1>1, <1>4 DEF PhaseFits, m
    <3> QED
      BY <1>1, <3>1, <3>2
  <2>2. doing[r] # "idle" /\ \A k \in DOMAIN draft[r] : k[1] = "job" => k = JobRow(r)
    BY <1>2 DEF PhaseFits
  <2>3. DOMAIN p = 1 .. Len(p) /\ draft'[r] = draft[r] /\ doing'[r] = doing[r]
    BY <1>1
  <2>4. \A i \in DOMAIN prog'[r] : prog'[r][i][1] # "job"
    BY <2>1, <2>3 DEF p
  <2> QED
    BY <1>4, <2>2, <2>3, <2>4 DEF PhaseFits, JobRow
<1> QED
  BY <1>3, <1>4

\* A write keeps a confirmation in its phase or takes it to the next one.
LEMMA PhaseOfWrite ==
  ASSUME ImportsTyped, NEW r \in Request, PhaseFits(r), prog[r] # << >>,
         NEW k, NEW v, SetRow(r, k, v), Stores(r, k, v)
  PROVE  PhaseFits(r)'
<1> DEFINE m == Len(prog[r])  p == prog'[r]  d == draft'[r]
<1>1. /\ m \in Nat \ {0} /\ Len(p) = m - 1 /\ p \in Seq(Task)
      /\ \A i \in 1 .. Len(p) : p[i] = prog[r][i + 1]
      /\ doing'[r] = doing[r] /\ prog[r] \in Seq(Task)
      /\ DOMAIN d = DOMAIN draft[r] \cup {k} /\ d[k] = v
      /\ \A i \in DOMAIN draft[r] \ {k} : d[i] = draft[r][i]
  BY AfterWrite DEF ImportsTyped
<1>2. /\ prog[r][1] = Stmt(r)
      /\ prog[r][1][1] = "job" <=> k[1] = "job"
      /\ prog[r][1][1] = "job" => k = <<"job", prog[r][1][2]>> /\ v = prog[r][1][3]
  BY HeadShape DEF Stores, On
<1> HIDE DEF m, p, d
<1>3. CASE doing[r] \in Job /\ prog[r][1][1] # "job"
  <2>1. Underway(r)
    BY <1>3 DEF PhaseFits, Staged, Settled
  <2>2. m > 1
    BY <1>1, <1>3, <2>1 DEF Underway, m
  <2>3. p # << >> /\ p[Len(p)] = <<"job", doing'[r], "COMPLETED">>
    <3>1. p # << >> /\ p[Len(p)] = prog[r][m]
      BY <1>1, <2>2
    <3> QED
      BY <1>1, <2>1, <3>1 DEF Underway, m
  <2>4. ASSUME NEW i \in 1 .. Len(p) - 1 PROVE p[i][1] # "job"
    <3>1. i + 1 \in 1 .. m - 1 /\ p[i] = prog[r][i + 1]
      BY <1>1
    <3> QED
      BY <2>1, <3>1 DEF Underway, m
  <2>5. JobRow(r) # k /\ JobRow(r)[1] = "job"
    BY <1>2, <1>3 DEF JobRow
  <2>6. JobRow(r) \in DOMAIN d /\ d[JobRow(r)] = "PROCESSING"
    BY <1>1, <2>1, <2>5 DEF Underway, Has
  <2>7. Underway(r)'
    BY <1>1, <2>3, <2>4, <2>6 DEF Underway, Has, JobRow, p, d
  <2>8. \A i \in DOMAIN d : i[1] = "job" => i = JobRow(r)
    BY <1>1, <1>2, <1>3 DEF PhaseFits
  <2> QED
    BY <1>1, <1>3, <2>7, <2>8, ImportsAssumption DEF PhaseFits, JobRow, Kind, d
<1>4. CASE doing[r] \in Job /\ prog[r][1][1] = "job"
  <2>1. k = JobRow(r) /\ k[1] = "job" /\ k[2] = doing[r]
    <3>1. Staged(r) \/ Underway(r)
      BY <1>4 DEF PhaseFits, Settled
    <3>2. prog[r][1][2] = doing[r]
      <4>1. CASE Staged(r)
        BY <4>1 DEF Staged
      <4>2. CASE Underway(r)
        <5>1. ~ (1 \in 1 .. m - 1)
          BY <1>4, <4>2 DEF Underway, m
        <5>2. m = 1
          BY <1>1, <5>1
        <5> QED
          BY <4>2, <5>2 DEF Underway, m
      <4> QED
        BY <3>1, <4>1, <4>2
    <3> QED
      BY <1>2, <1>4, <3>2 DEF JobRow
  <2>2. \A i \in DOMAIN d : i[1] = "job" => i = JobRow(r)
    BY <1>1, <2>1 DEF PhaseFits
  <2>3. Underway(r)' \/ Settled(r)'
    <3>1. CASE Staged(r) /\ m = 1
      <4>1. v = "FAILED" /\ DOMAIN draft[r] = {} /\ p = << >>
        BY <1>1, <1>2, <3>1 DEF Staged, m
      <4> QED
        BY <1>1, <2>1, <4>1 DEF Settled, Has, JobRow, p, d
    <3>2. CASE Staged(r) /\ m > 1
      <4>1. /\ v = "PROCESSING"
            /\ prog[r][m] = <<"job", doing[r], "COMPLETED">>
            /\ \A i \in 2 .. m - 1 : prog[r][i][1] # "job"
        BY <1>1, <1>2, <3>2 DEF Staged, m
      <4>2. p # << >> /\ p[Len(p)] = <<"job", doing[r], "COMPLETED">>
        BY <1>1, <3>2, <4>1
      <4>3. ASSUME NEW i \in 1 .. Len(p) - 1 PROVE p[i][1] # "job"
        <5>1. i + 1 \in 2 .. m - 1 /\ p[i] = prog[r][i + 1]
          BY <1>1
        <5> QED
          BY <4>1, <5>1
      <4> QED
        BY <1>1, <2>1, <4>1, <4>2, <4>3 DEF Underway, Has, JobRow, p, d
    <3>3. CASE Underway(r)
      <4>1. m = 1
        <5>1. \A i \in 1 .. m - 1 : prog[r][i][1] # "job"
          BY <3>3 DEF Underway, m
        <5>2. ~ (1 \in 1 .. m - 1)
          BY <5>1, <1>4
        <5> QED
          BY <1>1, <5>2
      <4>2. v = "COMPLETED" /\ p = << >>
        BY <1>1, <1>2, <3>3, <4>1 DEF Underway, m
      <4> QED
        BY <1>1, <2>1, <4>2 DEF Settled, Has, JobRow, p, d
    <3> QED
      BY <1>1, <1>4, <3>1, <3>2, <3>3 DEF PhaseFits, Settled
  <2> QED
    BY <1>1, <1>4, <2>2, <2>3, ImportsAssumption DEF PhaseFits, JobRow, Kind, d
<1>5. CASE doing[r] \notin Job
  <2>1. prog[r][1][1] # "job"
    BY <1>1, <1>5 DEF PhaseFits, m
  <2>2. ASSUME NEW i \in 1 .. Len(p) PROVE p[i][1] # "job"
    <3>1. i + 1 \in 1 .. m /\ p[i] = prog[r][i + 1]
      BY <1>1
    <3> QED
      BY <1>1, <1>5, <3>1 DEF PhaseFits, m
  <2>3. \A i \in DOMAIN d : i[1] = "job" => i = JobRow(r)
    BY <1>1, <1>2, <2>1 DEF PhaseFits
  <2>4. doing[r] # "idle"
    BY DEF PhaseFits
  <2> QED
    BY <1>1, <1>5, <2>2, <2>3, <2>4 DEF PhaseFits, JobRow, p, d
<1> QED
  BY <1>3, <1>4, <1>5

\* A card is taken back only where another follows.
LEMMA QrOfExpansion ==
  ASSUME ImportsTyped, NEW r \in Request, QrFits(r),
         NEW more, Unfolds(r, more), Expands(r, more)
  PROVE  QrFits(r)'
<1> DEFINE n == Len(more)  m == Len(prog[r])  p == prog'[r]
<1>1. /\ n \in Nat /\ m \in Nat \ {0} /\ Len(p) = n + m - 1 /\ p \in Seq(Task)
      /\ \A i \in 1 .. n : p[i] = more[i]
      /\ \A i \in 2 .. m : p[n + i - 1] = prog[r][i]
      /\ \A i \in 1 .. Len(p) : i > n => i - n + 1 \in 2 .. m /\ p[i] = prog[r][i - n + 1]
      /\ draft'[r] = draft[r] /\ doing'[r] = doing[r] /\ prog[r] \in Seq(Task)
  BY AfterExpansion DEF ImportsTyped
<1>2. prog[r] # << >> /\ prog[r][1] = Stmt(r) /\ prog[r][1][1] # "qr"
  BY HeadShape, <1>1 DEF Unfolds, Expands
<1> SUFFICES ASSUME doing[r] # "revocation" PROVE QrFits(r)'
  BY <1>1 DEF QrFits
\* What followed a statement follows it still.
<1>3. ASSUME NEW i \in 1 .. m, NEW c, Later(prog[r], i, "qr", c)
      PROVE  \A h \in 0 .. n + i - 1 : Later(p, h, "qr", c)
  <2>1. PICK k \in i + 1 .. m : prog[r][k][1] = "qr" /\ prog[r][k][2] = c
    BY <1>3 DEF Later
  <2>2. n + k - 1 \in 1 .. Len(p) /\ n + k - 1 > n + i - 1 /\ p[n + k - 1] = prog[r][k]
    BY <1>1
  <2> HIDE DEF n, m, p
  <2>3. ASSUME NEW h \in 0 .. n + i - 1 PROVE n + k - 1 \in h + 1 .. Len(p)
    BY <1>1, <2>2
  <2> QED
    BY <2>1, <2>2, <2>3 DEF Later, p
<1>4. ASSUME NEW i \in 1 .. Len(p), p[i][1] \in {"revoke", "recheck"}
      PROVE  Later(p, i, "qr", p[i][2])
  <2>1. CASE i > n
    <3>1. i - n + 1 \in 2 .. m /\ p[i] = prog[r][i - n + 1]
      BY <1>1, <2>1
    <3>2. Later(prog[r], i - n + 1, "qr", p[i][2])
      BY <1>1, <1>4, <3>1 DEF QrFits
    <3>3. i - n + 1 \in 1 .. m /\ i \in 0 .. n + (i - n + 1) - 1
      BY <1>1, <3>1
    <3> QED
      BY <1>3, <3>2, <3>3
  <2>2. CASE i \in 1 .. n /\ Stmt(r)[1] = "revoke"
    <3>1. more = << <<"recheck", On(r), Sees(r, <<"qr", On(r)>>)>> >>
      BY <1>1, <2>2 DEF Expands
    <3>2. n = 1 /\ p[i][2] = prog[r][1][2]
      BY <1>1, <1>2, <2>2, <3>1 DEF On
    <3>3. Later(prog[r], 1, "qr", p[i][2])
      BY <1>1, <1>2, <2>2, <3>2 DEF QrFits
    <3>4. i \in 0 .. n + 1 - 1 /\ 1 \in 1 .. m
      BY <1>1, <2>2, <3>2
    <3> QED
      BY <1>3, <3>3, <3>4
  <2>3. CASE i \in 1 .. n /\ Stmt(r)[1] = "find"
    <3>1. more = << <<"qr", On(r), NoSeat>> >>
          \/ more = << <<"revoke", On(r), NoSeat>>, <<"qr", On(r), NoSeat>> >>
      BY <1>1, <2>3 DEF Expands
    <3>2. more = << <<"revoke", On(r), NoSeat>>, <<"qr", On(r), NoSeat>> >>
      BY <1>1, <1>4, <2>3, <3>1
    <3>3. n = 2 /\ i = 1 /\ p[2][1] = "qr" /\ p[2][2] = p[i][2]
      BY <1>1, <1>4, <2>3, <3>2
    <3>4. 2 \in i + 1 .. Len(p)
      BY <1>1, <3>3
    <3> QED
      BY <3>3, <3>4 DEF Later
  <2>4. CASE i \in 1 .. n /\ Stmt(r)[1] = "lookup"
    <3>1. \/ more = << <<"update", On(r), Stmt(r)[3]>>, <<"move", On(r), Stmt(r)[3]>> >>
          \/ more = << <<"student", On(r), Stmt(r)[3]>>, <<"enrolment", On(r), Stmt(r)[3]>>,
                       <<"qr", On(r), Stmt(r)[3]>> >>
      BY <1>1, <2>4 DEF Expands
    <3>2. \A h \in 1 .. n : more[h][1] \notin {"revoke", "recheck"}
      BY <3>1
    <3> QED
      BY <1>1, <1>4, <2>4, <3>2
  <2>5. i \in 1 .. n => Stmt(r)[1] \in {"revoke", "find", "lookup"}
    BY <1>1 DEF Expands
  <2> QED
    BY <1>1, <2>1, <2>2, <2>3, <2>4, <2>5
<1>5. ASSUME NEW c \in Code, <<"qr", c>> \in DOMAIN draft[r],
             draft[r][<<"qr", c>>].status # "ACTIVE"
      PROVE  Later(p, 0, "qr", c)
  <2>1. PICK k \in 1 .. m : prog[r][k][1] = "qr" /\ prog[r][k][2] = c
    BY <1>5 DEF QrFits, Later
  <2>2. k # 1
    BY <1>2, <2>1
  <2>3. Later(prog[r], 1, "qr", c)
    BY <1>1, <2>1, <2>2 DEF Later
  <2>4. 1 \in 1 .. m /\ 0 \in 0 .. n + 1 - 1
    BY <1>1
  <2> QED
    BY <1>3, <2>3, <2>4
<1> HIDE DEF n, m, p
<1> QED
  BY <1>1, <1>4, <1>5 DEF QrFits, p

\* A card that a write takes back is issued again by a later statement.
LEMMA QrOfWrite ==
  ASSUME ImportsTyped, NEW r \in Request, QrFits(r), prog[r] # << >>,
         NEW k, NEW v, SetRow(r, k, v), Stores(r, k, v)
  PROVE  QrFits(r)'
<1> DEFINE m == Len(prog[r])  p == prog'[r]  d == draft'[r]
<1>1. /\ m \in Nat \ {0} /\ Len(p) = m - 1 /\ p \in Seq(Task)
      /\ \A i \in 2 .. m : p[i - 1] = prog[r][i]
      /\ \A i \in 1 .. Len(p) : p[i] = prog[r][i + 1]
      /\ doing'[r] = doing[r] /\ prog[r] \in Seq(Task)
      /\ DOMAIN d = DOMAIN draft[r] \cup {k} /\ d[k] = v
      /\ \A i \in DOMAIN draft[r] \ {k} : d[i] = draft[r][i]
  BY AfterWrite DEF ImportsTyped
<1>2. /\ prog[r][1] = Stmt(r)
      /\ k[1] = "qr" => \/ prog[r][1][1] = "qr" /\ v.status = "ACTIVE"
                        \/ prog[r][1][1] = "recheck" /\ k = <<"qr", prog[r][1][2]>>
      /\ prog[r][1][1] = "qr" => k = <<"qr", prog[r][1][2]>> /\ v.status = "ACTIVE"
  BY HeadShape DEF Stores, On
<1> SUFFICES ASSUME doing[r] # "revocation" PROVE QrFits(r)'
  BY <1>1 DEF QrFits
<1>3. ASSUME NEW i \in 1 .. m, NEW c, Later(prog[r], i, "qr", c)
      PROVE  Later(p, i - 1, "qr", c)
  <2>1. PICK h \in i + 1 .. m : prog[r][h][1] = "qr" /\ prog[r][h][2] = c
    BY <1>3 DEF Later
  <2>2. h - 1 \in (i - 1) + 1 .. Len(p) /\ p[h - 1] = prog[r][h]
    BY <1>1
  <2> QED
    BY <2>1, <2>2 DEF Later
<1>4. ASSUME NEW i \in 1 .. Len(p), p[i][1] \in {"revoke", "recheck"}
      PROVE  Later(p, i, "qr", p[i][2])
  <2>1. i + 1 \in 1 .. m /\ p[i] = prog[r][i + 1] /\ (i + 1) - 1 = i
    BY <1>1
  <2>2. Later(prog[r], i + 1, "qr", p[i][2])
    BY <1>1, <1>4, <2>1 DEF QrFits
  <2>3. Later(p, (i + 1) - 1, "qr", p[i][2])
    BY <1>3, <2>1, <2>2
  <2> QED
    BY <2>1, <2>3
<1>5. ASSUME NEW c \in Code, <<"qr", c>> \in DOMAIN d, d[<<"qr", c>>].status # "ACTIVE"
      PROVE  Later(p, 0, "qr", c)
  <2>1. Later(prog[r], 1, "qr", c)
    <3>1. CASE k = <<"qr", c>>
      <4>1. prog[r][1][1] = "recheck" /\ prog[r][1][2] = c
        BY <1>1, <1>2, <1>5, <3>1
      <4>2. 1 \in DOMAIN prog[r]
        BY <1>1
      <4> QED
        BY <4>1, <4>2 DEF QrFits
    <3>2. CASE k # <<"qr", c>>
      <4>1. <<"qr", c>> \in DOMAIN draft[r] /\ draft[r][<<"qr", c>>].status # "ACTIVE"
        BY <1>1, <1>5, <3>2
      <4>2. PICK h \in 1 .. m : prog[r][h][1] = "qr" /\ prog[r][h][2] = c
        BY <4>1 DEF QrFits, Later
      <4>3. h # 1
        BY <1>2, <3>2, <4>2
      <4> QED
        BY <1>1, <4>2, <4>3 DEF Later
    <3> QED
      BY <3>1, <3>2
  <2>2. 1 \in 1 .. m /\ 1 - 1 = 0
    BY <1>1
  <2>3. Later(p, 1 - 1, "qr", c)
    BY <1>3, <2>1, <2>2
  <2> QED
    BY <2>2, <2>3
<1> HIDE DEF m, p, d
<1> QED
  BY <1>1, <1>4, <1>5 DEF QrFits, p, d

\* A later statement stays a later one when an earlier one is replaced.
LEMMA LaterSpliced ==
  ASSUME NEW p, NEW q, NEW n \in Nat, NEW m \in Nat, Len(p) = m, Len(q) = n + m - 1,
         \A i \in 2 .. m : q[n + i - 1] = p[i],
         NEW i \in 1 .. m, NEW what, NEW c, Later(p, i, what, c), NEW h \in 0 .. n + i - 1
  PROVE  Later(q, h, what, c)
<1>1. PICK k \in i + 1 .. m : p[k][1] = what /\ p[k][2] = c
  BY DEF Later
<1>2. n + k - 1 \in h + 1 .. Len(q) /\ k \in 2 .. m
  OBVIOUS
<1>3. q[n + k - 1] = p[k]
  BY <1>2
<1> QED
  BY <1>1, <1>2, <1>3 DEF Later

\* The statements that replace another are about the same student.
LEMMA ExpandsSame ==
  ASSUME ImportsTyped, NEW r \in Request, TasksFit(r), NEW more, prog[r] # << >>, Expands(r, more)
  PROVE  /\ Stmt(r) = prog[r][1] /\ 1 \in DOMAIN prog[r]
         /\ Stmt(r)[1] \in {"move", "lookup", "end", "revoke", "recheck", "find"}
         /\ \A h \in 1 .. Len(more) : more[h][2] = On(r) /\ more[h][1] # "lookup"
         /\ doing[r] \in Job /\ more # << >> =>
              \A h \in 1 .. Len(more) : more[h][3] = Stmt(r)[3]
         /\ doing[r] \in Job => Stmt(r)[1] \in {"move", "lookup"}
         /\ doing[r] \in Job /\ more # << >> => Stmt(r)[1] = "lookup"
         /\ \A h \in 1 .. Len(more) : more[h][1] \in {"update", "move", "status"} => Known(On(r))
         /\ \A h \in 1 .. Len(more) : more[h][1] = "student" =>
              h = 1 /\ Len(more) = 3 /\ more[2][1] = "enrolment"
         /\ \A h \in 1 .. Len(more) : more[h][1] = "enrolment" => h = 2 /\ more[1][1] = "student"
         /\ \A h \in 1 .. Len(more) : doing[r] \in Job =>
              more[h][1] \in {"student", "enrolment", "qr", "update", "move", "lookup"}
<1> DEFINE what == Stmt(r)[1]  c == On(r)  s == Stmt(r)[3]
<1>1. Stmt(r) = prog[r][1] /\ 1 \in DOMAIN prog[r]
  BY HeadShape DEF ImportsTyped
<1>2. what \in {"move", "lookup", "end", "revoke", "recheck", "find"}
  BY DEF Expands
<1>3. doing[r] \in Job => what \in {"move", "lookup"}
  BY <1>1, <1>2 DEF TasksFit, RowFits
<1>4. what = "lookup" => <<"student", c>> \notin DOMAIN draft[r]
  BY <1>1 DEF TasksFit, LookupFits, On
<1>5. what = "lookup" /\ Sees(r, <<"student", c>>) # "NONE" => Known(c)
  BY <1>4 DEF Sees, Known
<1>6. \/ more = << >>
      \/ /\ what = "lookup" /\ Known(c)
         /\ more = << <<"update", c, s>>, <<"move", c, s>> >>
      \/ /\ what = "lookup"
         /\ more = << <<"student", c, s>>, <<"enrolment", c, s>>, <<"qr", c, s>> >>
      \/ what = "revoke" /\ more = << <<"recheck", c, Sees(r, <<"qr", c>>)>> >>
      \/ what = "find" /\ more = << <<"qr", c, NoSeat>> >>
      \/ what = "find" /\ more = << <<"revoke", c, NoSeat>>, <<"qr", c, NoSeat>> >>
  BY <1>5 DEF Expands
<1> HIDE DEF what, c, s
<1>7. CASE more = << >>
  BY <1>1, <1>2, <1>3, <1>7 DEF what
<1>8. CASE what = "lookup" /\ Known(c) /\ more = << <<"update", c, s>>, <<"move", c, s>> >>
  <2>1. Len(more) = 2 /\ more[1] = <<"update", c, s>> /\ more[2] = <<"move", c, s>>
    BY <1>8
  <2>2. \A h \in 1 .. Len(more) : h = 1 \/ h = 2
    BY <2>1
  <2>3. \A h \in 1 .. Len(more) :
          more[h][2] = c /\ more[h][3] = s /\ more[h][1] \in {"update", "move"}
    BY <2>1, <2>2
  <2> QED
    BY <1>1, <1>2, <1>3, <1>8, <2>3 DEF what, c, s
<1>9. CASE /\ what = "lookup"
           /\ more = << <<"student", c, s>>, <<"enrolment", c, s>>, <<"qr", c, s>> >>
  <2>1. Len(more) = 3 /\ more[1] = <<"student", c, s>> /\ more[2] = <<"enrolment", c, s>>
        /\ more[3] = <<"qr", c, s>> /\ more # << >>
    BY <1>9
  <2>2. \A h \in 1 .. Len(more) : h = 1 \/ h = 2 \/ h = 3
    BY <2>1
  <2>3. \A h \in 1 .. Len(more) :
          /\ more[h][2] = c /\ more[h][3] = s /\ more[h][1] \in {"student", "enrolment", "qr"}
          /\ more[h][1] = "student" => h = 1
          /\ more[h][1] = "enrolment" => h = 2
    BY <2>1, <2>2
  <2>4. /\ more[1][1] = "student" /\ more[2][1] = "enrolment" /\ Len(more) = 3
        /\ what = "lookup"
    BY <1>9, <2>1
  <2> QED
    BY <1>1, <1>2, <1>3, <2>3, <2>4 DEF what, c, s
<1>10. CASE what = "revoke" /\ more = << <<"recheck", c, Sees(r, <<"qr", c>>)>> >>
  <2>1. Len(more) = 1 /\ more[1] = <<"recheck", c, Sees(r, <<"qr", c>>)>> /\ doing[r] \notin Job
    BY <1>3, <1>10
  <2> QED
    BY <1>1, <1>2, <1>3, <2>1 DEF what, c, s
<1>11. CASE what = "find" /\ more = << <<"qr", c, NoSeat>> >>
  <2>1. Len(more) = 1 /\ more[1] = <<"qr", c, NoSeat>> /\ doing[r] \notin Job
    BY <1>3, <1>11
  <2> QED
    BY <1>1, <1>2, <1>3, <2>1 DEF what, c, s
<1>12. CASE what = "find" /\ more = << <<"revoke", c, NoSeat>>, <<"qr", c, NoSeat>> >>
  <2>1. Len(more) = 2 /\ more[1] = <<"revoke", c, NoSeat>> /\ more[2] = <<"qr", c, NoSeat>>
        /\ doing[r] \notin Job
    BY <1>3, <1>12
  <2> QED
    BY <1>1, <1>2, <1>3, <2>1 DEF what, c, s
<1> QED
  BY <1>6, <1>7, <1>8, <1>9, <1>10, <1>11, <1>12

\* The statements that replace a lookup find what they rely on.
LEMMA TasksOfExpansion ==
  ASSUME ImportsTyped, NEW r \in Request, TasksFit(r), UNCHANGED <<db, file>>,
         NEW more, Unfolds(r, more), Expands(r, more)
  PROVE  TasksFit(r)'
<1> DEFINE n == Len(more)  m == Len(prog[r])  p == prog'[r]
<1>1. /\ \A i \in 1 .. n : p[i] = more[i]
      /\ \A i \in 2 .. m : p[n + i - 1] = prog[r][i]
      /\ \A i \in 1 .. Len(p) : i > n => i - n + 1 \in 2 .. m /\ p[i] = prog[r][i - n + 1]
  BY AfterExpansion
<1>2. /\ n \in Nat /\ m \in Nat \ {0} /\ Len(p) = n + m - 1
      /\ DOMAIN p = 1 .. Len(p) /\ DOMAIN prog[r] = 1 .. m
  BY AfterExpansion DEF ImportsTyped
<1>3. /\ draft'[r] = draft[r] /\ doing'[r] = doing[r] /\ prog[r] # << >>
      /\ \A c : OwnNew(r, c)' <=> OwnNew(r, c)
      /\ \A c : Known(c)' <=> Known(c)
      /\ \A j : RowsOf(j)' = RowsOf(j)
  BY AfterExpansion DEF Unfolds, OwnNew, Known, RowsOf
<1>4. /\ Stmt(r) = prog[r][1] /\ 1 \in 1 .. m
      /\ Stmt(r)[1] \in {"move", "lookup", "end", "revoke", "recheck", "find"}
      /\ \A h \in 1 .. n : more[h][2] = On(r) /\ more[h][1] # "lookup"
      /\ doing[r] \in Job => \A h \in 1 .. n : more[h][3] = Stmt(r)[3]
      /\ doing[r] \in Job => Stmt(r)[1] \in {"move", "lookup"}
      /\ doing[r] \in Job /\ more # << >> => Stmt(r)[1] = "lookup"
      /\ \A h \in 1 .. n : more[h][1] \in {"update", "move", "status"} => Known(On(r))
      /\ \A h \in 1 .. n : more[h][1] = "student" => h = 1 /\ n = 3 /\ more[2][1] = "enrolment"
      /\ \A h \in 1 .. n : more[h][1] = "enrolment" => h = 2 /\ more[1][1] = "student"
      /\ \A h \in 1 .. n : doing[r] \in Job =>
           more[h][1] \in {"student", "enrolment", "qr", "update", "move", "lookup"}
  BY <1>2, <1>3, ExpandsSame
<1>5. /\ On(r) = prog[r][1][2] /\ prog[r][1] = Stmt(r)
  BY <1>4 DEF On
<1> HIDE DEF n, m, p
<1>6. ASSUME NEW i \in 1 .. Len(p), i > n
      PROVE  /\ LookupFits(r, i)' /\ EnrolmentFits(r, i)' /\ StudentFits(r, i)'
             /\ UpdateFits(r, i)' /\ RowFits(r, i)'
  <2> DEFINE k == i - n + 1
  <2>1. k \in 2 .. m /\ k \in 1 .. m /\ p[i] = prog[r][k] /\ i = n + k - 1
    BY <1>1, <1>2, <1>6
  <2>2. /\ LookupFits(r, k) /\ EnrolmentFits(r, k) /\ StudentFits(r, k)
        /\ UpdateFits(r, k) /\ RowFits(r, k)
    BY <1>2, <2>1 DEF TasksFit
  <2> HIDE DEF k
  <2>3. LookupFits(r, i)'
    <3>1. ASSUME prog[r][k][1] = "lookup", NEW h \in 1 .. Len(p), h # i, p[h][1] # "job"
          PROVE  p[h][2] # prog[r][k][2]
      <4>1. CASE h > n
        <5>1. h - n + 1 \in 2 .. m /\ p[h] = prog[r][h - n + 1]
          BY <1>1, <3>1, <4>1
        <5>2. h - n + 1 # k /\ h - n + 1 \in 1 .. m
          BY <1>2, <2>1, <3>1, <5>1
        <5> QED
          BY <1>2, <2>2, <3>1, <5>1, <5>2 DEF LookupFits
      <4>2. CASE h \in 1 .. n
        <5>1. p[h][2] = prog[r][1][2]
          BY <1>1, <1>4, <1>5, <4>2
        <5>2. 1 # k /\ prog[r][1][1] # "job"
          BY <1>4, <2>1
        <5> QED
          BY <1>2, <1>4, <2>2, <3>1, <5>1, <5>2 DEF LookupFits
      <4> QED
        BY <1>2, <4>1, <4>2
    <3> QED
      BY <1>2, <1>3, <2>1, <2>2, <3>1 DEF LookupFits, p
  <2>4. EnrolmentFits(r, i)'
    <3>1. ASSUME NEW h \in 1 .. k - 1, prog[r][h][1] = "student", prog[r][h][2] = prog[r][k][2]
          PROVE  \E g \in 1 .. i - 1 : p[g][1] = "student" /\ p[g][2] = prog[r][k][2]
      <4>1. h # 1
        BY <1>4, <3>1
      <4>2. h \in 2 .. m /\ n + h - 1 \in 1 .. i - 1
        BY <1>2, <2>1, <4>1
      <4>3. p[n + h - 1] = prog[r][h]
        BY <1>1, <4>2
      <4> QED
        BY <3>1, <4>2, <4>3
    <3> QED
      BY <1>3, <2>1, <2>2, <3>1 DEF EnrolmentFits, p
  <2>5. StudentFits(r, i)'
    <3>1. ASSUME prog[r][k][1] = "student" PROVE Later(p, i, "enrolment", prog[r][k][2])
      <4>1. Later(prog[r], k, "enrolment", prog[r][k][2])
        BY <2>2, <3>1 DEF StudentFits
      <4>2. i \in 0 .. n + k - 1 /\ m \in Nat /\ Len(prog[r]) = m
        BY <1>2, <2>1 DEF m
      <4> QED
        BY <1>1, <1>2, <2>1, <4>1, <4>2, LaterSpliced
    <3> QED
      BY <2>1, <3>1 DEF StudentFits, p
  <2>6. UpdateFits(r, i)'
    BY <1>3, <2>1, <2>2 DEF UpdateFits, p
  <2>7. RowFits(r, i)'
    BY <1>3, <2>1, <2>2 DEF RowFits, p
  <2> QED
    BY <2>3, <2>4, <2>5, <2>6, <2>7
<1>7. ASSUME NEW i \in 1 .. n
      PROVE  /\ LookupFits(r, i)' /\ EnrolmentFits(r, i)' /\ StudentFits(r, i)'
             /\ UpdateFits(r, i)' /\ RowFits(r, i)'
  <2>1. p[i] = more[i] /\ more[i][2] = On(r) /\ i \in 1 .. n
    BY <1>1, <1>4
  <2>2. LookupFits(r, i)'
    BY <1>4, <2>1 DEF LookupFits, p
  <2>3. EnrolmentFits(r, i)'
    <3>1. ASSUME p[i][1] = "enrolment"
          PROVE  \E g \in 1 .. i - 1 : p[g][1] = "student" /\ p[g][2] = p[i][2]
      <4>1. i = 2 /\ more[1][1] = "student"
        BY <1>4, <2>1, <3>1
      <4>2. 1 \in 1 .. n /\ 1 \in 1 .. i - 1
        BY <1>2, <4>1
      <4>3. p[1] = more[1] /\ more[1][2] = On(r)
        BY <1>1, <1>4, <4>2
      <4> QED
        BY <2>1, <4>1, <4>2, <4>3
    <3> QED
      BY <3>1 DEF EnrolmentFits, p
  <2>4. StudentFits(r, i)'
    <3>1. ASSUME p[i][1] = "student" PROVE Later(p, i, "enrolment", p[i][2])
      <4>1. i = 1 /\ n = 3 /\ more[2][1] = "enrolment"
        BY <1>4, <2>1, <3>1
      <4>2. 2 \in 1 .. n /\ 2 \in i + 1 .. Len(p)
        BY <1>2, <4>1
      <4>3. p[2] = more[2] /\ more[2][2] = On(r)
        BY <1>1, <1>4, <4>2
      <4> QED
        BY <2>1, <4>1, <4>2, <4>3 DEF Later
    <3> QED
      BY <3>1 DEF StudentFits, p
  <2>5. UpdateFits(r, i)'
    BY <1>3, <1>4, <2>1 DEF UpdateFits, p
  <2>6. RowFits(r, i)'
    <3>1. ASSUME doing[r] \in Job
          PROVE  /\ p[i][1] \in {"student", "enrolment", "qr", "update", "move", "lookup"}
                 /\ <<p[i][2], p[i][3]>> \in RowsOf(doing[r])
                 /\ \A row \in RowsOf(doing[r]) : row[1] = p[i][2] => row[2] = p[i][3]
      <4>1. RowFits(r, 1) /\ prog[r][1][1] = "lookup"
        <5>1. more # << >>
          BY <2>1 DEF n
        <5> QED
          BY <1>2, <1>4, <3>1, <5>1 DEF TasksFit
      <4>2. /\ <<On(r), Stmt(r)[3]>> \in RowsOf(doing[r])
            /\ \A row \in RowsOf(doing[r]) : row[1] = On(r) => row[2] = Stmt(r)[3]
        BY <1>4, <1>5, <3>1, <4>1 DEF RowFits
      <4> QED
        BY <1>4, <2>1, <3>1, <4>2
    <3> QED
      BY <1>3, <3>1 DEF RowFits, p
  <2> QED
    BY <2>2, <2>3, <2>4, <2>5, <2>6
<1>8. \A i \in DOMAIN p : i \in 1 .. n \/ (i \in 1 .. Len(p) /\ i > n)
  BY <1>2
<1> QED
  BY <1>6, <1>7, <1>8 DEF TasksFit, p

\* Where nothing is written, what was written still fits.
LEMMA DraftOfExpansion ==
  ASSUME ImportsTyped, NEW r \in Request, DraftFits(r), UNCHANGED db,
         NEW more, Unfolds(r, more), Expands(r, more)
  PROVE  DraftFits(r)'
<1> DEFINE n == Len(more)  m == Len(prog[r])  p == prog'[r]
<1>1. /\ n \in Nat /\ m \in Nat \ {0} /\ Len(p) = n + m - 1
      /\ \A i \in 2 .. m : p[n + i - 1] = prog[r][i]
      /\ draft'[r] = draft[r]
  BY AfterExpansion
<1>2. prog[r] # << >> /\ prog[r][1][1] # "enrolment"
  BY HeadShape DEF Unfolds, Expands
<1>3. \A c : OwnNew(r, c)' <=> OwnNew(r, c)
  BY <1>1 DEF OwnNew
<1>4. ASSUME NEW c, Later(prog[r], 0, "enrolment", c) PROVE Later(p, 0, "enrolment", c)
  <2>1. Later(prog[r], 1, "enrolment", c)
    <3>1. PICK k \in 1 .. m : prog[r][k][1] = "enrolment" /\ prog[r][k][2] = c
      BY <1>4 DEF Later
    <3>2. k \in 1 + 1 .. m
      BY <1>1, <1>2, <3>1
    <3> QED
      BY <3>1, <3>2 DEF Later
  <2>2. 1 \in 1 .. m /\ 0 \in 0 .. n + 1 - 1 /\ m \in Nat
    BY <1>1
  <2> HIDE DEF n, p
  <2> QED
    BY <1>1, <2>1, <2>2, LaterSpliced
<1> HIDE DEF n, m, p
<1> QED
  BY <1>1, <1>3, <1>4 DEF DraftFits, p

\* Between the first and the last statement of an import.
LEMMA HeadUnderway ==
  ASSUME NEW r \in Request, PhaseFits(r), doing[r] \in Job, prog[r] # << >>, prog[r][1][1] # "job"
  PROVE  Underway(r) /\ Going(r)
<1>1. ~ Staged(r)
  BY DEF Staged
<1>2. ~ Settled(r)
  BY DEF Settled
<1>3. Underway(r)
  BY <1>1, <1>2 DEF PhaseFits
<1>4. prog[r][Len(prog[r])][3] = "COMPLETED"
  BY <1>3 DEF Underway
<1> QED
  BY <1>3, <1>4 DEF Going

\* A file has one row of a student.
LEMMA OnePlace ==
  ASSUME FilesFit, NEW j \in Job, NEW v \in RowsOf(j), NEW w \in RowsOf(j), v[1] = w[1]
  PROVE  v = w
  BY DEF FilesFit, RowsOf, Injective

\* A row of the file that was waited for is waited for, placed or passed over.
LEMMA RowsOfExpansion ==
  ASSUME ImportsTyped, FilesFit, NEW r \in Request, PhaseFits(r), TasksFit(r), RowsDone(r),
         UNCHANGED <<db, file, gone>>, NEW more, Unfolds(r, more), Expands(r, more)
  PROVE  RowsDone(r)'
<1> DEFINE n == Len(more)  m == Len(prog[r])  p == prog'[r]
<1>1. /\ \A i \in 1 .. n : p[i] = more[i]
      /\ \A i \in 2 .. m : p[n + i - 1] = prog[r][i]
  BY AfterExpansion
<1>2. /\ n \in Nat /\ m \in Nat \ {0} /\ Len(p) = n + m - 1 /\ DOMAIN p = 1 .. Len(p)
      /\ DOMAIN prog[r] = 1 .. m
  BY AfterExpansion DEF ImportsTyped
<1>3. /\ draft'[r] = draft[r] /\ doing'[r] = doing[r] /\ prog[r] # << >>
      /\ \A j, c : Passed(j, c)' <=> Passed(j, c)
      /\ \A c, s : Placed(r, c, s)' <=> Placed(r, c, s)
      /\ \A j : RowsOf(j)' = RowsOf(j)
  BY AfterExpansion DEF Unfolds, Passed, Orphan, Placed, Known, RowsOf
<1>4. /\ Stmt(r) = prog[r][1] /\ Stmt(r) \in Task
      /\ Stmt(r)[1] \in {"move", "lookup", "end", "revoke", "recheck", "find"}
      /\ On(r) = prog[r][1][2]
  BY <1>3, HeadShape, ExpandsSame DEF On
<1> SUFFICES ASSUME doing[r] \in Job, NEW row \in RowsOf(doing[r])
             PROVE  Awaits(r, row[1], row[2])' \/ Placed(r, row[1], row[2])
                    \/ Passed(doing[r], row[1])
  <2>1. Going(r)' => doing[r] \in Job
    BY <1>3 DEF Going
  <2>2. RowsOf(doing[r])' = RowsOf(doing[r])
    BY <1>3
  <2>3. \A row \in RowsOf(doing[r]) :
          /\ Placed(r, row[1], row[2])' <=> Placed(r, row[1], row[2])
          /\ Passed(doing[r], row[1])' <=> Passed(doing[r], row[1])
    BY <1>3
  <2> QED
    BY <2>1, <2>2, <2>3 DEF RowsDone
<1>5. Going(r)
  BY <1>3, <1>4, HeadUnderway
<1> DEFINE c == row[1]  s == row[2]  kinds == {<<"lookup", c, s>>, <<"enrolment", c, s>>, <<"move", c, s>>}
<1>6. Awaits(r, c, s) \/ Placed(r, c, s) \/ Passed(doing[r], c)
  BY <1>5 DEF RowsDone
<1>7. ASSUME NEW i \in 1 .. m, prog[r][i] \in kinds
      PROVE  (\E h \in DOMAIN p : p[h] \in kinds) \/ Passed(doing[r], c)
  <2>1. CASE i > 1
    <3>1. n + i - 1 \in DOMAIN p /\ p[n + i - 1] = prog[r][i]
      BY <1>1, <1>2, <2>1
    <3> QED
      BY <1>7, <3>1
  <2>2. CASE i = 1 /\ prog[r][1] = <<"lookup", c, s>>
    <3>1. On(r) = c /\ Stmt(r)[3] = s /\ Stmt(r)[1] = "lookup"
      BY <1>4, <2>2
    <3>2. LookupFits(r, 1) /\ RowFits(r, 1)
      BY <1>2 DEF TasksFit
    <3>3. file[doing[r]].mode # "CREATE_ONLY" /\ <<"student", c>> \notin DOMAIN draft[r]
      BY <2>2, <3>2 DEF LookupFits
    <3>4. \/ Sees(r, <<"student", c>>) # "NONE" \/ file[doing[r]].mode = "UPSERT"
          \/ Passed(doing[r], c)
      <4>1. Sees(r, <<"student", c>>) = db[<<"student", c>>]
        BY <3>3 DEF Sees
      <4>2. file[doing[r]].mode \in Mode
        BY DEF ImportsTyped
      <4> QED
        BY <3>3, <4>1, <4>2 DEF FilesFit, Known, Mode, Passed
    <3> SUFFICES ASSUME ~ Passed(doing[r], c) PROVE \E h \in DOMAIN p : p[h] \in kinds
      OBVIOUS
    <3>5. \/ more = << <<"update", c, s>>, <<"move", c, s>> >>
          \/ more = << <<"student", c, s>>, <<"enrolment", c, s>>, <<"qr", c, s>> >>
      BY <3>1, <3>4 DEF Expands
    <3>6. 2 \in 1 .. n /\ more[2] \in kinds
      <4> HIDE DEF c, s
      <4>1. CASE more = << <<"update", c, s>>, <<"move", c, s>> >>
        BY <4>1
      <4>2. CASE more = << <<"student", c, s>>, <<"enrolment", c, s>>, <<"qr", c, s>> >>
        BY <4>2
      <4> QED
        BY <3>5, <4>1, <4>2
    <3>7. 2 \in DOMAIN p /\ p[2] = more[2]
      BY <1>1, <1>2, <3>6
    <3> QED
      BY <3>6, <3>7
  <2>3. CASE i = 1 /\ prog[r][1] = <<"move", c, s>>
    <3>1. On(r) = c /\ Stmt(r)[1] = "move" /\ c \in Code
      BY <1>4, <2>3, TaskShape
    <3>2. SeatOf(r, c) = NoSeat
      BY <3>1 DEF Expands
    <3>3. Known(c)
      BY <1>2, <2>3 DEF TasksFit, UpdateFits
    <3>4. <<"enrolment", c>> \notin DOMAIN draft[r]
      <4>1. <<"enrolment", c>> \in DOMAIN draft[r] => draft[r][<<"enrolment", c>>].seat \in Seat
        BY DEF ImportsTyped, Written
      <4> QED
        BY <3>2, <4>1, ImportsAssumption DEF SeatOf, Sees
    <3> QED
      BY <3>2, <3>3, <3>4 DEF Passed, Orphan, SeatOf, Sees
  <2>4. CASE i = 1 /\ prog[r][1] = <<"enrolment", c, s>>
    BY <1>4, <2>4
  <2> QED
    BY <1>7, <2>1, <2>2, <2>3, <2>4
<1> HIDE DEF n, m, p
<1>8. Awaits(r, c, s) => \E i \in 1 .. m : prog[r][i] \in kinds
  BY <1>2 DEF Awaits
<1>9. (\E h \in DOMAIN p : p[h] \in kinds) => Awaits(r, row[1], row[2])'
  BY DEF Awaits, p
<1> QED
  BY <1>6, <1>7, <1>8, <1>9

\* What a statement writes, by its kind.
LEMMA StoresSame ==
  ASSUME ImportsTyped, NEW r \in Request, TasksFit(r), NEW k, NEW v, prog[r] # << >>,
         Stores(r, k, v)
  PROVE  /\ Stmt(r) = prog[r][1] /\ 1 \in DOMAIN prog[r] /\ Stmt(r) \in Task
         /\ Stmt(r)[1] \notin {"lookup", "revoke", "find"}
         /\ Stmt(r)[1] = "student" => k = <<"student", On(r)>> /\ Sees(r, k) = "NONE"
         /\ k[1] = "student" => k[2] = On(r) /\ Stmt(r)[1] \in {"student", "update", "status"}
         /\ Stmt(r)[1] \in {"enrolment", "move"} =>
              k = <<"enrolment", On(r)>> /\ v.seat = Stmt(r)[3]
         /\ k[1] = "enrolment" => /\ k = <<"enrolment", On(r)>>
                                  /\ Stmt(r)[1] \in {"enrolment", "move", "end"}
         /\ k[1] = "enrolment" /\ Stmt(r)[1] = "move" => SeatOf(r, On(r)) # NoSeat
         /\ k[1] = "enrolment" /\ Stmt(r)[1] = "end" => Sees(r, k).active
         /\ Stmt(r)[1] = "job" => k = <<"job", On(r)>> /\ v = Stmt(r)[3]
<1>1. Stmt(r) = prog[r][1] /\ 1 \in DOMAIN prog[r] /\ Stmt(r) \in Task
  BY HeadShape DEF ImportsTyped
<1>2. /\ Stmt(r)[1] \notin {"lookup", "revoke", "find"}
      /\ Stmt(r)[1] = "student" => k = <<"student", On(r)>> /\ Sees(r, k) = "NONE"
      /\ k[1] = "student" => k[2] = On(r) /\ Stmt(r)[1] \in {"student", "update", "status"}
  BY DEF Stores
<1>3. Stmt(r)[1] \in {"enrolment", "move"} => k = <<"enrolment", On(r)>> /\ v.seat = Stmt(r)[3]
  BY DEF Stores
<1>4. /\ k[1] = "enrolment" => /\ k = <<"enrolment", On(r)>>
                               /\ Stmt(r)[1] \in {"enrolment", "move", "end"}
      /\ k[1] = "enrolment" /\ Stmt(r)[1] = "move" => SeatOf(r, On(r)) # NoSeat
      /\ k[1] = "enrolment" /\ Stmt(r)[1] = "end" => Sees(r, k).active
      /\ Stmt(r)[1] = "job" => k = <<"job", On(r)>> /\ v = Stmt(r)[3]
  BY DEF Stores
<1> HIDE DEF Stores
<1> QED
  BY <1>1, <1>2, <1>3, <1>4

\* A program without its first statement.
LEMMA LaterShifted ==
  ASSUME NEW p, NEW q, NEW m \in Nat, Len(p) = m, Len(q) = m - 1,
         \A i \in 2 .. m : q[i - 1] = p[i],
         NEW i \in 1 .. m, NEW what, NEW c, Later(p, i, what, c)
  PROVE  Later(q, i - 1, what, c)
<1>1. PICK k \in i + 1 .. m : p[k][1] = what /\ p[k][2] = c
  BY DEF Later
<1>2. k - 1 \in i - 1 + 1 .. Len(q) /\ k \in 2 .. m
  OBVIOUS
<1>3. q[k - 1] = p[k]
  BY <1>2
<1> QED
  BY <1>1, <1>2, <1>3 DEF Later

\* The statements that are left find what they rely on after a write.
LEMMA TasksOfWrite ==
  ASSUME ImportsTyped, NEW r \in Request, TasksFit(r), UNCHANGED <<db, file>>, prog[r] # << >>,
         NEW k, NEW v, SetRow(r, k, v), Stores(r, k, v)
  PROVE  TasksFit(r)'
<1> DEFINE m == Len(prog[r])  p == prog'[r]
<1>1. /\ \A i \in 2 .. m : p[i - 1] = prog[r][i]
      /\ \A i \in 1 .. Len(p) : p[i] = prog[r][i + 1]
  BY AfterWrite
<1>2. /\ m \in Nat \ {0} /\ Len(p) = m - 1 /\ DOMAIN p = 1 .. Len(p) /\ DOMAIN prog[r] = 1 .. m
  BY AfterWrite DEF ImportsTyped
<1>3. /\ doing'[r] = doing[r] /\ DOMAIN draft'[r] = DOMAIN draft[r] \cup {k}
      /\ \A c : OwnNew(r, c) => OwnNew(r, c)'
      /\ \A c : Known(c)' <=> Known(c)
      /\ \A j : RowsOf(j)' = RowsOf(j)
  BY AfterWrite DEF OwnNew, Known, RowsOf
<1>4. /\ Stmt(r) = prog[r][1] /\ 1 \in 1 .. m /\ On(r) = prog[r][1][2]
      /\ Stmt(r)[1] = "student" => k = <<"student", On(r)>> /\ Sees(r, k) = "NONE"
      /\ k[1] = "student" => k[2] = On(r) /\ Stmt(r)[1] # "job"
  BY <1>2, StoresSame DEF On
<1>5. Stmt(r)[1] = "student" => \A c : c = On(r) => OwnNew(r, c)'
  <2>1. ASSUME Stmt(r)[1] = "student" PROVE db[k] = "NONE"
    <3>1. k[1] = "student" /\ Sees(r, k) = "NONE"
      BY <1>4, <2>1
    <3>2. k \notin DOMAIN draft[r]
      BY <3>1 DEF Sees, ImportsTyped, Written
    <3> QED
      BY <3>1, <3>2 DEF Sees
  <2> QED
    <3>1. ASSUME Stmt(r)[1] = "student", NEW c, c = On(r) PROVE OwnNew(r, c)'
      <4>1. k = <<"student", c>> /\ db[k] = "NONE"
        BY <1>4, <2>1, <3>1
      <4>2. k \in DOMAIN draft'[r] /\ db'[k] = "NONE"
        BY <1>3, <4>1
      <4> QED
        BY <4>1, <4>2 DEF OwnNew
    <3> QED
      BY <3>1
<1> HIDE DEF m, p
<1>6. ASSUME NEW i \in 1 .. Len(p)
      PROVE  /\ LookupFits(r, i)' /\ EnrolmentFits(r, i)' /\ StudentFits(r, i)'
             /\ UpdateFits(r, i)' /\ RowFits(r, i)'
  <2> DEFINE g == i + 1
  <2>1. g \in 2 .. m /\ g \in 1 .. m /\ p[i] = prog[r][g] /\ i = g - 1
    BY <1>1, <1>2
  <2>2. /\ LookupFits(r, g) /\ EnrolmentFits(r, g) /\ StudentFits(r, g)
        /\ UpdateFits(r, g) /\ RowFits(r, g)
    BY <1>2, <2>1 DEF TasksFit
  <2> HIDE DEF g
  <2>3. LookupFits(r, i)'
    <3>1. ASSUME prog[r][g][1] = "lookup", NEW h \in 1 .. Len(p), h # i, p[h][1] # "job"
          PROVE  p[h][2] # prog[r][g][2]
      <4>1. h + 1 \in 1 .. m /\ h + 1 # g /\ p[h] = prog[r][h + 1]
        BY <1>1, <1>2, <2>1, <3>1
      <4> QED
        BY <1>2, <2>2, <3>1, <4>1 DEF LookupFits
    <3>2. ASSUME prog[r][g][1] = "lookup", k = <<"student", prog[r][g][2]>> PROVE FALSE
      <4>1. On(r) = prog[r][g][2] /\ prog[r][1][1] # "job"
        BY <1>4, <3>2
      <4>2. 1 # g
        BY <2>1
      <4> QED
        BY <1>2, <1>4, <2>2, <3>2, <4>1, <4>2 DEF LookupFits
    <3> QED
      BY <1>2, <1>3, <2>1, <2>2, <3>1, <3>2 DEF LookupFits, p
  <2>4. EnrolmentFits(r, i)'
    <3> DEFINE c == prog[r][g][2]
    <3>1. ASSUME NEW h \in 1 .. g - 1, prog[r][h][1] = "student", prog[r][h][2] = c
          PROVE  \/ <<"student", c>> \in DOMAIN draft'[r] /\ db'[<<"student", c>>] = "NONE"
                 \/ \E f \in 1 .. i - 1 : p[f][1] = "student" /\ p[f][2] = c
      <4>1. CASE h = 1
        <5>1. Stmt(r)[1] = "student" /\ c = On(r)
          BY <1>4, <3>1, <4>1
        <5> HIDE DEF c
        <5> QED
          BY <1>5, <5>1 DEF OwnNew
      <4>2. CASE h # 1
        <5>1. h \in 2 .. m /\ h - 1 \in 1 .. i - 1
          BY <1>2, <2>1, <4>2
        <5>2. p[h - 1] = prog[r][h]
          BY <1>1, <5>1
        <5> QED
          BY <3>1, <5>1, <5>2
      <4> QED
        BY <4>1, <4>2
    <3>2. ASSUME OwnNew(r, c)
          PROVE  <<"student", c>> \in DOMAIN draft'[r] /\ db'[<<"student", c>>] = "NONE"
      BY <1>3, <3>2 DEF OwnNew
    <3>3. prog[r][g][1] = "enrolment" =>
            \/ <<"student", c>> \in DOMAIN draft'[r] /\ db'[<<"student", c>>] = "NONE"
            \/ \E f \in 1 .. i - 1 : p[f][1] = "student" /\ p[f][2] = c
      BY <2>2, <3>1, <3>2 DEF EnrolmentFits
    <3> QED
      BY <2>1, <3>3 DEF EnrolmentFits, OwnNew, p
  <2>5. StudentFits(r, i)'
    <3>1. ASSUME prog[r][g][1] = "student" PROVE Later(p, i, "enrolment", prog[r][g][2])
      <4>1. Later(prog[r], g, "enrolment", prog[r][g][2])
        BY <2>2, <3>1 DEF StudentFits
      <4>2. m \in Nat /\ Len(prog[r]) = m /\ Len(p) = m - 1
        BY <1>2 DEF m
      <4>3. Later(p, g - 1, "enrolment", prog[r][g][2])
        BY <1>1, <2>1, <4>1, <4>2, LaterShifted
      <4> QED
        BY <2>1, <4>3
    <3> QED
      BY <2>1, <3>1 DEF StudentFits, p
  <2>6. UpdateFits(r, i)'
    BY <1>3, <2>1, <2>2 DEF UpdateFits, p
  <2>7. RowFits(r, i)'
    BY <1>3, <2>1, <2>2 DEF RowFits, p
  <2> QED
    BY <2>3, <2>4, <2>5, <2>6, <2>7
<1> QED
  BY <1>2, <1>6 DEF TasksFit, p

\* A student a transaction makes is placed by it or by a statement it has left.
LEMMA DraftOfWrite ==
  ASSUME ImportsTyped, TableFits, NEW r \in Request, TasksFit(r), DraftFits(r), UNCHANGED db,
         prog[r] # << >>, NEW k, NEW v, SetRow(r, k, v), Stores(r, k, v)
  PROVE  DraftFits(r)'
<1> DEFINE m == Len(prog[r])  p == prog'[r]
<1>1. /\ m \in Nat \ {0} /\ Len(p) = m - 1
      /\ \A i \in 2 .. m : p[i - 1] = prog[r][i]
      /\ DOMAIN draft'[r] = DOMAIN draft[r] \cup {k}
      /\ \A c : OwnNew(r, c) => OwnNew(r, c)'
  BY AfterWrite DEF OwnNew
<1>2. /\ Stmt(r) = prog[r][1] /\ 1 \in DOMAIN prog[r] /\ On(r) = prog[r][1][2]
      /\ Stmt(r)[1] = "student" => k = <<"student", On(r)>>
      /\ k[1] = "student" => k[2] = On(r) /\ Stmt(r)[1] \in {"student", "update", "status"}
      /\ Stmt(r)[1] = "enrolment" => k = <<"enrolment", On(r)>>
      /\ k[1] = "enrolment" => /\ k = <<"enrolment", On(r)>>
                               /\ Stmt(r)[1] \in {"enrolment", "move", "end"}
      /\ k[1] = "enrolment" /\ Stmt(r)[1] = "move" => SeatOf(r, On(r)) # NoSeat
      /\ k[1] = "enrolment" /\ Stmt(r)[1] = "end" => Sees(r, k).active
  BY StoresSame DEF On
<1> HIDE DEF m, p
<1>3. ASSUME NEW c, Later(prog[r], 1, "enrolment", c) PROVE Later(p, 0, "enrolment", c)
  <2>1. 1 \in 1 .. m /\ m \in Nat /\ Len(prog[r]) = m
    BY <1>1 DEF m
  <2>2. Later(p, 1 - 1, "enrolment", c)
    BY <1>1, <1>3, <2>1, LaterShifted
  <2> QED
    BY <2>2
<1>4. ASSUME NEW c, Later(prog[r], 0, "enrolment", c)
      PROVE  k = <<"enrolment", c>> \/ Later(p, 0, "enrolment", c)
  <2>1. PICK h \in 1 .. m : prog[r][h][1] = "enrolment" /\ prog[r][h][2] = c
    BY <1>4 DEF Later, m
  <2>2. CASE h = 1
    BY <1>2, <2>1, <2>2
  <2>3. CASE h # 1
    <3>1. h \in 1 + 1 .. Len(prog[r])
      BY <1>1, <2>3 DEF m
    <3>2. Later(prog[r], 1, "enrolment", c)
      BY <2>1, <3>1 DEF Later
    <3> QED
      BY <1>3, <3>2
  <2> QED
    BY <2>2, <2>3
<1>5. ASSUME NEW c \in Code, OwnNew(r, c)'
      PROVE  <<"enrolment", c>> \in DOMAIN draft'[r] \/ Later(p, 0, "enrolment", c)
  <2>1. CASE OwnNew(r, c)
    BY <1>1, <1>4, <2>1 DEF DraftFits
  <2>2. CASE ~ OwnNew(r, c)
    <3>1. k = <<"student", c>> /\ ~ Known(c)
      BY <1>1, <1>5, <2>2 DEF OwnNew, Known
    <3>2. c = On(r) /\ Stmt(r)[1] \in {"student", "update", "status"}
      BY <1>2, <3>1
    <3>3. Stmt(r)[1] = "student"
      BY <1>2, <3>1, <3>2 DEF TasksFit, UpdateFits
    <3>4. Later(prog[r], 1, "enrolment", c)
      BY <1>2, <3>2, <3>3 DEF TasksFit, StudentFits
    <3> QED
      BY <1>3, <3>4
  <2> QED
    BY <2>1, <2>2
<1>6. ASSUME NEW c \in Code, <<"enrolment", c>> \in DOMAIN draft'[r]
      PROVE  db[<<"enrolment", c>>].seat # NoSeat \/ OwnNew(r, c)
  <2>1. CASE <<"enrolment", c>> \in DOMAIN draft[r]
    BY <2>1 DEF DraftFits
  <2>2. CASE <<"enrolment", c>> \notin DOMAIN draft[r]
    <3>1. k = <<"enrolment", c>> /\ c = On(r)
      BY <1>1, <1>2, <1>6, <2>2
    <3>2. Sees(r, k) = db[<<"enrolment", c>>] /\ SeatOf(r, c) = db[<<"enrolment", c>>].seat
      BY <2>2, <3>1 DEF Sees, SeatOf
    <3>3. CASE Stmt(r)[1] = "enrolment"
      <4>1. EnrolmentFits(r, 1)
        BY <1>2 DEF TasksFit
      <4> QED
        BY <1>2, <3>1, <3>3, <4>1 DEF EnrolmentFits
    <3>4. CASE Stmt(r)[1] = "move"
      BY <1>2, <3>1, <3>2, <3>4
    <3>5. CASE Stmt(r)[1] = "end"
      BY <1>2, <3>1, <3>2, <3>5 DEF TableFits
    <3> QED
      BY <1>2, <3>1, <3>3, <3>4, <3>5
  <2> QED
    BY <2>1, <2>2
<1> QED
  BY <1>1, <1>5, <1>6 DEF DraftFits, p

\* A write moves a row of the file towards its place.
LEMMA RowsOfWrite ==
  ASSUME ImportsTyped, FilesFit, NEW r \in Request, PhaseFits(r), TasksFit(r), RowsDone(r),
         UNCHANGED <<db, file, gone>>, prog[r] # << >>, NEW k, NEW v, SetRow(r, k, v), Stores(r, k, v)
  PROVE  RowsDone(r)'
<1> DEFINE m == Len(prog[r])  p == prog'[r]
<1>1. /\ m \in Nat \ {0} /\ Len(p) = m - 1 /\ DOMAIN p = 1 .. Len(p) /\ DOMAIN prog[r] = 1 .. m
      /\ \A i \in 2 .. m : p[i - 1] = prog[r][i]
  BY AfterWrite DEF ImportsTyped
<1>2. /\ doing'[r] = doing[r] /\ DOMAIN draft'[r] = DOMAIN draft[r] \cup {k} /\ draft'[r][k] = v
      /\ \A i \in DOMAIN draft[r] \ {k} : draft'[r][i] = draft[r][i]
      /\ \A j, c : Passed(j, c)' <=> Passed(j, c)
      /\ \A j : RowsOf(j)' = RowsOf(j)
  BY AfterWrite DEF Passed, Orphan, Known, RowsOf
<1>3. /\ Stmt(r) = prog[r][1] /\ 1 \in DOMAIN prog[r] /\ On(r) = prog[r][1][2] /\ Stmt(r) \in Task
      /\ Stmt(r)[1] # "lookup"
      /\ Stmt(r)[1] \in {"enrolment", "move"} =>
           k = <<"enrolment", On(r)>> /\ v.seat = Stmt(r)[3]
      /\ k[1] = "enrolment" => /\ k = <<"enrolment", On(r)>>
                               /\ Stmt(r)[1] \in {"enrolment", "move", "end"}
      /\ Stmt(r)[1] = "job" => k = <<"job", On(r)>> /\ v = Stmt(r)[3]
  BY StoresSame DEF On
<1> HIDE DEF m, p
<1>4. ASSUME Going(r)' PROVE Going(r)
  <2>1. doing[r] \in Job
    BY <1>2, <1>4 DEF Going
  <2>2. CASE Stmt(r)[1] # "job"
    BY <1>3, <2>1, <2>2, HeadUnderway
  <2>3. CASE Underway(r)
    BY <2>1, <2>3 DEF Underway, Going
  <2>4. CASE Staged(r) /\ m > 1
    <3>1. prog[r][Len(prog[r])][3] = "COMPLETED"
      BY <2>4 DEF Staged, m
    <3> QED
      BY <2>1, <3>1 DEF Going
  <2>5. CASE Staged(r) /\ m = 1
    <3>1. prog[r][1] = <<"job", doing[r], "FAILED">>
      BY <2>5 DEF Staged, m
    <3>2. v = "FAILED" /\ k = <<"job", doing[r]>>
      BY <1>3, <3>1
    <3>3. draft'[r][<<"job", doing[r]>>] = "FAILED" /\ prog'[r] = << >>
      BY <1>1, <1>2, <2>5, <3>2, AfterWrite DEF p
    <3> QED
      BY <1>2, <1>4, <3>3 DEF Going, Has, JobRow
  <2> QED
    BY <1>1, <2>1, <2>2, <2>3, <2>4, <2>5 DEF PhaseFits, Settled
<1>5. ASSUME Going(r), NEW row \in RowsOf(doing[r])
      PROVE  Awaits(r, row[1], row[2])' \/ Placed(r, row[1], row[2])'
             \/ Passed(doing[r], row[1])
  <2> DEFINE c == row[1]  s == row[2]
             kinds == {<<"lookup", c, s>>, <<"enrolment", c, s>>, <<"move", c, s>>}
  <2>1. Awaits(r, c, s) \/ Placed(r, c, s) \/ Passed(doing[r], c)
    BY <1>5 DEF RowsDone
  <2>2. row = <<c, s>>
    <3>1. doing[r] \in Job /\ file[doing[r]].rows \in Seq(Row)
      BY <1>5 DEF Going, ImportsTyped
    <3>2. row \in Row
      BY <1>5, <3>1 DEF RowsOf
    <3> QED
      BY <3>2 DEF Row
  <2> HIDE DEF c, s
  <2>3. ASSUME NEW i \in 1 .. m, prog[r][i] \in kinds
        PROVE  (\E h \in DOMAIN p : p[h] \in kinds) \/ Placed(r, c, s)'
    <3>1. CASE i > 1
      <4>1. i - 1 \in DOMAIN p /\ p[i - 1] = prog[r][i]
        BY <1>1, <3>1
      <4> QED
        BY <2>3, <4>1
    <3>2. CASE i = 1
      <4>1. Stmt(r)[1] \in {"enrolment", "move"} /\ On(r) = c /\ Stmt(r)[3] = s
        BY <1>3, <2>3, <3>2
      <4>2. k = <<"enrolment", c>> /\ v.seat = s
        BY <1>3, <4>1
      <4> QED
        BY <1>2, <4>2 DEF Placed
    <3> QED
      BY <3>1, <3>2
  <2>4. ASSUME Placed(r, c, s) PROVE Placed(r, c, s)'
    <3>1. CASE k = <<"enrolment", c>>
      <4>1. Stmt(r)[1] \in {"enrolment", "move", "end"} /\ On(r) = c
        BY <1>3, <3>1
      <4>2. RowFits(r, 1) /\ doing[r] \in Job
        BY <1>3, <1>5 DEF TasksFit, Going
      <4>3. Stmt(r)[1] # "end" /\ row[2] = Stmt(r)[3]
        BY <1>3, <1>5, <4>1, <4>2 DEF RowFits, c
      <4>4. v.seat = s
        BY <1>3, <4>1, <4>3 DEF s
      <4> QED
        BY <1>2, <3>1, <4>4 DEF Placed
    <3>2. CASE k # <<"enrolment", c>>
      BY <1>2, <2>4, <3>2 DEF Placed
    <3> QED
      BY <3>1, <3>2
  <2>5. Awaits(r, c, s) => \E i \in 1 .. m : prog[r][i] \in kinds
    BY <1>1 DEF Awaits
  <2>6. (\E h \in DOMAIN p : p[h] \in kinds) => Awaits(r, c, s)'
    BY DEF Awaits, p
  <2> QED
    BY <2>1, <2>3, <2>4, <2>5, <2>6 DEF c, s
<1> QED
  <2>1. Going(r)' => Going(r) /\ RowsOf(doing[r])' = RowsOf(doing[r])
    BY <1>2, <1>4
  <2>2. \A row \in RowsOf(doing[r]) : Passed(doing[r], row[1])' <=> Passed(doing[r], row[1])
    BY <1>2
  <2> QED
    BY <1>5, <2>1, <2>2 DEF RowsDone

-----------------------------------------------------------------------------
(* Requests that fit go on fitting *)

\* A request that takes no step fits as long as the tables lose nothing it relies on.
LEMMA FitsStays ==
  ASSUME ImportsTyped, NEW q \in Request, RequestFits(q),
         prog'[q] = prog[q], draft'[q] = draft[q], doing'[q] = doing[q],
         \A c \in Code : Known(c) => Known(c)',
         \A c \in Code : <<"student", c>> \in DOMAIN draft[q] =>
           db'[<<"student", c>>] = db[<<"student", c>>],
         \A c \in Code : db[<<"enrolment", c>>].seat # NoSeat =>
           db'[<<"enrolment", c>>].seat # NoSeat,
         \A c \in Code : Orphan(c) => Orphan(c)', gone \subseteq gone',
         doing[q] \in Job => file'[doing[q]] = file[doing[q]]
  PROVE  RequestFits(q)'
<1>1. PhaseFits(q)'
  BY DEF RequestFits, PhaseFits, Staged, Underway, Settled, Has, JobRow
<1>2. QrFits(q)'
  BY DEF RequestFits, QrFits, Later
<1>3. ASSUME NEW c \in Code PROVE OwnNew(q, c)' <=> OwnNew(q, c)
  BY DEF OwnNew
<1>4. DraftFits(q)'
  <2>1. ASSUME NEW c \in Code
        PROVE  /\ OwnNew(q, c)' => \/ <<"enrolment", c>> \in DOMAIN draft'[q]
                                   \/ Later(prog'[q], 0, "enrolment", c)
               /\ <<"enrolment", c>> \in DOMAIN draft'[q] =>
                    db'[<<"enrolment", c>>].seat # NoSeat \/ OwnNew(q, c)'
    BY <1>3 DEF RequestFits, DraftFits
  <2> QED
    BY <2>1 DEF DraftFits
<1>5. ASSUME doing[q] \in Job PROVE RowsOf(doing[q])' = RowsOf(doing[q])
  BY <1>5 DEF RowsOf
<1>6. ASSUME NEW i \in DOMAIN prog[q]
      PROVE  /\ LookupFits(q, i)' /\ EnrolmentFits(q, i)' /\ StudentFits(q, i)'
             /\ UpdateFits(q, i)' /\ RowFits(q, i)'
  <2>1. /\ LookupFits(q, i) /\ EnrolmentFits(q, i) /\ StudentFits(q, i)
        /\ UpdateFits(q, i) /\ RowFits(q, i)
    BY DEF RequestFits, TasksFit
  <2>2. prog[q][i] \in Task
    BY DEF ImportsTyped
  <2>3. prog[q][i][1] # "job" => prog[q][i][2] \in Code
    BY <2>2, TaskShape
  <2>4. LookupFits(q, i)'
    BY <2>1 DEF LookupFits
  <2>5. EnrolmentFits(q, i)'
    <3>1. prog[q][i][1] = "enrolment" => (OwnNew(q, prog[q][i][2]) => OwnNew(q, prog[q][i][2])')
      BY <2>3 DEF OwnNew
    <3> QED
      BY <2>1, <3>1 DEF EnrolmentFits, OwnNew
  <2>6. StudentFits(q, i)'
    BY <2>1 DEF StudentFits, Later
  <2>7. UpdateFits(q, i)'
    BY <2>1, <2>3 DEF UpdateFits, Known
  <2>8. RowFits(q, i)'
    BY <1>5, <2>1 DEF RowFits
  <2> QED
    BY <2>4, <2>5, <2>6, <2>7, <2>8
<1>7. TasksFit(q)'
  BY <1>6 DEF TasksFit
<1>8. RowsDone(q)'
  <2>1. Going(q)' <=> Going(q)
    BY DEF Going, Has, JobRow
  <2>2. ASSUME Going(q), NEW row \in RowsOf(doing[q])
        PROVE  Awaits(q, row[1], row[2])' \/ Placed(q, row[1], row[2])'
               \/ Passed(doing[q], row[1])'
    <3>1. row[1] \in Code
      <4>1. doing[q] \in Job /\ file[doing[q]].rows \in Seq(Row)
        BY <2>2 DEF Going, ImportsTyped
      <4>2. row \in Row
        BY <2>2, <4>1 DEF RowsOf
      <4> QED
        BY <4>2 DEF Row
    <3>2. Awaits(q, row[1], row[2]) => Awaits(q, row[1], row[2])'
      BY DEF Awaits
    <3>3. Placed(q, row[1], row[2]) => Placed(q, row[1], row[2])'
      BY DEF Placed
    <3>4. Passed(doing[q], row[1]) => Passed(doing[q], row[1])'
      BY <3>1 DEF Passed
    <3> QED
      BY <2>2, <3>2, <3>3, <3>4 DEF RequestFits, RowsDone
  <2>3. Going(q) => doing[q] \in Job
    BY DEF Going
  <2> QED
    BY <1>5, <2>1, <2>2, <2>3 DEF RowsDone
<1> QED
  BY <1>1, <1>2, <1>4, <1>7, <1>8 DEF RequestFits

\* A request at rest fits.
LEMMA FitsIdle ==
  ASSUME NEW r \in Request, prog'[r] = << >>, draft'[r] = << >>, doing'[r] = "idle"
  PROVE  RequestFits(r)'
<1>1. "idle" \notin Job
  BY ImportsAssumption DEF Kind
<1>2. DOMAIN prog'[r] = {} /\ DOMAIN draft'[r] = {}
  OBVIOUS
<1>3. PhaseFits(r)'
  BY <1>1, <1>2 DEF PhaseFits
<1>4. QrFits(r)'
  BY <1>2 DEF QrFits
<1>5. TasksFit(r)'
  BY <1>2 DEF TasksFit
<1>6. DraftFits(r)'
  BY <1>2 DEF DraftFits, OwnNew
<1>7. RowsDone(r)'
  BY <1>1 DEF RowsDone, Going
<1> QED
  BY <1>3, <1>4, <1>5, <1>6, <1>7 DEF RequestFits

\* An import that has gone back to its savepoint fits.
LEMMA FitsFailed ==
  ASSUME NEW r \in Request, doing[r] \in Job, doing'[r] = doing[r], prog'[r] = << >>,
         draft'[r] = [k \in {JobRow(r)} |-> "FAILED"]
  PROVE  RequestFits(r)'
<1>1. /\ DOMAIN prog'[r] = {} /\ DOMAIN draft'[r] = {<<"job", doing'[r]>>}
      /\ draft'[r][<<"job", doing'[r]>>] = "FAILED"
  BY DEF JobRow
<1>2. doing[r] \notin {"idle"}
  BY ImportsAssumption DEF Kind
<1>3. PhaseFits(r)'
  <2>1. Settled(r)'
    BY <1>1 DEF Settled, Has, JobRow
  <2>2. \A k \in DOMAIN draft'[r] : k[1] = "job" => k = <<"job", doing'[r]>>
    BY <1>1
  <2> QED
    BY <1>2, <2>1, <2>2 DEF PhaseFits, JobRow
<1>4. QrFits(r)'
  <2>1. \A c \in Code : <<"qr", c>> \notin DOMAIN draft'[r]
    BY <1>1
  <2> QED
    BY <1>1, <2>1 DEF QrFits
<1>5. TasksFit(r)'
  BY <1>1 DEF TasksFit
<1>6. DraftFits(r)'
  <2>1. \A c \in Code : <<"student", c>> \notin DOMAIN draft'[r] /\ <<"enrolment", c>> \notin DOMAIN draft'[r]
    BY <1>1
  <2> QED
    BY <2>1 DEF DraftFits, OwnNew
<1>7. RowsDone(r)'
  <2>1. ~ Going(r)'
    BY <1>1 DEF Going, Has, JobRow
  <2> QED
    BY <2>1 DEF RowsDone
<1> QED
  BY <1>3, <1>4, <1>5, <1>6, <1>7 DEF RequestFits

-----------------------------------------------------------------------------
(* The programs of the requests *)

\* The statements of p come in the order the requests rely on.
Ordered(kind, p) ==
  \A i \in DOMAIN p :
    /\ p[i][1] \notin {"job", "lookup"}
    /\ p[i][1] = "enrolment" =>
         \E k \in 1 .. i - 1 : p[k][1] = "student" /\ p[k][2] = p[i][2]
    /\ p[i][1] = "student" => Later(p, i, "enrolment", p[i][2])
    /\ p[i][1] \in {"update", "move", "status"} => Known(p[i][2])
    /\ kind # "revocation" /\ p[i][1] \in {"revoke", "recheck"} => Later(p, i, "qr", p[i][2])

\* A request that is not an import fits as it begins.
LEMMA FitsBegins ==
  ASSUME ImportsTyped, NEW r \in Request, RequestFits(r), doing[r] = "idle",
         NEW kind \in Kind \ {"idle"}, NEW p \in Seq(Task), Ordered(kind, p),
         prog'[r] = p, doing'[r] = kind, UNCHANGED <<db, draft>>
  PROVE  RequestFits(r)'
<1>1. kind \notin Job /\ DOMAIN draft'[r] = {} /\ DOMAIN draft[r] = {}
  BY ImportsAssumption DEF RequestFits, PhaseFits
<1>2. PhaseFits(r)'
  BY <1>1 DEF PhaseFits, Ordered
<1>3. QrFits(r)'
  BY <1>1 DEF QrFits, Ordered
<1>4. TasksFit(r)'
  <2>1. ASSUME NEW i \in DOMAIN p
        PROVE  /\ LookupFits(r, i)' /\ EnrolmentFits(r, i)' /\ StudentFits(r, i)'
               /\ UpdateFits(r, i)' /\ RowFits(r, i)'
    <3>1. LookupFits(r, i)'
      BY DEF LookupFits, Ordered
    <3>2. EnrolmentFits(r, i)'
      BY DEF EnrolmentFits, Ordered
    <3>3. StudentFits(r, i)'
      BY DEF StudentFits, Ordered
    <3>4. UpdateFits(r, i)'
      BY DEF UpdateFits, Ordered, Known
    <3>5. RowFits(r, i)'
      BY <1>1 DEF RowFits
    <3> QED
      BY <3>1, <3>2, <3>3, <3>4, <3>5
  <2> QED
    BY <2>1 DEF TasksFit
<1>5. DraftFits(r)'
  BY <1>1 DEF DraftFits, OwnNew
<1>6. RowsDone(r)'
  BY <1>1 DEF RowsDone, Going
<1> QED
  BY <1>2, <1>3, <1>4, <1>5, <1>6 DEF RequestFits

\* What a request that is not an import runs.
Programs(kind, p) == kind \in Kind \ {"idle"} /\ p \in Seq(Task) /\ Ordered(kind, p)

\* Programs of one statement.
LEMMA OneStatement ==
  ASSUME NEW kind \in Kind \ {"idle"}, NEW t \in Task,
         \/ t[1] = "qr"
         \/ t[1] = "status" /\ Known(t[2])
         \/ t[1] = "revoke" /\ kind = "revocation"
  PROVE  Programs(kind, << t >>)
<1> DEFINE p == << t >>
<1>1. p \in Seq(Task) /\ DOMAIN p = {1} /\ p[1] = t
  OBVIOUS
<1> HIDE DEF p
<1>2. Ordered(kind, p)
  BY <1>1 DEF Ordered
<1> QED
  BY <1>1, <1>2 DEF Programs, p

\* Programs of two statements.
LEMMA TwoStatements ==
  ASSUME NEW kind \in Kind \ {"idle"}, NEW t \in Task, NEW u \in Task, t[2] = u[2],
         \/ t[1] = "student" /\ u[1] = "enrolment"
         \/ t[1] = "status" /\ u[1] = "end" /\ Known(t[2])
         \/ t[1] = "revoke" /\ u[1] = "qr"
  PROVE  Programs(kind, << t, u >>)
<1> DEFINE p == << t, u >>
<1>1. p \in Seq(Task) /\ DOMAIN p = {1, 2} /\ p[1] = t /\ p[2] = u /\ Len(p) = 2
  OBVIOUS
<1> HIDE DEF p
<1>2. 1 \in 1 .. 2 - 1 /\ 2 \in 1 + 1 .. 2
  OBVIOUS
<1>3. \A what : u[1] = what => Later(p, 1, what, t[2])
  BY <1>1, <1>2 DEF Later
<1>4. u[1] = "enrolment" => \E k \in 1 .. 2 - 1 : p[k][1] = "student" /\ p[k][2] = u[2]
  BY <1>1, <1>2
<1>5. Ordered(kind, p)
  BY <1>1, <1>3, <1>4 DEF Ordered
<1> QED
  BY <1>1, <1>5 DEF Programs, p

\* A batch of cards.
LEMMA BatchProgram ==
  ASSUME NEW order \in SetToSeqs(ActiveRoster), NEW reissueAll \in BOOLEAN
  PROVE  Programs("badges", [i \in DOMAIN order |-> <<"find", order[i], reissueAll>>])
<1> DEFINE p == [i \in DOMAIN order |-> <<"find", order[i], reissueAll>>]
<1>1. IsFiniteSet(ActiveRoster)
  <2>1. ActiveRoster \subseteq Code
    BY DEF ActiveRoster
  <2> QED
    BY <2>1, ImportsAssumption, FS_Subset
<1>2. Cardinality(ActiveRoster) \in Nat
  BY <1>1, FS_CardinalityType
<1>3. order \in [1 .. Cardinality(ActiveRoster) -> Code]
  BY DEF SetToSeqs, ActiveRoster
<1>4. \A i \in DOMAIN order : <<"find", order[i], reissueAll>> \in Task
  BY <1>3 DEF Task
<1>5. p \in [1 .. Cardinality(ActiveRoster) -> Task]
  BY <1>3, <1>4
<1>6. p \in Seq(Task) /\ \A i \in DOMAIN p : p[i][1] = "find"
  BY <1>2, <1>5
<1> HIDE DEF p
<1>7. Ordered("badges", p)
  BY <1>6 DEF Ordered
<1> QED
  BY <1>6, <1>7 DEF Programs, p, Kind

\* Two statements per row: which row a statement belongs to.
LEMMA Halves ==
  /\ \A n \in Nat : \A i \in 1 .. 2 * n :
       (i + 1) \div 2 \in 1 .. n /\ (i % 2 = 0 \/ i % 2 = 1)
  /\ \A n \in Nat : \A i \in 1 .. 2 * n :
       i % 2 = 1 => i + 1 \in 1 .. 2 * n /\ (i + 1) % 2 = 0 /\ (i + 1 + 1) \div 2 = (i + 1) \div 2
  /\ \A n \in Nat : \A i \in 1 .. 2 * n :
       i % 2 = 0 => i - 1 \in 1 .. 2 * n /\ (i - 1) % 2 = 1 /\ (i - 1 + 1) \div 2 = (i + 1) \div 2
  OBVIOUS

\* The rows of a file.
LEMMA FileShape ==
  ASSUME NEW rows \in Files
  PROVE  /\ rows \in Seq(Row) /\ Len(rows) \in Nat \ {0} /\ DOMAIN rows = 1 .. Len(rows)
         /\ Injective(rows, 1)
<1>1. Cardinality(Code) \in Nat
  BY ImportsAssumption, FS_CardinalityType
<1>2. PICK n \in 1 .. Cardinality(Code) : rows \in [1 .. n -> Row]
  BY DEF Files
<1>3. n \in Nat \ {0}
  BY <1>1
<1>4. rows \in Seq(Row) /\ Len(rows) = n
  BY <1>2, <1>3
<1> QED
  BY <1>2, <1>3, <1>4 DEF Files

\* The students of the setup wizard.
LEMMA RosterProgram ==
  ASSUME NEW rows \in Files
  PROVE  Programs("staff", [i \in 1 .. 2 * Len(rows) |->
           LET row == rows[(i + 1) \div 2] IN
             <<IF i % 2 = 1 THEN "student" ELSE "enrolment", row[1], row[2]>>])
<1> DEFINE n == Len(rows)
           p == [i \in 1 .. 2 * n |->
                   LET row == rows[(i + 1) \div 2] IN
                     <<IF i % 2 = 1 THEN "student" ELSE "enrolment", row[1], row[2]>>]
<1>1. rows \in Seq(Row) /\ n \in Nat
  BY FileShape
<1>2. \A i \in 1 .. 2 * n : (i + 1) \div 2 \in 1 .. n
  BY <1>1, Halves
<1>3. \A i \in 1 .. 2 * n : rows[(i + 1) \div 2] \in Row
  BY <1>1, <1>2
<1>4. \A i \in 1 .. 2 * n :
        p[i] = <<IF i % 2 = 1 THEN "student" ELSE "enrolment",
                 rows[(i + 1) \div 2][1], rows[(i + 1) \div 2][2]>>
  OBVIOUS
<1>5. DOMAIN p = 1 .. 2 * n
  OBVIOUS
<1> HIDE DEF p, n
<1>6. \A i \in 1 .. 2 * n : p[i] \in Task
  <2>1. ASSUME NEW i \in 1 .. 2 * n, NEW row \in Row
        PROVE  <<IF i % 2 = 1 THEN "student" ELSE "enrolment", row[1], row[2]>> \in Task
    BY DEF Task, Row
  <2> QED
    BY <1>3, <1>4, <2>1
<1>7. p \in Seq(Task) /\ Len(p) = 2 * n
  <2>1. 2 * n \in Nat
    BY <1>1
  <2>2. p \in [1 .. 2 * n -> Task]
    BY <1>5, <1>6 DEF p
  <2> QED
    BY <2>1, <2>2
<1>8. Ordered("staff", p)
  <2>1. ASSUME NEW i \in 1 .. 2 * n, p[i][1] = "enrolment"
        PROVE  \E k \in 1 .. i - 1 : p[k][1] = "student" /\ p[k][2] = p[i][2]
    <3>1. i % 2 = 0
      BY <1>1, <1>4, <2>1, Halves
    <3>2. i - 1 \in 1 .. 2 * n /\ (i - 1) % 2 = 1 /\ (i - 1 + 1) \div 2 = (i + 1) \div 2
      BY <1>1, <3>1, Halves
    <3>3. p[i - 1][1] = "student" /\ p[i - 1][2] = rows[(i + 1) \div 2][1]
      BY <1>4, <3>2
    <3>4. p[i - 1][2] = p[i][2]
      BY <1>4, <3>3
    <3>5. i - 1 \in 1 .. i - 1
      BY <3>2
    <3> QED
      BY <3>3, <3>4, <3>5
  <2>2. ASSUME NEW i \in 1 .. 2 * n, p[i][1] = "student" PROVE Later(p, i, "enrolment", p[i][2])
    <3>1. i % 2 = 1
      BY <1>1, <1>4, <2>2, Halves
    <3>2. i + 1 \in 1 .. 2 * n /\ (i + 1) % 2 = 0 /\ (i + 1 + 1) \div 2 = (i + 1) \div 2
      BY <1>1, <3>1, Halves
    <3>3. p[i + 1][1] = "enrolment" /\ p[i + 1][2] = rows[(i + 1) \div 2][1]
      BY <1>4, <3>2
    <3>4. p[i + 1][2] = p[i][2]
      BY <1>4, <3>3
    <3>5. i + 1 \in i + 1 .. Len(p)
      BY <1>7, <3>2
    <3> QED
      BY <3>3, <3>4, <3>5 DEF Later
  <2>3. \A i \in 1 .. 2 * n : p[i][1] \in {"student", "enrolment"}
    BY <1>4
  <2> QED
    BY <1>5, <2>1, <2>2, <2>3 DEF Ordered
<1> QED
  BY <1>7, <1>8 DEF Programs, p, n, Kind

\* What a confirmation runs for the rows of its file.
FollowsFile(j, s) ==
  /\ s \in Seq(Task)
  /\ \A i \in DOMAIN s :
       /\ s[i][1] \in {"student", "enrolment", "qr", "lookup"}
       /\ <<s[i][2], s[i][3]>> \in RowsOf(j)
       /\ s[i][1] = "lookup" =>
            /\ file[j].mode # "CREATE_ONLY"
            /\ \A k \in DOMAIN s \ {i} : s[k][2] # s[i][2]
       /\ s[i][1] = "enrolment" =>
            \E k \in 1 .. i - 1 : s[k][1] = "student" /\ s[k][2] = s[i][2]
       /\ s[i][1] = "student" => Later(s, i, "enrolment", s[i][2])
  /\ \A row \in RowsOf(j) : \E i \in DOMAIN s :
       s[i] \in {<<"lookup", row[1], row[2]>>, <<"enrolment", row[1], row[2]>>}

\* One statement of a kind for each row of a file.
LEMMA AllShape ==
  ASSUME NEW rows \in Seq(Row), NEW what \in {"student", "enrolment", "qr", "lookup"}
  PROVE  /\ All(what, rows) \in Seq(Task) /\ Len(All(what, rows)) = Len(rows)
         /\ \A i \in 1 .. Len(rows) : All(what, rows)[i] = <<what, rows[i][1], rows[i][2]>>
<1> DEFINE a == All(what, rows)
<1>1. DOMAIN a = 1 .. Len(rows) /\ \A i \in 1 .. Len(rows) : a[i] = <<what, rows[i][1], rows[i][2]>>
  BY DEF All
<1>2. \A i \in 1 .. Len(rows) : <<what, rows[i][1], rows[i][2]>> \in Task
  <2>1. ASSUME NEW row \in Row PROVE <<what, row[1], row[2]>> \in Task
    BY DEF Row, Task
  <2> QED
    BY <2>1
<1>3. a \in [1 .. Len(rows) -> Task]
  BY <1>1, <1>2 DEF All
<1> HIDE DEF a
<1>4. a \in Seq(Task) /\ Len(a) = Len(rows)
  BY <1>3
<1> QED
  BY <1>1, <1>4 DEF a

\* A sequence after another.
LEMMA Joined ==
  ASSUME NEW a \in Seq(Task), NEW b \in Seq(Task)
  PROVE  /\ a \o b \in Seq(Task) /\ Len(a \o b) = Len(a) + Len(b)
         /\ \A i \in 1 .. Len(a) : (a \o b)[i] = a[i]
         /\ \A i \in 1 .. Len(b) : (a \o b)[Len(a) + i] = b[i]
<1>1. Len(a) \in Nat /\ Len(b) \in Nat
  OBVIOUS
<1>2. a \o b \in Seq(Task) /\ Len(a \o b) = Len(a) + Len(b)
  OBVIOUS
<1>3. \A i \in 1 .. Len(a) : (a \o b)[i] = a[i]
  BY <1>1
<1>4. ASSUME NEW i \in 1 .. Len(b) PROVE (a \o b)[Len(a) + i] = b[i]
  <2>1. Len(a) + i \in 1 .. Len(a) + Len(b) /\ Len(a) + i > Len(a) /\ Len(a) + i - Len(a) = i
    BY <1>1
  <2> QED
    BY <1>1, <2>1
<1> QED
  BY <1>2, <1>3, <1>4

\* The program of an import that only creates, from its file.
LEMMA CreateOnlyFile ==
  ASSUME ImportsTyped, FilesFit, NEW j \in Job, file[j].mode = "CREATE_ONLY"
  PROVE  FollowsFile(j, RowStatements(file[j]))
<1> DEFINE rows == file[j].rows  n == Len(rows)  s == RowStatements(file[j])
           a == All("student", rows)  b == All("enrolment", rows)  c == All("qr", rows)
<1>1. rows \in Seq(Row) /\ n \in Nat /\ DOMAIN rows = 1 .. n
  BY DEF ImportsTyped
<1>2. /\ a \in Seq(Task) /\ Len(a) = n
      /\ b \in Seq(Task) /\ Len(b) = n
      /\ c \in Seq(Task) /\ Len(c) = n
      /\ \A i \in 1 .. n : a[i] = <<"student", rows[i][1], rows[i][2]>>
      /\ \A i \in 1 .. n : b[i] = <<"enrolment", rows[i][1], rows[i][2]>>
      /\ \A i \in 1 .. n : c[i] = <<"qr", rows[i][1], rows[i][2]>>
  BY <1>1, AllShape
<1>3. s = (a \o b) \o c
  BY DEF RowStatements
<1> HIDE DEF a, b, c, s, rows, n
<1>4. /\ s \in Seq(Task) /\ Len(s) = n + n + n
      /\ \A i \in 1 .. n : s[i] = a[i] /\ s[n + i] = b[i] /\ s[n + n + i] = c[i]
  <2> DEFINE ab == a \o b
  <2>0. s = ab \o c
    BY <1>3
  <2>1. /\ ab \in Seq(Task) /\ Len(ab) = n + n
        /\ \A i \in 1 .. n : ab[i] = a[i]
        /\ \A i \in 1 .. n : ab[n + i] = b[i]
    <3>1. /\ ab \in Seq(Task) /\ Len(ab) = Len(a) + Len(b)
          /\ \A i \in 1 .. Len(a) : ab[i] = a[i]
          /\ \A i \in 1 .. Len(b) : ab[Len(a) + i] = b[i]
      <4>1. a \in Seq(Task) /\ b \in Seq(Task)
        BY <1>2
      <4> QED
        BY <4>1, Joined
    <3> HIDE DEF ab
    <3> QED
      BY <1>2, <3>1
  <2> HIDE DEF ab
  <2>2. /\ s \in Seq(Task) /\ Len(s) = n + n + n
        /\ \A i \in 1 .. n + n : s[i] = ab[i]
        /\ \A i \in 1 .. n : s[n + n + i] = c[i]
    <3>1. /\ ab \o c \in Seq(Task) /\ Len(ab \o c) = Len(ab) + Len(c)
          /\ \A i \in 1 .. Len(ab) : (ab \o c)[i] = ab[i]
          /\ \A i \in 1 .. Len(c) : (ab \o c)[Len(ab) + i] = c[i]
      <4>1. ab \in Seq(Task) /\ c \in Seq(Task)
        BY <1>2, <2>1
      <4> QED
        BY <4>1, Joined
    <3> QED
      BY <1>2, <2>0, <2>1, <3>1
  <2>3. \A i \in 1 .. n : i \in 1 .. n + n /\ n + i \in 1 .. n + n
    BY <1>1
  <2> QED
    BY <2>1, <2>2, <2>3
<1>5. DOMAIN s = 1 .. n + n + n
  BY <1>4
<1>6. ASSUME NEW i \in 1 .. n + n + n
      PROVE  \E h \in 1 .. n : \/ i = h /\ s[i] = <<"student", rows[h][1], rows[h][2]>>
                               \/ i = n + h /\ s[i] = <<"enrolment", rows[h][1], rows[h][2]>>
                               \/ i = n + n + h /\ s[i] = <<"qr", rows[h][1], rows[h][2]>>
  <2>1. CASE i \in 1 .. n
    BY <1>2, <1>4, <2>1
  <2>2. CASE i - n \in 1 .. n
    <3>1. i = n + (i - n)
      BY <1>1
    <3> QED
      BY <1>2, <1>4, <2>2, <3>1
  <2>3. CASE i - n - n \in 1 .. n
    <3>1. i = n + n + (i - n - n)
      BY <1>1
    <3> QED
      BY <1>2, <1>4, <2>3, <3>1
  <2>4. i \in 1 .. n \/ i - n \in 1 .. n \/ i - n - n \in 1 .. n
    BY <1>1
  <2> QED
    BY <2>1, <2>2, <2>3, <2>4
<1>7. ASSUME NEW h \in 1 .. n
      PROVE  /\ rows[h] \in RowsOf(j) /\ rows[h] = <<rows[h][1], rows[h][2]>>
             /\ h \in DOMAIN s /\ n + h \in DOMAIN s
             /\ s[h][1] = "student" /\ s[h][2] = rows[h][1]
             /\ s[n + h] = <<"enrolment", rows[h][1], rows[h][2]>>
             /\ h \in 1 .. n + h - 1 /\ n + h \in h + 1 .. Len(s)
  <2>1. rows[h] \in Row
    BY <1>1
  <2>2. rows[h] = <<rows[h][1], rows[h][2]>>
    BY <2>1 DEF Row
  <2>3. rows[h] \in RowsOf(j)
    BY <1>1 DEF RowsOf, rows
  <2>4. h \in 1 .. n + n + n /\ n + h \in 1 .. n + n + n
        /\ h \in 1 .. n + h - 1 /\ n + h \in h + 1 .. n + n + n
    BY <1>1
  <2>5. h \in DOMAIN s /\ n + h \in DOMAIN s /\ n + h \in h + 1 .. Len(s)
    BY <1>4, <1>5, <2>4
  <2>6. s[h][1] = "student" /\ s[h][2] = rows[h][1]
    BY <1>2, <1>4
  <2>7. s[n + h] = <<"enrolment", rows[h][1], rows[h][2]>>
    BY <1>2, <1>4
  <2> QED
    BY <2>2, <2>3, <2>4, <2>5, <2>6, <2>7
<1>8. ASSUME NEW i \in DOMAIN s
      PROVE  /\ s[i][1] \in {"student", "enrolment", "qr"}
             /\ <<s[i][2], s[i][3]>> \in RowsOf(j)
             /\ s[i][1] = "enrolment" =>
                  \E k \in 1 .. i - 1 : s[k][1] = "student" /\ s[k][2] = s[i][2]
             /\ s[i][1] = "student" => Later(s, i, "enrolment", s[i][2])
  <2>1. PICK h \in 1 .. n : \/ i = h /\ s[i] = <<"student", rows[h][1], rows[h][2]>>
                            \/ i = n + h /\ s[i] = <<"enrolment", rows[h][1], rows[h][2]>>
                            \/ i = n + n + h /\ s[i] = <<"qr", rows[h][1], rows[h][2]>>
    BY <1>5, <1>6
  <2>2. /\ s[i][1] \in {"student", "enrolment", "qr"}
        /\ <<s[i][2], s[i][3]>> = <<rows[h][1], rows[h][2]>> /\ s[i][2] = rows[h][1]
        /\ s[i][1] = "student" => i = h
        /\ s[i][1] = "enrolment" => i = n + h
    BY <2>1
  <2>3. ASSUME s[i][1] = "student" PROVE Later(s, i, "enrolment", s[i][2])
    <3>1. i = h /\ s[i][2] = rows[h][1]
      BY <2>2, <2>3
    <3>2. n + h \in i + 1 .. Len(s) /\ s[n + h] = <<"enrolment", rows[h][1], rows[h][2]>>
      BY <1>7, <3>1
    <3> QED
      BY <3>1, <3>2 DEF Later
  <2>4. ASSUME s[i][1] = "enrolment"
        PROVE  \E k \in 1 .. i - 1 : s[k][1] = "student" /\ s[k][2] = s[i][2]
    <3>1. i = n + h /\ s[i][2] = rows[h][1]
      BY <2>2, <2>4
    <3>2. h \in 1 .. i - 1 /\ s[h][1] = "student" /\ s[h][2] = rows[h][1]
      BY <1>7, <3>1
    <3> QED
      BY <3>1, <3>2
  <2>5. <<s[i][2], s[i][3]>> \in RowsOf(j)
    BY <1>7, <2>2
  <2> QED
    BY <2>2, <2>3, <2>4, <2>5
<1>9. ASSUME NEW row \in RowsOf(j)
      PROVE  \E i \in DOMAIN s : s[i] = <<"enrolment", row[1], row[2]>>
  <2>1. PICK h \in 1 .. n : row = rows[h]
    BY <1>1 DEF RowsOf, rows
  <2> QED
    BY <1>7, <2>1
<1> QED
  BY <1>4, <1>8, <1>9 DEF FollowsFile, s

\* The program of an import that looks each student up, from its file.
LEMMA LookupFile ==
  ASSUME ImportsTyped, FilesFit, NEW j \in Job, file[j].mode # "CREATE_ONLY"
  PROVE  FollowsFile(j, RowStatements(file[j]))
<1> DEFINE rows == file[j].rows  n == Len(rows)  s == RowStatements(file[j])
<1>1. rows \in Seq(Row) /\ n \in Nat /\ DOMAIN rows = 1 .. n
  BY DEF ImportsTyped
<1>2. /\ s \in Seq(Task) /\ Len(s) = n /\ DOMAIN s = 1 .. n
      /\ \A i \in 1 .. n : s[i] = <<"lookup", rows[i][1], rows[i][2]>>
  <2>1. s = All("lookup", rows)
    BY DEF RowStatements
  <2>2. /\ s \in Seq(Task) /\ Len(s) = n
        /\ \A i \in 1 .. n : s[i] = <<"lookup", rows[i][1], rows[i][2]>>
    BY <1>1, <2>1, AllShape
  <2> HIDE DEF s, n, rows
  <2> QED
    BY <2>2
<1>3. \A h, i \in 1 .. n : rows[h][1] = rows[i][1] => h = i
  BY <1>1 DEF FilesFit, Injective
<1> HIDE DEF s, rows, n
<1>4. ASSUME NEW i \in 1 .. n
      PROVE  /\ rows[i] \in RowsOf(j) /\ rows[i] = <<rows[i][1], rows[i][2]>>
             /\ s[i][1] = "lookup" /\ s[i][2] = rows[i][1] /\ s[i][3] = rows[i][2]
  <2>1. rows[i] \in Row
    BY <1>1
  <2>2. rows[i] = <<rows[i][1], rows[i][2]>>
    BY <2>1 DEF Row
  <2>3. rows[i] \in RowsOf(j)
    BY <1>1 DEF RowsOf, rows
  <2> QED
    BY <1>2, <2>2, <2>3
<1>5. ASSUME NEW row \in RowsOf(j)
      PROVE  \E i \in DOMAIN s : s[i] = <<"lookup", row[1], row[2]>>
  <2>1. PICK h \in 1 .. n : row = rows[h]
    BY <1>1 DEF RowsOf, rows
  <2> QED
    BY <1>2, <2>1
<1>6. ASSUME NEW i \in 1 .. n
      PROVE  /\ s[i][1] \in {"student", "enrolment", "qr", "lookup"}
             /\ s[i][1] # "enrolment" /\ s[i][1] # "student"
             /\ <<s[i][2], s[i][3]>> \in RowsOf(j)
             /\ \A k \in 1 .. n \ {i} : s[k][2] # s[i][2]
  <2>1. \A k \in 1 .. n \ {i} : rows[k][1] # rows[i][1]
    BY <1>3
  <2> QED
    BY <1>4, <2>1
<1>7. s \in Seq(Task) /\ DOMAIN s = 1 .. n
  BY <1>2
<1> QED
  BY <1>5, <1>6, <1>7 DEF FollowsFile, s

\* A confirmation of a job that is too old fits as it begins.
LEMMA FitsGivenUp ==
  ASSUME NEW r \in Request, RequestFits(r), doing[r] = "idle", NEW j \in Job,
         prog'[r] = << <<"job", j, "FAILED">> >>, doing'[r] = j, draft'[r] = draft[r]
  PROVE  RequestFits(r)'
<1>1. DOMAIN draft'[r] = {} /\ j \notin Kind
  BY ImportsAssumption DEF RequestFits, PhaseFits
<1>2. DOMAIN prog'[r] = {1} /\ Len(prog'[r]) = 1 /\ prog'[r] # << >>
      /\ prog'[r][1][1] = "job" /\ prog'[r][1][3] = "FAILED"
  OBVIOUS
<1>3. PhaseFits(r)'
  BY <1>1 DEF PhaseFits, Staged, Kind
<1>4. QrFits(r)'
  BY <1>1, <1>2 DEF QrFits
<1>5. TasksFit(r)'
  BY <1>2 DEF TasksFit, LookupFits, EnrolmentFits, StudentFits, UpdateFits, RowFits
<1>6. DraftFits(r)'
  BY <1>1 DEF DraftFits, OwnNew
<1>7. RowsDone(r)'
  <2>1. ~ Going(r)'
    BY <1>2 DEF Going
  <2> QED
    BY <2>1 DEF RowsDone
<1> QED
  BY <1>3, <1>4, <1>5, <1>6, <1>7 DEF RequestFits

\* A confirmation fits as it begins.
LEMMA FitsConfirmed ==
  ASSUME NEW r \in Request, RequestFits(r), doing[r] = "idle", NEW j \in Job,
         NEW s, FollowsFile(j, s), FilesFit, UNCHANGED <<db, file>>,
         prog'[r] = << <<"job", j, "PROCESSING">> >> \o s \o << <<"job", j, "COMPLETED">> >>,
         doing'[r] = j, draft'[r] = draft[r]
  PROVE  RequestFits(r)'
<1> DEFINE p == prog'[r]  n == Len(s)
<1>1. DOMAIN draft'[r] = {} /\ j \notin Kind
  BY ImportsAssumption DEF RequestFits, PhaseFits
<1>2. s \in Seq(Task) /\ n \in Nat /\ DOMAIN s = 1 .. n
  BY DEF FollowsFile
<1>3. /\ Len(p) = n + 2 /\ DOMAIN p = 1 .. n + 2
      /\ p[1] = <<"job", j, "PROCESSING">> /\ p[n + 2] = <<"job", j, "COMPLETED">>
      /\ \A i \in 1 .. n : p[i + 1] = s[i]
  <2> DEFINE q == << <<"job", j, "PROCESSING">> >> \o s  end == << <<"job", j, "COMPLETED">> >>
             start == << <<"job", j, "PROCESSING">> >>
  <2>1. /\ start \in Seq(Task) /\ Len(start) = 1 /\ start[1] = <<"job", j, "PROCESSING">>
        /\ end \in Seq(Task) /\ Len(end) = 1 /\ end[1] = <<"job", j, "COMPLETED">>
    BY DEF Task
  <2>2. q = start \o s /\ p = q \o end
    OBVIOUS
  <2> HIDE DEF q, end, start, p
  <2>3. q \in Seq(Task) /\ Len(q) = n + 1 /\ q[1] = start[1] /\ \A i \in 1 .. n : q[i + 1] = s[i]
    <3>0. /\ start \o s \in Seq(Task) /\ Len(start \o s) = Len(start) + Len(s)
          /\ \A i \in 1 .. Len(start) : (start \o s)[i] = start[i]
          /\ \A i \in 1 .. Len(s) : (start \o s)[Len(start) + i] = s[i]
      <4>1. start \in Seq(Task) /\ s \in Seq(Task)
        BY <1>2, <2>1
      <4> QED
        BY <4>1, Joined
    <3>1. /\ q \in Seq(Task) /\ Len(q) = 1 + n
          /\ \A i \in 1 .. 1 : q[i] = start[i]
          /\ \A i \in 1 .. n : q[1 + i] = s[i]
      BY <2>1, <2>2, <3>0
    <3>2. \A i \in 1 .. n : i + 1 = 1 + i
      BY <1>2
    <3> QED
      BY <1>2, <3>1, <3>2
  <2>4. /\ p \in Seq(Task) /\ Len(p) = n + 2 /\ p[n + 2] = end[1]
        /\ \A i \in 1 .. n + 1 : p[i] = q[i]
    <3>0. /\ q \o end \in Seq(Task) /\ Len(q \o end) = Len(q) + Len(end)
          /\ \A i \in 1 .. Len(q) : (q \o end)[i] = q[i]
          /\ \A i \in 1 .. Len(end) : (q \o end)[Len(q) + i] = end[i]
      <4>1. q \in Seq(Task) /\ end \in Seq(Task)
        BY <2>1, <2>3
      <4> QED
        BY <4>1, Joined
    <3>1. /\ p \in Seq(Task) /\ Len(p) = n + 1 + 1
          /\ \A i \in 1 .. n + 1 : p[i] = q[i]
          /\ \A i \in 1 .. 1 : p[n + 1 + i] = end[i]
      BY <2>1, <2>2, <2>3, <3>0
    <3> QED
      BY <1>2, <3>1
  <2>5. 1 \in 1 .. n + 1 /\ \A i \in 1 .. n : i + 1 \in 1 .. n + 1
    BY <1>2
  <2>6. DOMAIN p = 1 .. n + 2
    BY <2>4
  <2>7. \A i \in 1 .. n : p[i + 1] = s[i]
    BY <2>3, <2>4, <2>5
  <2>8. p[1] = <<"job", j, "PROCESSING">>
    BY <2>1, <2>3, <2>4, <2>5
  <2> QED
    BY <2>1, <2>4, <2>6, <2>7, <2>8
<1>4. p # << >>
  BY <1>2, <1>3
<1> HIDE DEF p, n
<1>5. ASSUME NEW i \in 1 .. n + 2
      PROVE  p[i][1] = "job" \/ (i - 1 \in 1 .. n /\ p[i] = s[i - 1])
  <2>1. CASE i = 1 \/ i = n + 2
    BY <1>3, <2>1
  <2>2. CASE i # 1 /\ i # n + 2
    <3>1. i - 1 \in 1 .. n /\ (i - 1) + 1 = i
      BY <1>2, <2>2
    <3> QED
      BY <1>3, <3>1
  <2> QED
    BY <2>1, <2>2
<1>6. PhaseFits(r)'
  <2>1. \A i \in 2 .. n + 1 : p[i][1] # "job"
    <3>1. ASSUME NEW i \in 2 .. n + 1 PROVE p[i][1] # "job"
      <4>1. i - 1 \in 1 .. n /\ (i - 1) + 1 = i
        BY <1>2
      <4>2. s[i - 1][1] # "job"
        BY <1>2, <4>1 DEF FollowsFile
      <4>3. p[i] = s[i - 1]
        BY <1>3, <4>1
      <4> QED
        BY <4>2, <4>3
    <3> QED
      BY <3>1
  <2>2. Len(p) > 1 /\ Len(p) - 1 = n + 1
    BY <1>2, <1>3
  <2>3. Staged(r)'
    BY <1>1, <1>3, <2>1, <2>2 DEF Staged, p
  <2> QED
    BY <1>1, <2>3 DEF PhaseFits, Kind
<1>7. ASSUME NEW i \in 1 .. n, NEW what, NEW c, Later(s, i, what, c) PROVE Later(p, i + 1, what, c)
  <2>1. PICK k \in i + 1 .. n : s[k][1] = what /\ s[k][2] = c
    BY <1>7 DEF Later, n
  <2>2. k \in 1 .. n /\ k + 1 \in i + 1 + 1 .. n + 2
    BY <1>2
  <2> QED
    BY <1>3, <2>1, <2>2 DEF Later
<1>8. ASSUME NEW i \in 1 .. n + 2
      PROVE  /\ LookupFits(r, i)' /\ EnrolmentFits(r, i)' /\ StudentFits(r, i)'
             /\ UpdateFits(r, i)' /\ RowFits(r, i)' /\ p[i][1] \notin {"revoke", "recheck"}
  <2>1. CASE p[i][1] = "job"
    BY <2>1 DEF LookupFits, EnrolmentFits, StudentFits, UpdateFits, RowFits, p
  <2>2. CASE p[i][1] # "job"
    <3> DEFINE h == i - 1
    <3>1. h \in 1 .. n /\ p[i] = s[h] /\ i = h + 1
      BY <1>5, <2>2
    <3> HIDE DEF h
    <3>2. /\ s[h][1] \in {"student", "enrolment", "qr", "lookup"}
          /\ <<s[h][2], s[h][3]>> \in RowsOf(j)
          /\ s[h][1] = "lookup" =>
               /\ file[j].mode # "CREATE_ONLY"
               /\ \A k \in 1 .. n \ {h} : s[k][2] # s[h][2]
          /\ s[h][1] = "enrolment" =>
               \E k \in 1 .. h - 1 : s[k][1] = "student" /\ s[k][2] = s[h][2]
          /\ s[h][1] = "student" => Later(s, h, "enrolment", s[h][2])
      <4>1. h \in DOMAIN s
        BY <1>2, <3>1
      <4> HIDE DEF n
      <4>2. /\ s[h][1] \in {"student", "enrolment", "qr", "lookup"}
            /\ <<s[h][2], s[h][3]>> \in RowsOf(j)
            /\ s[h][1] = "lookup" => file[j].mode # "CREATE_ONLY"
        BY <4>1 DEF FollowsFile
      <4>3. s[h][1] = "lookup" => \A k \in DOMAIN s \ {h} : s[k][2] # s[h][2]
        BY <4>1 DEF FollowsFile
      <4>4. s[h][1] = "enrolment" =>
              \E k \in 1 .. h - 1 : s[k][1] = "student" /\ s[k][2] = s[h][2]
        BY <4>1 DEF FollowsFile
      <4>5. s[h][1] = "student" => Later(s, h, "enrolment", s[h][2])
        BY <4>1 DEF FollowsFile
      <4> QED
        BY <1>2, <4>2, <4>3, <4>4, <4>5
    <3>3. LookupFits(r, i)'
      <4>1. ASSUME s[h][1] = "lookup", NEW k \in 1 .. n + 2, k # i, p[k][1] # "job"
            PROVE  p[k][2] # s[h][2]
        <5>1. k - 1 \in 1 .. n \ {h} /\ p[k] = s[k - 1]
          BY <1>5, <3>1, <4>1
        <5> QED
          BY <3>2, <4>1, <5>1
      <4> QED
        BY <1>1, <1>3, <3>1, <3>2, <4>1 DEF LookupFits, p
    <3>4. EnrolmentFits(r, i)'
      <4>1. ASSUME NEW k \in 1 .. h - 1 PROVE k + 1 \in 1 .. i - 1 /\ p[k + 1] = s[k]
        <5>1. h \in Nat /\ h <= n /\ i - 1 = h /\ n \in Nat
          <6>1. h \in 1 .. n /\ n \in Nat /\ i = h + 1
            BY <1>2, <3>1
          <6> QED
            BY <6>1
        <5>2. k \in 1 .. n /\ k + 1 \in 1 .. h
          BY <5>1
        <5> QED
          BY <1>3, <5>1, <5>2
      <4>2. p[i][1] = "enrolment" =>
              \E k \in 1 .. i - 1 : p[k][1] = "student" /\ p[k][2] = p[i][2]
        BY <3>1, <3>2, <4>1
      <4> QED
        BY <4>2 DEF EnrolmentFits, p
    <3>5. StudentFits(r, i)'
      <4>1. p[i][1] = "student" => Later(p, i, "enrolment", p[i][2])
        BY <1>7, <3>1, <3>2
      <4> QED
        BY <4>1 DEF StudentFits, p
    <3>6. UpdateFits(r, i)'
      BY <3>1, <3>2 DEF UpdateFits, p
    <3>7. RowFits(r, i)'
      <4>1. RowsOf(j)' = RowsOf(j)
        BY DEF RowsOf
      <4>2. \A row \in RowsOf(j) : row[1] = s[h][2] => row[2] = s[h][3]
        <5>1. \A row \in RowsOf(j) :
                row[1] = <<s[h][2], s[h][3]>>[1] => row = <<s[h][2], s[h][3]>>
          BY <3>2, OnePlace
        <5> QED
          BY <5>1
      <4> QED
        BY <1>1, <3>1, <3>2, <4>1, <4>2 DEF RowFits, p
    <3> QED
      BY <3>1, <3>2, <3>3, <3>4, <3>5, <3>6, <3>7
  <2> QED
    BY <2>1, <2>2
<1>9. TasksFit(r)'
  BY <1>3, <1>8 DEF TasksFit, p
<1>10. QrFits(r)'
  BY <1>1, <1>3, <1>8 DEF QrFits, p
<1>11. DraftFits(r)'
  BY <1>1 DEF DraftFits, OwnNew
<1>12. RowsDone(r)'
  <2>1. ASSUME NEW row \in RowsOf(j) PROVE Awaits(r, row[1], row[2])'
    <3>1. PICK i \in 1 .. n : s[i] \in {<<"lookup", row[1], row[2]>>, <<"enrolment", row[1], row[2]>>}
      BY <1>2 DEF FollowsFile
    <3>2. i + 1 \in DOMAIN p /\ p[i + 1] = s[i]
      BY <1>2, <1>3
    <3>3. p[i + 1] \in {<<"lookup", row[1], row[2]>>, <<"enrolment", row[1], row[2]>>,
                        <<"move", row[1], row[2]>>}
      BY <3>1, <3>2
    <3> QED
      BY <3>2, <3>3 DEF Awaits, p
  <2>2. RowsOf(j)' = RowsOf(j)
    BY DEF RowsOf
  <2> QED
    BY <2>1, <2>2 DEF RowsDone
<1> QED
  BY <1>6, <1>9, <1>10, <1>11, <1>12 DEF RequestFits

\* A request that is not an import begins one of the programs.
LEMMA StartPrograms ==
  ASSUME NEW r \in Request, Start(r)
  PROVE  \E kind, p : Programs(kind, p) /\ Begin(r, kind, p)
<1>1. {"staff", "badges", "revocation"} \subseteq Kind \ {"idle"}
  BY DEF Kind
<1>2. ASSUME NEW c \in Code, NEW s \in Seat, CreateStudent(r, c, s)
      PROVE  \E kind, p : Programs(kind, p) /\ Begin(r, kind, p)
  <2>1. <<"student", c, s>> \in Task /\ <<"enrolment", c, s>> \in Task
    BY DEF Task
  <2>2. Programs("staff", << <<"student", c, s>>, <<"enrolment", c, s>> >>)
    BY <1>1, <2>1, TwoStatements
  <2> QED
    BY <1>2, <2>2 DEF CreateStudent
<1>3. CASE ImportRoster(r)
  <2> DEFINE p(rows) == [i \in 1 .. 2 * Len(rows) |->
               LET row == rows[(i + 1) \div 2] IN
                 <<IF i % 2 = 1 THEN "student" ELSE "enrolment", row[1], row[2]>>]
  <2>1. PICK rows \in Files : Begin(r, "staff", p(rows))
    BY <1>3 DEF ImportRoster
  <2>2. Programs("staff", p(rows))
    BY RosterProgram
  <2> QED
    BY <2>1, <2>2
<1>4. ASSUME NEW c \in Code, NEW to \in {"ACTIVE", "INACTIVE"}, UpdateStatus(r, c, to)
      PROVE  \E kind, p : Programs(kind, p) /\ Begin(r, kind, p)
  <2>1. <<"status", c, to>> \in Task /\ <<"end", c, NoSeat>> \in Task
    BY DEF Task
  <2>2. Programs("staff", << <<"status", c, to>> >>)
    BY <1>1, <1>4, <2>1, OneStatement DEF UpdateStatus
  <2>3. Programs("staff", << <<"status", c, to>>, <<"end", c, NoSeat>> >>)
    BY <1>1, <1>4, <2>1, TwoStatements DEF UpdateStatus
  <2> QED
    BY <1>4, <2>2, <2>3 DEF UpdateStatus
<1>5. ASSUME NEW c \in Code, Issue(r, c) \/ Revoke(r, c) \/ Reissue(r, c)
      PROVE  \E kind, p : Programs(kind, p) /\ Begin(r, kind, p)
  <2>1. <<"qr", c, NoSeat>> \in Task /\ <<"revoke", c, NoSeat>> \in Task
    BY DEF Task
  <2>2. Programs("badges", << <<"qr", c, NoSeat>> >>)
    BY <1>1, <2>1, OneStatement
  <2>3. Programs("revocation", << <<"revoke", c, NoSeat>> >>)
    BY <1>1, <2>1, OneStatement
  <2>4. Programs("badges", << <<"revoke", c, NoSeat>>, <<"qr", c, NoSeat>> >>)
    BY <1>1, <2>1, TwoStatements
  <2> QED
    BY <1>5, <2>2, <2>3, <2>4 DEF Issue, Revoke, Reissue
<1>6. ASSUME NEW reissueAll \in BOOLEAN, PrintBatch(r, reissueAll)
      PROVE  \E kind, p : Programs(kind, p) /\ Begin(r, kind, p)
  BY <1>6, BatchProgram DEF PrintBatch
<1> QED
  BY <1>2, <1>3, <1>4, <1>5, <1>6 DEF Start

-----------------------------------------------------------------------------
(* What a step leaves alone *)

\* A step that writes no row, and begins no import, keeps what is said of the tables.
LEMMA SameTables ==
  ASSUME ImportsInv, UNCHANGED <<db, file, twice, torn, imported, former, gone>>,
         \A q \in Request : doing'[q] \in Job => doing'[q] = doing[q]
  PROVE  FilesFit' /\ TableFits' /\ StudentIsEnrolled' /\ JobsHold'
<1>1. FilesFit'
  BY DEF ImportsInv, FilesFit, Known, RowsOf
<1>2. TableFits'
  BY DEF ImportsInv, TableFits, Known
<1>3. StudentIsEnrolled'
  BY DEF ImportsInv, StudentIsEnrolled, Known
<1>4. FailedImportsNobody'
  BY DEF ImportsInv, JobsHold, FailedImportsNobody
<1>5. ASSUME NEW q \in Request, doing'[q] \in Job
      PROVE  /\ db'[<<"job", doing'[q]>>] # "NONE"
             /\ Fresh(doing[q])' \/ doing'[q] \in twice' \/ <<"job", doing'[q]>> \in torn'
             /\ \A o \in Request : o # q /\ doing'[o] = doing'[q] => doing'[q] \in twice'
  <2>1. doing[q] \in Job /\ doing'[q] = doing[q]
    BY <1>5
  <2>2. /\ db[JobRow(q)] # "NONE"
        /\ Fresh(doing[q]) \/ doing[q] \in twice \/ JobRow(q) \in torn
        /\ \A o \in Request : o # q /\ doing[o] = doing[q] => doing[q] \in twice
    BY <2>1 DEF ImportsInv, JobsHold
  <2>3. Fresh(doing[q]) => Fresh(doing[q])'
    BY <2>1 DEF Fresh
  <2>4. \A o \in Request : doing'[o] = doing'[q] => doing[o] = doing[q]
    BY <1>5, <2>1
  <2> QED
    BY <2>1, <2>2, <2>3, <2>4 DEF JobRow
<1>6. ASSUME NEW j \in Job
      PROVE  /\ db'[<<"job", j>>] \in {"NONE", "VALIDATED"} => imported'[j] = {}
             /\ db'[<<"job", j>>] = "PROCESSING" => <<"job", j>> \in torn'
  BY DEF ImportsInv, JobsHold
<1>7. JobsHold'
  BY <1>4, <1>5, <1>6 DEF JobsHold, JobRow, Fresh
<1> QED
  BY <1>1, <1>2, <1>3, <1>7

\* Nothing is written into a row.
Drops(q) ==
  /\ DOMAIN draft'[q] \subseteq DOMAIN draft[q]
  /\ \/ draft'[q] = draft[q]
     \/ \A c \in Code : <<"enrolment", c>> \notin DOMAIN draft'[q]

\* Drafts that only shrink stay disjoint and keep their places apart.
LEMMA SameSeats ==
  ASSUME ImportsInv, UNCHANGED db, \A q \in Request : Drops(q)
  PROVE  Disjoint' /\ SeatsFit'
<1>1. Disjoint'
  BY DEF ImportsInv, Disjoint, Drops
<1>2. ASSUME NEW r \in Request, NEW c \in Code, NEW e \in Code, c # e, SeatOf(r, c)' # NoSeat
      PROVE  SeatOf(r, c)' # SeatOf(r, e)'
  <2>1. CASE draft'[r] = draft[r]
    BY <1>2, <2>1 DEF ImportsInv, SeatsFit, SeatOf, Sees
  <2>2. CASE \A d \in Code : <<"enrolment", d>> \notin DOMAIN draft'[r]
    BY <1>2, <2>2 DEF ImportsInv, SeatsFit, SeatOf, Sees
  <2> QED
    BY <2>1, <2>2 DEF Drops
<1>3. ASSUME NEW q \in Request, NEW r \in Request, NEW c \in Code, NEW e \in Code,
             q # r, c # e, <<"enrolment", c>> \in DOMAIN draft'[q],
             <<"enrolment", e>> \in DOMAIN draft'[r]
      PROVE  draft'[q][<<"enrolment", c>>].seat # draft'[r][<<"enrolment", e>>].seat
  <2>1. draft'[q] = draft[q] /\ draft'[r] = draft[r]
    BY <1>3 DEF Drops
  <2> QED
    BY <1>3, <2>1 DEF ImportsInv, SeatsFit
<1>4. ASSUME NEW c \in Code, NEW e \in Code, c # e, db'[<<"enrolment", c>>].seat # NoSeat
      PROVE  db'[<<"enrolment", c>>].seat # db'[<<"enrolment", e>>].seat
  BY <1>4 DEF ImportsInv, SeatsFit
<1> QED
  BY <1>1, <1>2, <1>3, <1>4 DEF SeatsFit

\* The other requests fit as before.
LEMMA OthersStay ==
  ASSUME ImportsInv, UNCHANGED <<db, file, gone>>, NEW q \in Request,
         prog'[q] = prog[q], draft'[q] = draft[q], doing'[q] = doing[q]
  PROVE  RequestFits(q)'
<1>1. \A c \in Code : Known(c) => Known(c)'
  BY DEF Known
<1>2. \A c \in Code : Orphan(c) => Orphan(c)'
  BY DEF Orphan, Known
<1> QED
  BY <1>1, <1>2, FitsStays DEF ImportsInv

-----------------------------------------------------------------------------
(* The steps of the requests *)

\* A statement that is replaced by others keeps the invariant.
LEMMA ExpansionSafe ==
  ASSUME ImportsInv, NEW r \in Request, UNCHANGED <<db, file, aged, twice, torn, imported, anonymous, former, gone>>,
         NEW more, Unfolds(r, more), Expands(r, more)
  PROVE  ImportsInv'
<1>1. /\ prog'[r] \in Seq(Task) /\ prog' = [prog EXCEPT ![r] = more \o Tail(@)]
      /\ UNCHANGED <<draft, doing>>
      /\ \A q \in Request \ {r} : prog'[q] = prog[q]
  BY AfterExpansion DEF ImportsInv, Unfolds
<1>2. ImportsTyped'
  <2>1. prog \in [Request -> Seq(Task)]
    BY DEF ImportsInv, ImportsTyped
  <2>2. prog' \in [Request -> Seq(Task)]
    BY <1>1, <2>1
  <2> QED
    BY <1>1, <2>2 DEF ImportsInv, ImportsTyped, Written
<1>3. RequestFits(r)'
  <2>1. RequestFits(r) /\ ImportsTyped /\ FilesFit
    BY DEF ImportsInv
  <2>2. PhaseFits(r)' /\ QrFits(r)' /\ TasksFit(r)' /\ DraftFits(r)' /\ RowsDone(r)'
    BY <2>1, PhaseOfExpansion, QrOfExpansion, TasksOfExpansion, DraftOfExpansion, RowsOfExpansion
    DEF RequestFits
  <2> QED
    BY <2>2 DEF RequestFits
<1>4. \A q \in Request \ {r} : RequestFits(q)'
  BY <1>1, OthersStay
<1>5. FilesFit' /\ TableFits' /\ StudentIsEnrolled' /\ JobsHold'
  BY <1>1, SameTables
<1>6. Disjoint' /\ SeatsFit'
  <2>1. \A q \in Request : Drops(q)
    BY <1>1 DEF Drops
  <2> QED
    BY <2>1, SameSeats
<1> QED
  BY <1>2, <1>3, <1>4, <1>5, <1>6 DEF ImportsInv

\* A write keeps the types.
LEMMA WriteTyped ==
  ASSUME ImportsTyped, NEW r \in Request, UNCHANGED <<db, file, aged, twice, torn, imported, anonymous, former, gone>>,
         prog[r] # << >>, NEW k \in Key, NEW v, Written(k, v), SetRow(r, k, v)
  PROVE  ImportsTyped'
<1>1. /\ prog'[r] \in Seq(Task) /\ doing' = doing /\ DOMAIN draft' = Request
      /\ DOMAIN draft'[r] = DOMAIN draft[r] \cup {k} /\ draft'[r][k] = v
      /\ \A i \in DOMAIN draft[r] \ {k} : draft'[r][i] = draft[r][i]
      /\ \A q \in Request \ {r} : prog'[q] = prog[q] /\ draft'[q] = draft[q]
  BY AfterWrite DEF SetRow
<1>2. prog' \in [Request -> Seq(Task)]
  <2>1. prog \in [Request -> Seq(Task)] /\ prog' = [prog EXCEPT ![r] = << >> \o Tail(@)]
    BY DEF ImportsTyped, SetRow, Proceed
  <2> QED
    BY <1>1, <2>1
<1>3. ASSUME NEW q \in Request
      PROVE  /\ DOMAIN draft'[q] \subseteq Key
             /\ \A i \in DOMAIN draft'[q] : Written(i, draft'[q][i])
  <2>1. DOMAIN draft[q] \subseteq Key /\ \A i \in DOMAIN draft[q] : Written(i, draft[q][i])
    BY DEF ImportsTyped
  <2>2. CASE q # r
    BY <1>1, <2>1, <2>2
  <2>3. CASE q = r
    <3>1. ASSUME NEW i \in DOMAIN draft'[q] PROVE Written(i, draft'[q][i])
      <4>1. CASE i = k
        BY <1>1, <2>3, <4>1
      <4>2. CASE i # k
        BY <1>1, <2>1, <2>3, <3>1, <4>2
      <4> QED
        BY <4>1, <4>2
    <3> QED
      BY <1>1, <2>1, <2>3, <3>1
  <2> QED
    BY <2>2, <2>3
<1>4. \A i \in Key : Written(i, db'[i]) \/ db'[i] = Blank(i) \/ (i[1] = "job" /\ db'[i] = "VALIDATED")
  BY DEF ImportsTyped
<1> QED
  BY <1>1, <1>2, <1>3, <1>4 DEF ImportsTyped, Written

\* A place is taken only where nobody else has it, and an enrolment that ends keeps its place.
LEMMA WriteSeats ==
  ASSUME ImportsInv, NEW r \in Request, UNCHANGED db,
         prog[r] # << >>, NEW k \in Key, NEW v, SetRow(r, k, v), Stores(r, k, v)
  PROVE  SeatsFit'
<1>1. /\ DOMAIN draft'[r] = DOMAIN draft[r] \cup {k} /\ draft'[r][k] = v
      /\ \A i \in DOMAIN draft[r] \ {k} : draft'[r][i] = draft[r][i]
      /\ \A q \in Request \ {r} : draft'[q] = draft[q]
      /\ \A q \in Request \ {r} : k \notin DOMAIN draft[q]
  BY AfterWrite DEF ImportsInv
<1>2. \A q \in Request \ {r}, c \in Code : SeatOf(q, c)' = SeatOf(q, c)
  BY <1>1 DEF SeatOf, Sees
<1>3. ASSUME NEW c \in Code, k # <<"enrolment", c>>
      PROVE  SeatOf(r, c)' = SeatOf(r, c)
  <2>1. <<"enrolment", c>> \in DOMAIN draft'[r] <=> <<"enrolment", c>> \in DOMAIN draft[r]
    BY <1>1, <1>3
  <2> QED
    BY <1>1, <1>3, <2>1 DEF SeatOf, Sees
<1>4. ASSUME NEW c \in Code, k = <<"enrolment", c>>
      PROVE  /\ SeatOf(r, c)' = v.seat
             /\ \/ v.seat = SeatOf(r, c) /\ v.seat # NoSeat
                \/ SeatFree(r, v.seat) /\ \A d \in Code \ {c} : SeatOf(r, d) # v.seat
  <2>1. SeatOf(r, c)' = v.seat
    BY <1>1, <1>4 DEF SeatOf, Sees
  <2>2. /\ c = On(r)
        /\ \/ \E s, a : /\ v = [seat |-> s, active |-> a]
                        /\ SeatFree(r, s) /\ \A d \in Code \ {c} : SeatOf(r, d) # s
           \/ v = [seat |-> SeatOf(r, c), active |-> FALSE] /\ Sees(r, k).active
    BY <1>4 DEF Stores
  <2>3. ASSUME v = [seat |-> SeatOf(r, c), active |-> FALSE], Sees(r, k).active
        PROVE  v.seat = SeatOf(r, c) /\ SeatOf(r, c) # NoSeat
    <3>1. CASE k \in DOMAIN draft[r]
      <4>1. draft[r][k].seat \in Seat
        BY <1>4, <3>1 DEF ImportsInv, ImportsTyped, Written
      <4> QED
        BY <1>4, <2>3, <3>1, <4>1, ImportsAssumption DEF SeatOf, Sees
    <3>2. CASE k \notin DOMAIN draft[r]
      BY <1>4, <2>3, <3>2 DEF SeatOf, Sees, ImportsInv, TableFits
    <3> QED
      BY <3>1, <3>2
  <2> QED
    BY <2>1, <2>2, <2>3
<1>5. ASSUME NEW q \in Request, NEW c \in Code, NEW e \in Code, c # e, SeatOf(q, c)' # NoSeat
      PROVE  SeatOf(q, c)' # SeatOf(q, e)'
  <2>1. SeatOf(q, c) # NoSeat => SeatOf(q, c) # SeatOf(q, e)
    BY <1>5 DEF ImportsInv, SeatsFit
  <2>2. SeatOf(q, e) # NoSeat => SeatOf(q, c) # SeatOf(q, e)
    BY <1>5 DEF ImportsInv, SeatsFit
  <2>3. CASE q # r
    BY <1>2, <1>5, <2>1, <2>3
  <2>4. CASE q = r /\ k # <<"enrolment", c>> /\ k # <<"enrolment", e>>
    BY <1>3, <1>5, <2>1, <2>4
  <2>5. CASE q = r /\ k = <<"enrolment", c>>
    <3>1. k # <<"enrolment", e>>
      BY <1>5, <2>5
    <3>2. SeatOf(r, e)' = SeatOf(r, e)
      BY <1>3, <3>1
    <3> QED
      BY <1>4, <1>5, <2>1, <2>5, <3>2
  <2>6. CASE q = r /\ k = <<"enrolment", e>>
    <3>1. k # <<"enrolment", c>>
      BY <1>5, <2>6
    <3>2. SeatOf(r, c)' = SeatOf(r, c)
      BY <1>3, <3>1
    <3> QED
      BY <1>4, <1>5, <2>2, <2>6, <3>2
  <2> QED
    BY <2>3, <2>4, <2>5, <2>6
<1>6. ASSUME NEW q \in Request, q # r, NEW c \in Code, NEW e \in Code, c # e,
             <<"enrolment", c>> \in DOMAIN draft[q], <<"enrolment", e>> \in DOMAIN draft'[r]
      PROVE  draft[q][<<"enrolment", c>>].seat # draft'[r][<<"enrolment", e>>].seat
  <2>1. CASE k # <<"enrolment", e>>
    BY <1>1, <1>6, <2>1 DEF ImportsInv, SeatsFit
  <2>2. CASE k = <<"enrolment", e>>
    <3>1. draft'[r][<<"enrolment", e>>].seat = v.seat
      BY <1>1, <2>2
    <3>2. SeatOf(q, c) = draft[q][<<"enrolment", c>>].seat /\ <<"enrolment", c>> # k
      BY <1>6, <2>2 DEF SeatOf, Sees
    <3>3. CASE SeatFree(r, v.seat)
      BY <1>6, <3>1, <3>2, <3>3 DEF SeatFree
    <3>4. CASE v.seat = SeatOf(r, e) /\ v.seat # NoSeat
      <4>1. CASE k \in DOMAIN draft[r]
        <5>1. SeatOf(r, e) = draft[r][<<"enrolment", e>>].seat
          BY <2>2, <4>1 DEF SeatOf, Sees
        <5> QED
          BY <1>6, <2>2, <3>1, <3>4, <4>1, <5>1 DEF ImportsInv, SeatsFit
      <4>2. CASE k \notin DOMAIN draft[r]
        <5>1. SeatOf(r, e) = SeatOf(q, e)
          BY <1>1, <1>6, <2>2, <4>2 DEF SeatOf, Sees
        <5>2. SeatOf(q, e) # SeatOf(q, c)
          BY <1>6, <3>4, <5>1 DEF ImportsInv, SeatsFit
        <5> QED
          BY <3>1, <3>2, <3>4, <5>1, <5>2
      <4> QED
        BY <4>1, <4>2
    <3> QED
      BY <1>4, <2>2, <3>3, <3>4
  <2> QED
    BY <2>1, <2>2
<1>7. ASSUME NEW q \in Request, NEW o \in Request, NEW c \in Code, NEW e \in Code,
             q # o, c # e, <<"enrolment", c>> \in DOMAIN draft'[q],
             <<"enrolment", e>> \in DOMAIN draft'[o]
      PROVE  draft'[q][<<"enrolment", c>>].seat # draft'[o][<<"enrolment", e>>].seat
  <2>1. CASE q # r /\ o # r
    BY <1>1, <1>7, <2>1 DEF ImportsInv, SeatsFit
  <2>2. CASE o = r
    BY <1>1, <1>6, <1>7, <2>2
  <2>3. CASE q = r
    BY <1>1, <1>6, <1>7, <2>3
  <2> QED
    BY <2>1, <2>2, <2>3
<1>8. ASSUME NEW c \in Code, NEW e \in Code, c # e, db'[<<"enrolment", c>>].seat # NoSeat
      PROVE  db'[<<"enrolment", c>>].seat # db'[<<"enrolment", e>>].seat
  BY <1>8 DEF ImportsInv, SeatsFit
<1> QED
  BY <1>5, <1>7, <1>8 DEF SeatsFit

\* A statement that writes a row keeps the invariant.
LEMMA WriteSafe ==
  ASSUME ImportsInv, NEW r \in Request, UNCHANGED <<db, file, aged, twice, torn, imported, anonymous, former, gone>>,
         prog[r] # << >>, NEW k, NEW v, SetRow(r, k, v), Stores(r, k, v)
  PROVE  ImportsInv'
<1>0. ImportsTyped /\ FilesFit /\ TableFits /\ RequestFits(r)
  BY DEF ImportsInv
<1>1. k \in Key /\ Written(k, v)
  BY <1>0, StoresShape DEF RequestFits
<1>2. ImportsTyped'
  BY <1>0, <1>1, WriteTyped
<1>3. RequestFits(r)'
  <2>2. PhaseFits(r)' /\ QrFits(r)' /\ TasksFit(r)' /\ DraftFits(r)' /\ RowsDone(r)'
    BY <1>0, PhaseOfWrite, QrOfWrite, TasksOfWrite, DraftOfWrite, RowsOfWrite DEF RequestFits
  <2> QED
    BY <2>2 DEF RequestFits
<1>4. /\ DOMAIN draft'[r] = DOMAIN draft[r] \cup {k} /\ doing' = doing
      /\ \A q \in Request \ {r} : prog'[q] = prog[q] /\ draft'[q] = draft[q] /\ doing'[q] = doing[q]
      /\ \A q \in Request \ {r} : k \notin DOMAIN draft[q]
  BY <1>0, AfterWrite DEF SetRow
<1>5. \A q \in Request \ {r} : RequestFits(q)'
  BY <1>4, OthersStay
<1>6. FilesFit' /\ TableFits' /\ StudentIsEnrolled' /\ JobsHold'
  BY <1>4, SameTables
<1>7. Disjoint'
  BY <1>4 DEF ImportsInv, Disjoint
<1>8. SeatsFit'
  BY <1>1, WriteSeats
<1> QED
  BY <1>2, <1>3, <1>5, <1>6, <1>7, <1>8 DEF ImportsInv

\* A request that ends without a commit leaves the tables alone.
LEMMA EndSafe ==
  ASSUME ImportsInv, NEW r \in Request, UNCHANGED <<db, file, aged, twice, torn, imported, anonymous, former, gone>>, End(r)
  PROVE  ImportsInv'
<1>1. "idle" \in Kind /\ "idle" \notin Job
  BY ImportsAssumption DEF Kind
<1>2. /\ doing'[r] = "idle" /\ prog'[r] = << >> /\ draft'[r] = << >>
      /\ \A q \in Request \ {r} : prog'[q] = prog[q] /\ draft'[q] = draft[q] /\ doing'[q] = doing[q]
      /\ DOMAIN draft' = Request /\ prog' \in [Request -> Seq(Task)]
      /\ doing' \in [Request -> Kind \cup Job]
  BY <1>1 DEF End, ImportsInv, ImportsTyped
<1>3. DOMAIN draft'[r] = {}
  BY <1>2
<1>4. ImportsTyped'
  <2>1. ASSUME NEW q \in Request
        PROVE  /\ DOMAIN draft'[q] \subseteq Key
               /\ \A i \in DOMAIN draft'[q] : Written(i, draft'[q][i])
    BY <1>2, <1>3 DEF ImportsInv, ImportsTyped
  <2> QED
    BY <1>2, <2>1 DEF ImportsInv, ImportsTyped, Written
<1>5. RequestFits(r)'
  BY <1>2, FitsIdle
<1>6. \A q \in Request \ {r} : RequestFits(q)'
  BY <1>2, OthersStay
<1>7. FilesFit' /\ TableFits' /\ StudentIsEnrolled' /\ JobsHold'
  <2>1. \A q \in Request : doing'[q] \in Job => doing'[q] = doing[q]
    BY <1>1, <1>2
  <2> QED
    BY <2>1, SameTables
<1>8. Disjoint' /\ SeatsFit'
  <2>1. \A q \in Request : Drops(q)
    BY <1>2, <1>3 DEF Drops
  <2> QED
    BY <2>1, SameSeats
<1> QED
  BY <1>4, <1>5, <1>6, <1>7, <1>8 DEF ImportsInv

\* An import that fails goes back to its savepoint.
LEMMA FailSafe ==
  ASSUME ImportsInv, NEW r \in Request, UNCHANGED <<db, file, aged, twice, torn, imported, anonymous, former, gone>>,
         prog[r] # << >>, Stmt(r)[1] # "job", Violated(r)
  PROVE  ImportsInv'
<1>1. CASE doing[r] \notin Job
  BY <1>1, EndSafe DEF Violated
<1>2. CASE doing[r] \in Job
  <2>1. JobRow(r) \in DOMAIN draft[r]
    <3>1. prog[r][1][1] # "job" /\ PhaseFits(r)
      BY HeadShape DEF ImportsInv, RequestFits
    <3> QED
      BY <1>2, <3>1, HeadUnderway DEF Underway, Has
  <2>2. /\ draft' = [draft EXCEPT ![r] = [k \in {JobRow(r)} |-> "FAILED"]]
        /\ prog' = [prog EXCEPT ![r] = << >>] /\ doing' = doing
    BY <1>2 DEF Violated, JobRow
  <2>3. /\ doing'[r] = doing[r] /\ prog'[r] = << >>
        /\ draft'[r] = [k \in {JobRow(r)} |-> "FAILED"]
        /\ \A q \in Request \ {r} : prog'[q] = prog[q] /\ draft'[q] = draft[q] /\ doing'[q] = doing[q]
        /\ DOMAIN draft' = Request /\ prog' \in [Request -> Seq(Task)]
    BY <2>2 DEF ImportsInv, ImportsTyped
  <2>4. JobRow(r) \in Key /\ JobRow(r)[1] = "job"
    BY <1>2 DEF JobRow, Key
  <2>5. DOMAIN draft'[r] = {JobRow(r)} /\ draft'[r][JobRow(r)] = "FAILED"
    BY <2>3
  <2>6. ImportsTyped'
    <3>1. Written(JobRow(r), "FAILED")
      BY <2>4 DEF Written
    <3>2. ASSUME NEW q \in Request
          PROVE  /\ DOMAIN draft'[q] \subseteq Key
                 /\ \A i \in DOMAIN draft'[q] : Written(i, draft'[q][i])
      <4>1. CASE q = r
        BY <2>4, <2>5, <3>1, <4>1
      <4>2. CASE q # r
        BY <2>3, <4>2 DEF ImportsInv, ImportsTyped
      <4> QED
        BY <4>1, <4>2
    <3> QED
      BY <2>2, <2>3, <3>2 DEF ImportsInv, ImportsTyped, Written
  <2>7. RequestFits(r)'
    BY <1>2, <2>3, FitsFailed
  <2>8. \A q \in Request \ {r} : RequestFits(q)'
    BY <2>3, OthersStay
  <2>9. FilesFit' /\ TableFits' /\ StudentIsEnrolled' /\ JobsHold'
    BY <2>2, SameTables
  <2>10. Disjoint' /\ SeatsFit'
    <3>1. Drops(r)
      <4>1. \A c \in Code : <<"enrolment", c>> # JobRow(r)
        BY DEF JobRow
      <4> QED
        BY <2>1, <2>5, <4>1 DEF Drops
    <3>2. \A q \in Request : Drops(q)
      BY <2>3, <3>1 DEF Drops
    <3> QED
      BY <3>2, SameSeats
  <2> QED
    BY <2>6, <2>7, <2>8, <2>9, <2>10 DEF ImportsInv
<1> QED
  BY <1>1, <1>2

\* Every statement keeps the invariant, one that fails included.
LEMMA StatementSafe ==
  ASSUME ImportsInv, NEW r \in Request, Statement(r)
  PROVE  ImportsInv'
<1>1. prog[r] # << >> /\ UNCHANGED <<db, file, aged, twice, torn, imported, anonymous, former, gone>>
  BY StatementCases
<1>2. CASE Violated(r) /\ Stmt(r)[1] # "job"
  BY <1>1, <1>2, FailSafe
<1>3. CASE \E more : Unfolds(r, more) /\ Expands(r, more)
  BY <1>1, <1>3, ExpansionSafe
<1>4. CASE \E k, v : SetRow(r, k, v) /\ Stores(r, k, v)
  BY <1>1, <1>4, WriteSafe
<1> QED
  BY <1>2, <1>3, <1>4, StatementCases

\* A request that fails keeps the invariant.
LEMMA AbortSafe ==
  ASSUME ImportsInv, NEW r \in Request, Abort(r)
  PROVE  ImportsInv'
  BY FailSafe DEF Abort, identities

\* A transaction that is lost keeps the invariant.
LEMMA LostSafe ==
  ASSUME ImportsInv, NEW r \in Request, Lost(r)
  PROVE  ImportsInv'
  BY EndSafe DEF Lost, identities

-----------------------------------------------------------------------------
(* Commits *)

\* What a commit leaves in the tables, and what it forgets.
LEMMA KeepShape ==
  ASSUME ImportsTyped, NEW r \in Request, Keep(r)
  PROVE  /\ DOMAIN db' = Key
         /\ \A k \in DOMAIN draft[r] : k \in Key /\ db'[k] = draft[r][k] /\ Written(k, draft[r][k])
         /\ \A k \in Key \ DOMAIN draft[r] : db'[k] = db[k]
         /\ \A j \in Job : imported'[j] = IF doing[r] = j THEN imported[j] \cup Codes(DOMAIN draft[r])
                                          ELSE imported[j]
         /\ imported' \in [Job -> SUBSET Code]
         /\ doing'[r] = "idle" /\ prog'[r] = << >> /\ draft'[r] = << >>
         /\ \A q \in Request \ {r} : prog'[q] = prog[q] /\ draft'[q] = draft[q] /\ doing'[q] = doing[q]
<1>1. DOMAIN draft[r] \subseteq Key
  BY DEF ImportsTyped
<1>2. /\ DOMAIN db' = Key
      /\ \A k \in DOMAIN draft[r] : k \in Key /\ db'[k] = draft[r][k]
      /\ \A k \in Key \ DOMAIN draft[r] : db'[k] = db[k]
  BY <1>1 DEF Keep, Over
<1>3. \A k \in DOMAIN draft[r] : Written(k, draft[r][k])
  BY DEF ImportsTyped
<1>4. /\ imported' \in [Job -> SUBSET Code]
      /\ \A j \in Job : imported'[j] = IF doing[r] = j THEN imported[j] \cup Codes(DOMAIN draft[r])
                                       ELSE imported[j]
  <2>1. Codes(DOMAIN draft[r]) \subseteq Code
    BY DEF Codes
  <2>2. imported \in [Job -> SUBSET Code]
    BY DEF ImportsTyped
  <2> HIDE DEF Codes
  <2> QED
    BY <2>1, <2>2 DEF Keep
<1>5. /\ doing'[r] = "idle" /\ prog'[r] = << >> /\ draft'[r] = << >>
      /\ \A q \in Request \ {r} : prog'[q] = prog[q] /\ draft'[q] = draft[q] /\ doing'[q] = doing[q]
  BY DEF Keep, End, ImportsTyped
<1> QED
  BY <1>2, <1>3, <1>4, <1>5

\* What a commit does to the rows of a student.
LEMMA KeepStudent ==
  ASSUME ImportsInv, NEW r \in Request, Keep(r), NEW c \in Code
  PROVE  /\ Known(c) => Known(c)'
         /\ <<"student", c>> \in DOMAIN draft[r] => Known(c)'
         /\ <<"student", c>> \notin DOMAIN draft[r] => (Known(c)' <=> Known(c))
         /\ <<"enrolment", c>> \in DOMAIN draft[r] =>
              /\ db'[<<"enrolment", c>>] = draft[r][<<"enrolment", c>>]
              /\ db'[<<"enrolment", c>>].seat \in Seat
              /\ db'[<<"enrolment", c>>].seat # NoSeat
              /\ Known(c)' /\ ~ Orphan(c)
         /\ <<"enrolment", c>> \notin DOMAIN draft[r] =>
              db'[<<"enrolment", c>>] = db[<<"enrolment", c>>]
         /\ Orphan(c) => Orphan(c)'
         /\ db'[<<"enrolment", c>>].seat = SeatOf(r, c)
<1> DEFINE S == <<"student", c>>  E == <<"enrolment", c>>
<1>1. ImportsTyped /\ TableFits /\ DraftFits(r)
  BY DEF ImportsInv, RequestFits
<1>2. S \in Key /\ E \in Key /\ S[1] = "student" /\ E[1] = "enrolment"
  BY DEF Key
<1> HIDE DEF S, E
<1>3. S \in DOMAIN draft[r] => db'[S] # "NONE"
  BY <1>1, <1>2, KeepShape DEF Written
<1>4. S \notin DOMAIN draft[r] => db'[S] = db[S]
  BY <1>1, <1>2, KeepShape
<1>5. E \in DOMAIN draft[r] => db'[E] = draft[r][E] /\ db'[E].seat \in Seat /\ db'[E].seat # NoSeat
  <2>1. E \in DOMAIN draft[r] => db'[E] = draft[r][E] /\ draft[r][E] \in [seat : Seat, active : BOOLEAN]
    BY <1>1, <1>2, KeepShape DEF Written
  <2> QED
    BY <2>1, ImportsAssumption
<1>6. E \notin DOMAIN draft[r] => db'[E] = db[E]
  BY <1>1, <1>2, KeepShape
<1>7. /\ Known(c) <=> db[S] # "NONE"
      /\ Known(c)' <=> db'[S] # "NONE"
      /\ Orphan(c) <=> db[S] # "NONE" /\ db[E].seat = NoSeat
      /\ Orphan(c)' <=> db'[S] # "NONE" /\ db'[E].seat = NoSeat
  BY DEF Known, Orphan, S, E
<1>8. E \in DOMAIN draft[r] => db[E].seat # NoSeat \/ (S \in DOMAIN draft[r] /\ db[S] = "NONE")
  BY <1>1 DEF DraftFits, OwnNew, S, E
<1>9. db[E].seat # NoSeat => Known(c)
  BY <1>1 DEF TableFits, E
<1>10. SeatOf(r, c) = IF E \in DOMAIN draft[r] THEN draft[r][E].seat ELSE db[E].seat
  BY DEF SeatOf, Sees, E
<1> QED
  BY <1>3, <1>4, <1>5, <1>6, <1>7, <1>8, <1>9, <1>10 DEF S, E

\* A commit keeps the types.
LEMMA KeepTyped ==
  ASSUME ImportsInv, NEW r \in Request, Keep(r), torn' \subseteq Key,
         UNCHANGED <<file, aged, twice, anonymous, former, gone>>
  PROVE  ImportsTyped'
<1>1. ImportsTyped
  BY DEF ImportsInv
<1>2. ASSUME NEW k \in Key
      PROVE  Written(k, db'[k]) \/ db'[k] = Blank(k) \/ (k[1] = "job" /\ db'[k] = "VALIDATED")
  BY <1>1, KeepShape DEF ImportsTyped
<1>3. /\ DOMAIN draft' = Request /\ prog' \in [Request -> Seq(Task)]
      /\ doing' \in [Request -> Kind \cup Job]
  BY <1>1 DEF Keep, End, ImportsTyped, Kind
<1>4. ASSUME NEW q \in Request
      PROVE  /\ DOMAIN draft'[q] \subseteq Key
             /\ \A i \in DOMAIN draft'[q] : Written(i, draft'[q][i])
  <2>1. CASE q = r
    <3>1. DOMAIN draft'[q] = {}
      BY <1>1, <2>1, KeepShape
    <3> QED
      BY <3>1
  <2>2. CASE q # r
    BY <1>1, <2>2, KeepShape DEF ImportsTyped
  <2> QED
    BY <2>1, <2>2
<1>5. DOMAIN db' = Key /\ imported' \in [Job -> SUBSET Code]
  BY <1>1, KeepShape
<1> QED
  BY <1>1, <1>2, <1>3, <1>4, <1>5 DEF ImportsTyped, Written

\* A commit keeps what each request, the committed one and the others, relies on.
LEMMA KeepFits ==
  ASSUME ImportsInv, NEW r \in Request, Keep(r), UNCHANGED <<file, gone>>, NEW q \in Request
  PROVE  RequestFits(q)'
<1>1. ImportsTyped /\ RequestFits(q) /\ Disjoint
  BY DEF ImportsInv
<1>2. CASE q = r
  <2>1. doing'[r] = "idle" /\ prog'[r] = << >> /\ draft'[r] = << >>
    BY <1>1, KeepShape
  <2> QED
    BY <1>2, <2>1, FitsIdle
<1>3. CASE q # r
  <2>1. prog'[q] = prog[q] /\ draft'[q] = draft[q] /\ doing'[q] = doing[q]
    BY <1>1, <1>3, KeepShape
  <2>2. ASSUME NEW c \in Code, <<"student", c>> \in DOMAIN draft[q]
        PROVE  db'[<<"student", c>>] = db[<<"student", c>>]
    <3>1. <<"student", c>> \notin DOMAIN draft[r] /\ <<"student", c>> \in Key
      BY <1>1, <1>3, <2>2 DEF Disjoint, ImportsTyped
    <3> QED
      BY <1>1, <3>1, KeepShape
  <2>3. \A c \in Code : Known(c) => Known(c)'
    BY KeepStudent
  <2>4. \A c \in Code : Orphan(c) => Orphan(c)'
    BY KeepStudent
  <2>5. \A c \in Code : db[<<"enrolment", c>>].seat # NoSeat => db'[<<"enrolment", c>>].seat # NoSeat
    BY KeepStudent
  <2> QED
    BY <1>1, <2>1, <2>2, <2>3, <2>4, <2>5, FitsStays
<1> QED
  BY <1>2, <1>3

\* A commit keeps the drafts disjoint, the tables in order and each place held once.
LEMMA KeepTables ==
  ASSUME ImportsInv, NEW r \in Request, Keep(r), UNCHANGED <<file, gone>>
  PROVE  Disjoint' /\ FilesFit' /\ TableFits' /\ SeatsFit'
<1>1. ImportsTyped
  BY DEF ImportsInv
<1>2. /\ draft'[r] = << >>
      /\ \A q \in Request \ {r} : draft'[q] = draft[q]
  BY <1>1, KeepShape
<1>3. DOMAIN draft'[r] = {}
  BY <1>2
<1>4. Disjoint'
  BY <1>2, <1>3 DEF ImportsInv, Disjoint
<1>5. FilesFit'
  <2>1. ASSUME NEW j \in Job, file[j].mode = "UPDATE_EXISTING", NEW row \in RowsOf(j)
        PROVE  Known(row[1])' \/ <<j, row[1]>> \in gone
    <3>1. row \in Row
      BY <1>1, <2>1 DEF RowsOf, ImportsTyped
    <3>2. row[1] \in Code /\ (Known(row[1]) \/ <<j, row[1]>> \in gone)
      BY <2>1, <3>1 DEF ImportsInv, FilesFit, Row
    <3> QED
      BY <3>2, KeepStudent DEF Known
  <2> QED
    BY <2>1 DEF ImportsInv, FilesFit, RowsOf, Known
<1>6. TableFits'
  <2>1. ASSUME NEW c \in Code
        PROVE  /\ db'[<<"enrolment", c>>].seat # NoSeat => Known(c)'
               /\ db'[<<"enrolment", c>>].active => db'[<<"enrolment", c>>].seat # NoSeat
    <3>1. CASE <<"enrolment", c>> \in DOMAIN draft[r]
      BY <3>1, KeepStudent
    <3>2. CASE <<"enrolment", c>> \notin DOMAIN draft[r]
      BY <3>2, KeepStudent DEF ImportsInv, TableFits
    <3> QED
      BY <3>1, <3>2
  <2> QED
    BY <2>1 DEF TableFits
<1>7. SeatsFit'
  <2>1. \A c \in Code : db'[<<"enrolment", c>>].seat = SeatOf(r, c)
    BY KeepStudent
  <2>2. ASSUME NEW c \in Code, NEW e \in Code, c # e, db'[<<"enrolment", c>>].seat # NoSeat
        PROVE  db'[<<"enrolment", c>>].seat # db'[<<"enrolment", e>>].seat
    BY <2>1, <2>2 DEF ImportsInv, SeatsFit
  <2>3. ASSUME NEW q \in Request, NEW c \in Code
        PROVE  SeatOf(q, c)' = IF q # r /\ <<"enrolment", c>> \in DOMAIN draft[q]
                               THEN draft[q][<<"enrolment", c>>].seat ELSE db'[<<"enrolment", c>>].seat
    BY <1>2, <1>3 DEF SeatOf, Sees
  <2>4. ASSUME NEW q \in Request, q # r, NEW c \in Code, NEW e \in Code, c # e,
               <<"enrolment", c>> \in DOMAIN draft[q], <<"enrolment", e>> \notin DOMAIN draft[q]
        PROVE  draft[q][<<"enrolment", c>>].seat # db'[<<"enrolment", e>>].seat
    <3>1. CASE <<"enrolment", e>> \in DOMAIN draft[r]
      <4>1. db'[<<"enrolment", e>>] = draft[r][<<"enrolment", e>>]
        BY <3>1, KeepStudent
      <4>2. draft[q][<<"enrolment", c>>].seat # draft[r][<<"enrolment", e>>].seat
        BY <2>4, <3>1 DEF ImportsInv, SeatsFit
      <4> QED
        BY <4>1, <4>2
    <3>2. CASE <<"enrolment", e>> \notin DOMAIN draft[r]
      <4>1. db'[<<"enrolment", e>>].seat = SeatOf(q, e)
        BY <2>4, <3>2, KeepStudent DEF SeatOf, Sees
      <4>2. draft[q][<<"enrolment", c>>].seat = SeatOf(q, c)
        BY <2>4 DEF SeatOf, Sees
      <4>3. SeatOf(q, c) # NoSeat
        <5>1. Written(<<"enrolment", c>>, draft[q][<<"enrolment", c>>])
          BY <1>1, <2>4 DEF ImportsTyped
        <5> QED
          BY <4>2, <5>1, ImportsAssumption DEF Written
      <4> QED
        BY <2>4, <4>1, <4>2, <4>3 DEF ImportsInv, SeatsFit
    <3> QED
      BY <3>1, <3>2
  <2>5. ASSUME NEW q \in Request, NEW c \in Code, NEW e \in Code, c # e, SeatOf(q, c)' # NoSeat
        PROVE  SeatOf(q, c)' # SeatOf(q, e)'
    <3>1. CASE q = r \/ (<<"enrolment", c>> \notin DOMAIN draft[q] /\ <<"enrolment", e>> \notin DOMAIN draft[q])
      BY <2>2, <2>3, <2>5, <3>1
    <3>2. CASE q # r /\ <<"enrolment", c>> \in DOMAIN draft[q] /\ <<"enrolment", e>> \in DOMAIN draft[q]
      <4>1. SeatOf(q, c)' = SeatOf(q, c) /\ SeatOf(q, e)' = SeatOf(q, e)
        BY <2>3, <3>2 DEF SeatOf, Sees
      <4> QED
        BY <2>5, <4>1 DEF ImportsInv, SeatsFit
    <3>3. CASE q # r /\ <<"enrolment", c>> \in DOMAIN draft[q] /\ <<"enrolment", e>> \notin DOMAIN draft[q]
      BY <2>3, <2>4, <2>5, <3>3
    <3>4. CASE q # r /\ <<"enrolment", c>> \notin DOMAIN draft[q] /\ <<"enrolment", e>> \in DOMAIN draft[q]
      BY <2>3, <2>4, <2>5, <3>4
    <3> QED
      BY <3>1, <3>2, <3>3, <3>4
  <2>6. ASSUME NEW q \in Request, NEW o \in Request, NEW c \in Code, NEW e \in Code,
               q # o, c # e, <<"enrolment", c>> \in DOMAIN draft'[q],
               <<"enrolment", e>> \in DOMAIN draft'[o]
        PROVE  draft'[q][<<"enrolment", c>>].seat # draft'[o][<<"enrolment", e>>].seat
    BY <1>2, <1>3, <2>6 DEF ImportsInv, SeatsFit
  <2> QED
    BY <2>2, <2>5, <2>6 DEF SeatsFit
<1> QED
  BY <1>4, <1>5, <1>6, <1>7

\* A confirmation that is cut has not marked its job COMPLETED or FAILED, one
\* that commits has.
LEMMA KeepJobs ==
  ASSUME ImportsInv, NEW r \in Request, Keep(r), UNCHANGED <<file, twice>>,
         \/ prog[r] = << >> /\ torn' = torn
         \/ prog[r] # << >> /\ torn' = torn \cup DOMAIN draft[r]
  PROVE  JobsHold'
<1>1. ImportsTyped /\ PhaseFits(r) /\ JobsHold /\ FailedImportsNobody
  BY DEF ImportsInv, RequestFits, JobsHold
<1>2. "idle" \notin Job
  BY ImportsAssumption DEF Kind
<1>3. /\ \A k \in DOMAIN draft[r] : k \in Key /\ db'[k] = draft[r][k] /\ Written(k, draft[r][k])
      /\ \A k \in Key \ DOMAIN draft[r] : db'[k] = db[k]
      /\ \A j \in Job : imported'[j] = IF doing[r] = j THEN imported[j] \cup Codes(DOMAIN draft[r])
                                       ELSE imported[j]
      /\ doing'[r] = "idle"
      /\ \A q \in Request \ {r} : doing'[q] = doing[q]
  BY <1>1, KeepShape
<1>4. \A j \in Job : <<"job", j>> \in Key
  BY DEF Key
<1>5. ASSUME NEW j \in Job, <<"job", j>> \in DOMAIN draft[r]
      PROVE  /\ doing[r] = j /\ JobRow(r) = <<"job", j>>
             /\ \/ <<"job", j>> \in torn' /\ db'[<<"job", j>>] = "PROCESSING"
                \/ db'[<<"job", j>>] = "COMPLETED"
                \/ db'[<<"job", j>>] = "FAILED" /\ DOMAIN draft[r] = {<<"job", j>>}
  <2>1. <<"job", j>> = JobRow(r)
    BY <1>1, <1>5 DEF PhaseFits
  <2>2. doing[r] = j
    BY <2>1 DEF JobRow
  <2>3. db'[<<"job", j>>] = draft[r][<<"job", j>>]
    BY <1>3, <1>5
  <2>4. CASE Settled(r)
    BY <2>1, <2>2, <2>3, <2>4 DEF Settled, Has
  <2>5. CASE Underway(r)
    BY <1>5, <2>1, <2>2, <2>3, <2>5 DEF Underway, Has
  <2>6. ~ Staged(r)
    BY <1>5 DEF Staged
  <2> QED
    BY <1>1, <2>1, <2>2, <2>4, <2>5, <2>6 DEF PhaseFits
<1>6. ASSUME NEW j \in Job, <<"job", j>> \notin DOMAIN draft[r]
      PROVE  /\ db'[<<"job", j>>] = db[<<"job", j>>]
             /\ imported'[j] = imported[j]
  <2>1. db'[<<"job", j>>] = db[<<"job", j>>]
    BY <1>3, <1>4, <1>6
  <2>2. CASE doing[r] = j
    <3>1. Staged(r)
      BY <1>1, <1>6, <2>2 DEF PhaseFits, Underway, Settled, Has, JobRow
    <3>2. Codes(DOMAIN draft[r]) = {}
      BY <3>1 DEF Staged, Codes
    <3> QED
      BY <1>3, <2>1, <3>2
  <2> QED
    BY <1>3, <2>1, <2>2
<1>7. \A j \in Job : torn \subseteq torn' /\ (doing[r] = j => imported[j] = {} \/ j \in twice \/ <<"job", j>> \in torn)
  BY <1>1 DEF JobsHold, JobRow, Fresh
<1>8. ASSUME NEW j \in Job
      PROVE  /\ db'[<<"job", j>>] \in {"NONE", "VALIDATED"} => imported'[j] = {}
             /\ db'[<<"job", j>>] = "PROCESSING" => <<"job", j>> \in torn'
  <2>1. CASE <<"job", j>> \in DOMAIN draft[r]
    BY <1>5, <2>1
  <2>2. CASE <<"job", j>> \notin DOMAIN draft[r]
    BY <1>1, <1>6, <1>7, <2>2 DEF JobsHold
  <2> QED
    BY <2>1, <2>2
<1>9. FailedImportsNobody'
  <2>1. ASSUME NEW j \in Job, db'[<<"job", j>>] = "FAILED"
        PROVE  imported'[j] = {} \/ j \in twice' \/ <<"job", j>> \in torn'
    <3>1. CASE <<"job", j>> \in DOMAIN draft[r]
      <4>1. doing[r] = j /\ DOMAIN draft[r] = {<<"job", j>>}
        BY <1>5, <2>1, <3>1
      <4>2. Codes(DOMAIN draft[r]) = {}
        BY <4>1 DEF Codes
      <4>3. imported'[j] = imported[j]
        BY <1>3, <4>1, <4>2
      <4> QED
        BY <1>7, <4>1, <4>3
    <3>2. CASE <<"job", j>> \notin DOMAIN draft[r]
      BY <1>1, <1>6, <1>7, <2>1, <3>2 DEF FailedImportsNobody
    <3> QED
      BY <3>1, <3>2
  <2> QED
    BY <2>1 DEF FailedImportsNobody
<1>10. ASSUME NEW q \in Request, doing'[q] \in Job
       PROVE  /\ db'[<<"job", doing'[q]>>] # "NONE"
              /\ \/ db'[<<"job", doing'[q]>>] = "VALIDATED" /\ imported'[doing'[q]] = {}
                 \/ doing'[q] \in twice' \/ <<"job", doing'[q]>> \in torn'
              /\ \A o \in Request : o # q /\ doing'[o] = doing'[q] => doing'[q] \in twice'
  <2>1. q # r /\ doing'[q] = doing[q] /\ doing[q] \in Job
    BY <1>2, <1>3, <1>10
  <2>2. PICK j \in Job : doing[q] = j
    BY <2>1
  <2>3. /\ db[<<"job", j>>] # "NONE"
        /\ (db[<<"job", j>>] = "VALIDATED" /\ imported[j] = {}) \/ j \in twice \/ <<"job", j>> \in torn
        /\ \A o \in Request : o # q /\ doing[o] = j => j \in twice
    BY <1>1, <2>2 DEF JobsHold, JobRow, Fresh
  <2>4. db'[<<"job", j>>] # "NONE"
    BY <1>5, <1>6, <2>3
  <2>5. (db'[<<"job", j>>] = "VALIDATED" /\ imported'[j] = {}) \/ j \in twice' \/ <<"job", j>> \in torn'
    <3>1. CASE <<"job", j>> \in DOMAIN draft[r]
      BY <1>5, <2>1, <2>3, <3>1
    <3>2. CASE <<"job", j>> \notin DOMAIN draft[r]
      BY <1>6, <1>7, <2>3, <3>2
    <3> QED
      BY <3>1, <3>2
  <2>6. \A o \in Request : o # q /\ doing'[o] = j => j \in twice'
    BY <1>2, <1>3, <2>3
  <2> QED
    BY <2>1, <2>2, <2>4, <2>5, <2>6
<1> QED
  BY <1>8, <1>9, <1>10 DEF JobsHold, JobRow, Fresh

\* A student without an enrolment has been committed by a cut.
LEMMA KeepEnrolled ==
  ASSUME ImportsInv, NEW r \in Request, Keep(r), UNCHANGED former,
         \/ prog[r] = << >> /\ torn' = torn
         \/ prog[r] # << >> /\ torn' = torn \cup DOMAIN draft[r]
  PROVE  StudentIsEnrolled'
<1>1. ASSUME NEW c \in Code, Known(c)'
      PROVE  db'[<<"enrolment", c>>].seat # NoSeat \/ <<"student", c>> \in torn' \/ c \in former'
  <2>1. CASE <<"enrolment", c>> \in DOMAIN draft[r]
    BY <2>1, KeepStudent
  <2>2. CASE <<"enrolment", c>> \notin DOMAIN draft[r] /\ Known(c)
    <3>1. db'[<<"enrolment", c>>] = db[<<"enrolment", c>>]
      BY <2>2, KeepStudent
    <3>2. db[<<"enrolment", c>>].seat # NoSeat \/ <<"student", c>> \in torn \/ c \in former
      BY <2>2 DEF ImportsInv, StudentIsEnrolled
    <3> QED
      BY <3>1, <3>2
  <2>3. CASE <<"enrolment", c>> \notin DOMAIN draft[r] /\ ~ Known(c)
    <3>1. OwnNew(r, c)
      BY <1>1, <2>3, KeepStudent DEF OwnNew, Known
    <3>2. Later(prog[r], 0, "enrolment", c)
      BY <2>3, <3>1 DEF ImportsInv, RequestFits, DraftFits
    <3>3. prog[r] # << >>
      <4>1. ASSUME prog[r] = << >> PROVE FALSE
        <5>1. Len(prog[r]) = 0
          BY <4>1
        <5>2. 0 + 1 .. Len(prog[r]) = {}
          BY <5>1
        <5> QED
          BY <3>2, <5>2 DEF Later
      <4> QED
        BY <4>1
    <3> QED
      BY <3>1, <3>3 DEF OwnNew
  <2> QED
    BY <2>1, <2>2, <2>3
<1> QED
  BY <1>1 DEF StudentIsEnrolled, Known

\* A commit keeps the invariant.
LEMMA CommitSafe ==
  ASSUME ImportsInv, NEW r \in Request, Commit(r)
  PROVE  ImportsInv'
<1>1. /\ Keep(r) /\ prog[r] = << >>
      /\ UNCHANGED <<file, aged, twice, torn, anonymous, former, gone>>
  BY DEF Commit, identities
<1>2. torn' \subseteq Key
  BY <1>1 DEF ImportsInv, ImportsTyped
<1>3. ImportsTyped'
  BY <1>1, <1>2, KeepTyped
<1>4. Disjoint' /\ FilesFit' /\ TableFits' /\ SeatsFit'
  BY <1>1, KeepTables
<1>5. JobsHold'
  BY <1>1, KeepJobs
<1>6. StudentIsEnrolled'
  BY <1>1, KeepEnrolled
<1>7. \A q \in Request : RequestFits(q)'
  BY <1>1, KeepFits
<1> QED
  BY <1>3, <1>4, <1>5, <1>6, <1>7 DEF ImportsInv

\* A commit in the middle of a request keeps the invariant.
LEMMA CutSafe ==
  ASSUME ImportsInv, NEW r \in Request, Cut(r)
  PROVE  ImportsInv'
<1>1. /\ Keep(r) /\ prog[r] # << >>
      /\ UNCHANGED <<file, aged, twice, anonymous, former, gone>>
      /\ torn' = torn \cup DOMAIN draft[r]
  BY DEF Cut, identities
<1>2. torn' \subseteq Key
  BY <1>1 DEF ImportsInv, ImportsTyped
<1>3. ImportsTyped'
  BY <1>1, <1>2, KeepTyped
<1>4. Disjoint' /\ FilesFit' /\ TableFits' /\ SeatsFit'
  BY <1>1, KeepTables
<1>5. JobsHold'
  BY <1>1, KeepJobs
<1>6. StudentIsEnrolled'
  BY <1>1, KeepEnrolled
<1>7. \A q \in Request : RequestFits(q)'
  BY <1>1, KeepFits
<1> QED
  BY <1>3, <1>4, <1>5, <1>6, <1>7 DEF ImportsInv

-----------------------------------------------------------------------------
(* Requests that begin, and uploads *)

\* What the start of a request changes.
LEMMA BeginTyped ==
  ASSUME ImportsTyped, NEW r \in Request, NEW kind \in Kind \cup Job, NEW p \in Seq(Task),
         Begin(r, kind, p), twice' \subseteq Job,
         UNCHANGED <<db, draft, file, aged, torn, imported, anonymous, former, gone>>
  PROVE  /\ ImportsTyped'
         /\ prog'[r] = p /\ doing'[r] = kind /\ doing[r] = "idle"
         /\ \A q \in Request \ {r} : prog'[q] = prog[q] /\ doing'[q] = doing[q]
<1>1. prog \in [Request -> Seq(Task)] /\ doing \in [Request -> Kind \cup Job]
  BY DEF ImportsTyped
<1>2. prog' \in [Request -> Seq(Task)] /\ doing' \in [Request -> Kind \cup Job]
  BY <1>1 DEF Begin
<1>3. /\ prog'[r] = p /\ doing'[r] = kind /\ doing[r] = "idle"
      /\ \A q \in Request \ {r} : prog'[q] = prog[q] /\ doing'[q] = doing[q]
  BY <1>1 DEF Begin
<1> QED
  BY <1>2, <1>3 DEF ImportsTyped, Written

\* The start of every request but a confirmation keeps the invariant.
LEMMA StartSafe ==
  ASSUME ImportsInv, NEW r \in Request, Start(r)
  PROVE  ImportsInv'
<1>1. PICK kind, p : Programs(kind, p) /\ Begin(r, kind, p)
  BY StartPrograms
<1>2. UNCHANGED <<db, draft, file, aged, twice, torn, imported, anonymous, former, gone>>
  BY DEF Start, identities
<1>3. kind \in Kind \ {"idle"} /\ p \in Seq(Task) /\ Ordered(kind, p) /\ kind \notin Job
  BY <1>1, ImportsAssumption DEF Programs
<1>4. ImportsTyped /\ RequestFits(r) /\ twice' \subseteq Job
  BY <1>2 DEF ImportsInv, ImportsTyped
<1>5. /\ ImportsTyped'
      /\ prog'[r] = p /\ doing'[r] = kind /\ doing[r] = "idle"
      /\ \A q \in Request \ {r} : prog'[q] = prog[q] /\ doing'[q] = doing[q]
  BY <1>1, <1>2, <1>3, <1>4, BeginTyped
<1>6. RequestFits(r)'
  BY <1>2, <1>3, <1>4, <1>5, FitsBegins
<1>7. \A q \in Request \ {r} : RequestFits(q)'
  BY <1>2, <1>5, OthersStay
<1>8. FilesFit' /\ TableFits' /\ StudentIsEnrolled' /\ JobsHold'
  BY <1>2, <1>3, <1>5, SameTables
<1>9. Disjoint' /\ SeatsFit'
  <2>1. \A q \in Request : Drops(q)
    BY <1>2 DEF Drops
  <2> QED
    BY <1>2, <2>1, SameSeats
<1> QED
  BY <1>5, <1>6, <1>7, <1>8, <1>9 DEF ImportsInv

\* The program of a confirmation.
LEMMA ConfirmProgram ==
  ASSUME ImportsTyped, FilesFit, NEW j \in Job
  PROVE  /\ << <<"job", j, "FAILED">> >> \in Seq(Task)
         /\ << <<"job", j, "PROCESSING">> >> \o RowStatements(file[j])
              \o << <<"job", j, "COMPLETED">> >> \in Seq(Task)
         /\ FollowsFile(j, RowStatements(file[j]))
<1> DEFINE s == RowStatements(file[j])  a == <<"job", j, "PROCESSING">>
           b == <<"job", j, "COMPLETED">>  f == <<"job", j, "FAILED">>
<1>1. FollowsFile(j, s)
  BY CreateOnlyFile, LookupFile
<1>2. a \in Task /\ b \in Task /\ f \in Task
  BY DEF Task
<1>3. s \in Seq(Task)
  BY <1>1 DEF FollowsFile
<1> HIDE DEF s, a, b, f
<1>4. << a >> \in Seq(Task) /\ << b >> \in Seq(Task) /\ << f >> \in Seq(Task)
  BY <1>2
<1>5. << a >> \o s \in Seq(Task)
  BY <1>3, <1>4
<1>6. << a >> \o s \o << b >> \in Seq(Task)
  BY <1>4, <1>5
<1> QED
  BY <1>1, <1>4, <1>6 DEF s, a, b, f

\* The start of a confirmation keeps the invariant: its token is valid.
LEMMA ConfirmSafe ==
  ASSUME ImportsInv, NEW r \in Request, NEW j \in Job, Confirm(r, j)
  PROVE  ImportsInv'
<1> DEFINE given == << <<"job", j, "FAILED">> >>
           full == << <<"job", j, "PROCESSING">> >> \o RowStatements(file[j])
                     \o << <<"job", j, "COMPLETED">> >>
<1>0. ImportsTyped /\ FilesFit /\ JobsHold /\ RequestFits(r)
  BY DEF ImportsInv
<1>1. /\ given \in Seq(Task) /\ full \in Seq(Task) /\ FollowsFile(j, RowStatements(file[j]))
  BY <1>0, ConfirmProgram
<1>2. /\ UNCHANGED <<db, draft, file, aged, torn, imported, anonymous, former, gone>>
      /\ db[<<"job", j>>] = "VALIDATED"
      /\ twice \subseteq twice' /\ twice' \subseteq Job
      /\ \A q \in Request : doing[q] = j => j \in twice'
      /\ \A i \in Job : i \in twice => i \in twice'
  BY <1>0 DEF Confirm, ImportsTyped, identities
<1>3. \/ Begin(r, j, given)
      \/ Begin(r, j, full)
  BY DEF Confirm
<1>4. /\ ImportsTyped'
      /\ prog'[r] = given \/ prog'[r] = full
      /\ doing'[r] = j /\ doing[r] = "idle"
      /\ \A q \in Request \ {r} : prog'[q] = prog[q] /\ doing'[q] = doing[q]
  <2> HIDE DEF given, full
  <2> QED
    BY <1>0, <1>1, <1>2, <1>3, BeginTyped
<1>5. RequestFits(r)'
  <2>1. CASE prog'[r] = given
    BY <1>0, <1>2, <1>4, <2>1, FitsGivenUp
  <2>2. CASE prog'[r] = full
    BY <1>0, <1>1, <1>2, <1>4, <2>2, FitsConfirmed
  <2> QED
    BY <1>4, <2>1, <2>2
<1>6. \A q \in Request \ {r} : RequestFits(q)'
  BY <1>2, <1>4, OthersStay
<1>7. FilesFit' /\ TableFits' /\ StudentIsEnrolled'
  <2>1. FilesFit'
    BY <1>2 DEF ImportsInv, FilesFit, Known, RowsOf
  <2>2. TableFits'
    BY <1>2 DEF ImportsInv, TableFits, Known
  <2>3. StudentIsEnrolled'
    BY <1>2 DEF ImportsInv, StudentIsEnrolled, Known
  <2> QED
    BY <2>1, <2>2, <2>3
<1>8. JobsHold'
  <2>1. FailedImportsNobody'
    BY <1>0, <1>2 DEF JobsHold, FailedImportsNobody
  <2>2. \A i \in Job :
          /\ db'[<<"job", i>>] \in {"NONE", "VALIDATED"} => imported'[i] = {}
          /\ db'[<<"job", i>>] = "PROCESSING" => <<"job", i>> \in torn'
    BY <1>0, <1>2 DEF JobsHold
  <2>3. ASSUME NEW q \in Request, doing'[q] \in Job
        PROVE  /\ db'[<<"job", doing'[q]>>] # "NONE"
               /\ \/ db'[<<"job", doing'[q]>>] = "VALIDATED" /\ imported'[doing'[q]] = {}
                  \/ doing'[q] \in twice' \/ <<"job", doing'[q]>> \in torn'
               /\ \A o \in Request : o # q /\ doing'[o] = doing'[q] => doing'[q] \in twice'
    <3>1. CASE q = r
      <4>1. doing'[q] = j
        BY <1>4, <3>1
      <4>2. imported'[j] = {}
        BY <1>2, <2>2
      <4>3. \A o \in Request : o # q /\ doing'[o] = j => j \in twice'
        BY <1>2, <1>4, <3>1
      <4> QED
        BY <1>2, <4>1, <4>2, <4>3
    <3>2. CASE q # r
      <4>1. doing'[q] = doing[q]
        BY <1>4, <3>2
      <4>2. PICK i \in Job : doing[q] = i
        BY <2>3, <4>1
      <4>3. /\ db[<<"job", i>>] # "NONE"
            /\ (db[<<"job", i>>] = "VALIDATED" /\ imported[i] = {}) \/ i \in twice \/ <<"job", i>> \in torn
            /\ \A o \in Request : o # q /\ doing[o] = i => i \in twice
        BY <1>0, <4>2 DEF JobsHold, JobRow, Fresh
      <4>4. \A o \in Request : o # q /\ doing'[o] = i => i \in twice'
        BY <1>2, <1>4, <3>2, <4>2, <4>3
      <4> QED
        BY <1>2, <4>1, <4>2, <4>3, <4>4
    <3> QED
      BY <3>1, <3>2
  <2> QED
    BY <2>1, <2>2, <2>3 DEF JobsHold, JobRow, Fresh
<1>9. Disjoint' /\ SeatsFit'
  <2>1. \A q \in Request : Drops(q)
    BY <1>2 DEF Drops
  <2> QED
    BY <1>2, <2>1, SameSeats
<1> QED
  BY <1>4, <1>5, <1>6, <1>7, <1>8, <1>9 DEF ImportsInv

\* A lock that ages keeps the invariant.
LEMMA AgeSafe ==
  ASSUME ImportsInv, NEW j \in Job, Age(j)
  PROVE  ImportsInv'
<1>1. /\ UNCHANGED <<db, draft, prog, doing, file, twice, torn, imported, anonymous, former, gone>>
      /\ aged' = aged \cup {j}
  BY DEF Age, identities
<1>2. ImportsTyped'
  BY <1>1 DEF ImportsInv, ImportsTyped, Written
<1>3. \A q \in Request : RequestFits(q)'
  BY <1>1, OthersStay
<1>4. FilesFit' /\ TableFits' /\ StudentIsEnrolled' /\ JobsHold'
  BY <1>1, SameTables
<1>5. Disjoint' /\ SeatsFit'
  <2>1. \A q \in Request : Drops(q)
    BY <1>1 DEF Drops
  <2> QED
    BY <1>1, <2>1, SameSeats
<1> QED
  BY <1>2, <1>3, <1>4, <1>5 DEF ImportsInv

\* An upload writes the rows of jobs, none that an open confirmation stands on.
LEMMA ValidateShape ==
  ASSUME ImportsTyped, NEW j \in Job, NEW mode \in Mode, NEW rows \in Files, Validate(j, mode, rows)
  PROVE  /\ DOMAIN db' = Key
         /\ \A k \in Key : k[1] # "job" => db'[k] = db[k]
         /\ \A i \in Job \ {j} :
              \/ db'[<<"job", i>>] = db[<<"job", i>>]
              \/ db[<<"job", i>>] = "PROCESSING" /\ db'[<<"job", i>>] = "FAILED"
         /\ db[<<"job", j>>] = "NONE"
         /\ db'[<<"job", j>>] \in {"NONE", "VALIDATED", "FAILED"}
         /\ \/ file' = file
            \/ /\ file' = [file EXCEPT ![j] = [mode |-> mode, rows |-> rows]]
               /\ Valid(mode, rows)
<1> DEFINE expired == {"job"} \X (Processing \cap aged)
           after == [k \in Key |-> IF k \in expired THEN "FAILED" ELSE db[k]]
           row == <<"job", j>>
<1>1. row \in Key /\ db[row] = "NONE"
  BY DEF Key, Validate
<1>2. row \notin expired
  BY <1>1 DEF Processing
<1>3. /\ \A k \in Key : k[1] # "job" => after[k] = db[k]
      /\ DOMAIN after = Key /\ after[row] = "NONE"
  BY <1>1, <1>2
<1>4. \A i \in Job : \/ after[<<"job", i>>] = db[<<"job", i>>]
                     \/ db[<<"job", i>>] = "PROCESSING" /\ after[<<"job", i>>] = "FAILED"
  BY DEF Processing, Key
<1>5. \/ db' = [after EXCEPT ![row] = "VALIDATED"]
      \/ db' = [after EXCEPT ![row] = "FAILED"]
      \/ db' = after
  BY DEF Validate
<1>6. \/ file' = file
      \/ file' = [file EXCEPT ![j] = [mode |-> mode, rows |-> rows]] /\ Valid(mode, rows)
  BY DEF Validate
<1> HIDE DEF after
<1>7. /\ DOMAIN db' = Key /\ db'[row] \in {"NONE", "VALIDATED", "FAILED"}
      /\ \A k \in Key \ {row} : db'[k] = after[k]
  BY <1>1, <1>3, <1>5
<1>8. \A i \in Job \ {j} : <<"job", i>> \in Key \ {row}
  BY DEF Key
<1>9. \A k \in Key : k[1] # "job" => k \in Key \ {row}
  OBVIOUS
<1> HIDE DEF row
<1>10. \A k \in Key : k[1] # "job" => db'[k] = db[k]
  BY <1>3, <1>7, <1>9
<1>11. \A i \in Job \ {j} :
         \/ db'[<<"job", i>>] = db[<<"job", i>>]
         \/ db[<<"job", i>>] = "PROCESSING" /\ db'[<<"job", i>>] = "FAILED"
  BY <1>4, <1>7, <1>8
<1> QED
  BY <1>1, <1>6, <1>7, <1>10, <1>11 DEF row

\* An upload keeps the invariant: nobody confirms the job whose file it replaces.
LEMMA ValidateSafe ==
  ASSUME ImportsInv, NEW j \in Job, NEW mode \in Mode, NEW rows \in Files, Validate(j, mode, rows)
  PROVE  ImportsInv'
<1>0. ImportsTyped /\ JobsHold /\ FailedImportsNobody
  BY DEF ImportsInv, JobsHold
<1>1. UNCHANGED <<draft, prog, doing, aged, twice, torn, imported, anonymous, former, gone>>
  BY DEF Validate, identities
<1>2. /\ DOMAIN db' = Key
      /\ \A k \in Key : k[1] # "job" => db'[k] = db[k]
      /\ \A i \in Job \ {j} :
           \/ db'[<<"job", i>>] = db[<<"job", i>>]
           \/ db[<<"job", i>>] = "PROCESSING" /\ db'[<<"job", i>>] = "FAILED"
      /\ db[<<"job", j>>] = "NONE"
      /\ db'[<<"job", j>>] \in {"NONE", "VALIDATED", "FAILED"}
      /\ \/ file' = file
         \/ file' = [file EXCEPT ![j] = [mode |-> mode, rows |-> rows]] /\ Valid(mode, rows)
  BY <1>0, ValidateShape
<1>3. \A c \in Code : /\ db'[<<"student", c>>] = db[<<"student", c>>]
                      /\ db'[<<"enrolment", c>>] = db[<<"enrolment", c>>]
                      /\ db'[<<"qr", c>>] = db[<<"qr", c>>]
  <2>1. \A c \in Code : <<"student", c>> \in Key /\ <<"enrolment", c>> \in Key /\ <<"qr", c>> \in Key
    BY DEF Key
  <2>2. \A c \in Code : <<"student", c>>[1] # "job" /\ <<"enrolment", c>>[1] # "job" /\ <<"qr", c>>[1] # "job"
    OBVIOUS
  <2> QED
    BY <1>2, <2>1, <2>2
<1>4. \A c \in Code : (Known(c)' <=> Known(c)) /\ (Orphan(c)' <=> Orphan(c))
  BY <1>3 DEF Known, Orphan
<1>5. /\ rows \in Seq(Row) /\ Injective(rows, 1)
      /\ \A i \in DOMAIN rows : rows[i] \in Row /\ rows[i][1] \in Code
  <2>1. rows \in Seq(Row) /\ Injective(rows, 1)
    BY FileShape
  <2>2. \A i \in DOMAIN rows : rows[i] \in Row
    BY <2>1
  <2> QED
    BY <2>1, <2>2 DEF Row
<1>6. /\ file' \in [Job -> [mode : Mode, rows : Seq(Row)]]
      /\ \A i \in Job \ {j} : file'[i] = file[i]
      /\ \/ file'[j] = file[j]
         \/ file'[j].mode = mode /\ file'[j].rows = rows /\ Valid(mode, rows)
  <2>1. file \in [Job -> [mode : Mode, rows : Seq(Row)]]
    BY <1>0 DEF ImportsTyped
  <2>2. [mode |-> mode, rows |-> rows] \in [mode : Mode, rows : Seq(Row)]
    BY <1>5
  <2> QED
    BY <1>2, <2>1, <2>2
<1>7. ImportsTyped'
  <2>1. ASSUME NEW k \in Key
        PROVE  Written(k, db'[k]) \/ db'[k] = Blank(k) \/ (k[1] = "job" /\ db'[k] = "VALIDATED")
    <3>1. CASE k[1] # "job"
      BY <1>0, <1>2, <3>1 DEF ImportsTyped
    <3>2. CASE k[1] = "job"
      <4>1. PICK i \in Job : k = <<"job", i>>
        BY <3>2 DEF Key
      <4>2. CASE i = j
        BY <1>2, <4>1, <4>2 DEF Written, Blank
      <4>3. CASE i # j /\ db'[k] = "FAILED"
        BY <4>1, <4>3 DEF Written
      <4>4. CASE i # j /\ db'[k] = db[k]
        BY <1>0, <4>4 DEF ImportsTyped
      <4> QED
        BY <1>2, <4>1, <4>2, <4>3, <4>4
    <3> QED
      BY <3>1, <3>2
  <2> QED
    BY <1>0, <1>1, <1>2, <1>6, <2>1 DEF ImportsTyped, Written
<1>8. ASSUME NEW q \in Request PROVE RequestFits(q)'
  <2>1. doing[q] \in Job => doing[q] # j
    BY <1>0, <1>2 DEF JobsHold, JobRow
  <2>2. doing[q] \in Job => file'[doing[q]] = file[doing[q]]
    BY <1>6, <2>1
  <2>3. RequestFits(q)
    BY DEF ImportsInv
  <2>4. prog'[q] = prog[q] /\ draft'[q] = draft[q] /\ doing'[q] = doing[q]
    BY <1>1
  <2>5. /\ \A c \in Code : Known(c) => Known(c)'
        /\ \A c \in Code : Orphan(c) => Orphan(c)'
    BY <1>4
  <2>6. /\ \A c \in Code : <<"student", c>> \in DOMAIN draft[q] =>
             db'[<<"student", c>>] = db[<<"student", c>>]
        /\ \A c \in Code : db[<<"enrolment", c>>].seat # NoSeat => db'[<<"enrolment", c>>].seat # NoSeat
    BY <1>3
  <2> QED
    BY <1>0, <1>1, <2>2, <2>3, <2>4, <2>5, <2>6, FitsStays
<1>9. Disjoint'
  BY <1>1 DEF ImportsInv, Disjoint
<1>10. TableFits'
  BY <1>3, <1>4 DEF ImportsInv, TableFits
<1>11. StudentIsEnrolled'
  BY <1>1, <1>3, <1>4 DEF ImportsInv, StudentIsEnrolled
<1>12. SeatsFit'
  <2>1. \A q \in Request, c \in Code : SeatOf(q, c)' = SeatOf(q, c)
    BY <1>1, <1>3 DEF SeatOf, Sees
  <2>2. SeatsFit
    BY DEF ImportsInv
  <2>3. ASSUME NEW c \in Code, NEW e \in Code, c # e, db'[<<"enrolment", c>>].seat # NoSeat
        PROVE  db'[<<"enrolment", c>>].seat # db'[<<"enrolment", e>>].seat
    <3>1. db'[<<"enrolment", c>>] = db[<<"enrolment", c>>] /\ db'[<<"enrolment", e>>] = db[<<"enrolment", e>>]
      BY <1>3
    <3> QED
      BY <2>2, <2>3, <3>1 DEF SeatsFit
  <2>4. ASSUME NEW q \in Request, NEW c \in Code, NEW e \in Code, c # e, SeatOf(q, c)' # NoSeat
        PROVE  SeatOf(q, c)' # SeatOf(q, e)'
    BY <2>1, <2>2, <2>4 DEF SeatsFit
  <2>5. ASSUME NEW q \in Request, NEW o \in Request, NEW c \in Code, NEW e \in Code,
               q # o, c # e, <<"enrolment", c>> \in DOMAIN draft'[q],
               <<"enrolment", e>> \in DOMAIN draft'[o]
        PROVE  draft'[q][<<"enrolment", c>>].seat # draft'[o][<<"enrolment", e>>].seat
    BY <1>1, <2>2, <2>5 DEF SeatsFit
  <2> QED
    BY <2>3, <2>4, <2>5 DEF SeatsFit
<1>13. FilesFit'
  <2>1. ASSUME NEW i \in Job
        PROVE  /\ Injective(file'[i].rows, 1)
               /\ file'[i].mode = "UPDATE_EXISTING" =>
                    \A n \in DOMAIN file'[i].rows :
                      \/ db'[<<"student", file'[i].rows[n][1]>>] # "NONE"
                      \/ <<i, file'[i].rows[n][1]>> \in gone
    <3>1. CASE file'[i] = file[i]
      <4>1. Injective(file[i].rows, 1)
        BY DEF ImportsInv, FilesFit
      <4>2. ASSUME NEW n \in DOMAIN file[i].rows, file[i].mode = "UPDATE_EXISTING"
            PROVE  \/ db'[<<"student", file[i].rows[n][1]>>] # "NONE"
                   \/ <<i, file[i].rows[n][1]>> \in gone
        <5>1. file[i].rows[n] \in Row
          BY <1>0 DEF ImportsTyped
        <5>2. file[i].rows[n] \in RowsOf(i)
          BY DEF RowsOf
        <5>3. Known(file[i].rows[n][1]) \/ <<i, file[i].rows[n][1]>> \in gone
          BY <4>2, <5>2 DEF ImportsInv, FilesFit
        <5>4. file[i].rows[n][1] \in Code
          BY <5>1 DEF Row
        <5> QED
          BY <1>3, <5>3, <5>4 DEF Known
      <4> QED
        BY <3>1, <4>1, <4>2
    <3>2. CASE file'[i].mode = mode /\ file'[i].rows = rows /\ Valid(mode, rows)
      <4>1. ASSUME NEW n \in DOMAIN rows, mode = "UPDATE_EXISTING"
            PROVE  db'[<<"student", rows[n][1]>>] # "NONE"
        <5>1. rows[n][1] \in Code
          BY <1>5
        <5>2. db[<<"student", rows[n][1]>>] # "NONE"
          BY <3>2, <4>1 DEF Valid
        <5> QED
          BY <1>3, <5>1, <5>2
      <4> QED
        BY <1>5, <3>2, <4>1
    <3> QED
      BY <1>6, <3>1, <3>2
  <2>2. ASSUME NEW i \in Job, file'[i].mode = "UPDATE_EXISTING", NEW row \in RowsOf(i)'
        PROVE  db'[<<"student", row[1]>>] # "NONE" \/ <<i, row[1]>> \in gone
    <3>1. PICK n \in DOMAIN file'[i].rows : row = file'[i].rows[n]
      BY <2>2 DEF RowsOf
    <3> QED
      BY <2>1, <2>2, <3>1
  <2> QED
    BY <1>1, <2>1, <2>2 DEF FilesFit, RowsOf, Known
<1>14. JobsHold'
  <2>1. ASSUME NEW i \in Job
        PROVE  /\ db'[<<"job", i>>] \in {"NONE", "VALIDATED"} => imported[i] = {}
               /\ db'[<<"job", i>>] = "PROCESSING" => <<"job", i>> \in torn
               /\ db'[<<"job", i>>] = "FAILED" => imported[i] = {} \/ i \in twice \/ <<"job", i>> \in torn
    <3>1. CASE i = j
      BY <1>0, <1>2, <3>1 DEF JobsHold
    <3>2. CASE i # j
      <4>1. /\ db[<<"job", i>>] \in {"NONE", "VALIDATED"} => imported[i] = {}
            /\ db[<<"job", i>>] = "PROCESSING" => <<"job", i>> \in torn
            /\ db[<<"job", i>>] = "FAILED" => imported[i] = {} \/ i \in twice \/ <<"job", i>> \in torn
        BY <1>0 DEF JobsHold, FailedImportsNobody
      <4> QED
        BY <1>2, <3>2, <4>1
    <3> QED
      BY <3>1, <3>2
  <2>2. FailedImportsNobody'
    BY <1>1, <2>1 DEF FailedImportsNobody
  <2>3. ASSUME NEW q \in Request, doing[q] \in Job
        PROVE  /\ db'[<<"job", doing[q]>>] # "NONE"
               /\ \/ db'[<<"job", doing[q]>>] = "VALIDATED" /\ imported[doing[q]] = {}
                  \/ doing[q] \in twice \/ <<"job", doing[q]>> \in torn
               /\ \A o \in Request : o # q /\ doing[o] = doing[q] => doing[q] \in twice
    <3>1. /\ db[<<"job", doing[q]>>] # "NONE"
          /\ \/ db[<<"job", doing[q]>>] = "VALIDATED" /\ imported[doing[q]] = {}
             \/ doing[q] \in twice \/ <<"job", doing[q]>> \in torn
          /\ \A o \in Request : o # q /\ doing[o] = doing[q] => doing[q] \in twice
      BY <1>0, <2>3 DEF JobsHold, JobRow, Fresh
    <3>2. doing[q] # j
      BY <1>2, <3>1
    <3>3. \/ db'[<<"job", doing[q]>>] = db[<<"job", doing[q]>>]
          \/ db[<<"job", doing[q]>>] = "PROCESSING" /\ db'[<<"job", doing[q]>>] = "FAILED"
      BY <1>2, <2>3, <3>2
    <3> QED
      BY <3>1, <3>3
  <2> QED
    BY <1>1, <2>1, <2>2, <2>3 DEF JobsHold, JobRow, Fresh
<1> QED
  BY <1>7, <1>8, <1>9, <1>10, <1>11, <1>12, <1>13, <1>14 DEF ImportsInv

-----------------------------------------------------------------------------
(* Anonymization *)

\* The rows of c become those of n, which were blank; nobody has written any of them.
Renames(c, n) ==
  /\ c # n /\ Known(c) /\ ~ Known(n) /\ ~ Known(c)' /\ Known(n)'
  /\ \A k \in Key : k[1] = "job" \/ k[2] \notin {c, n} => db'[k] = db[k]
  /\ \A d \in Code \ {c, n} : /\ db'[<<"student", d>>] = db[<<"student", d>>]
                              /\ db'[<<"enrolment", d>>] = db[<<"enrolment", d>>]
                              /\ db'[<<"qr", d>>] = db[<<"qr", d>>]
  /\ \A j \in Job : db'[<<"job", j>>] = db[<<"job", j>>]
  /\ db'[<<"student", n>>] = "INACTIVE" /\ db'[<<"student", c>>] = "NONE"
  /\ db'[<<"enrolment", n>>] = db[<<"enrolment", c>>]
  /\ db'[<<"enrolment", c>>] = NoEnrolment /\ db[<<"enrolment", n>>] = NoEnrolment
  /\ db'[<<"qr", n>>] = db[<<"qr", c>>]
  /\ db'[<<"qr", c>>] = NoQr /\ db[<<"qr", n>>] = NoQr
  /\ \A r \in Request, d \in {c, n} : /\ <<"student", d>> \notin DOMAIN draft[r]
                                      /\ <<"enrolment", d>> \notin DOMAIN draft[r]
                                      /\ <<"qr", d>> \notin DOMAIN draft[r]
  /\ DOMAIN db' = Key

LEMMA AnonymizeShape ==
  ASSUME ImportsInv, NEW c \in Code, NEW n \in Code, Anonymize(c, n)
  PROVE  Renames(c, n)
<1>1. /\ Known(c) /\ Unused(n)
      /\ \A r \in Request : \A k \in DOMAIN draft[r] : k \notin JobRows => k[2] # c
      /\ db' = [k \in Key |->
           IF k \in JobRows \/ k[2] \notin {c, n} THEN db[k]
           ELSE IF k[2] = c THEN Blank(k)
           ELSE IF k[1] = "student" THEN "INACTIVE" ELSE db[<<k[1], c>>]]
  BY DEF Anonymize
<1>2. ASSUME NEW k \in Key PROVE k \in JobRows <=> k[1] = "job"
  BY DEF Key, JobRows
<1>3. \A d \in Code : /\ <<"student", d>> \in Key /\ <<"enrolment", d>> \in Key /\ <<"qr", d>> \in Key
                      /\ <<"student", d>> \notin JobRows /\ <<"enrolment", d>> \notin JobRows
                      /\ <<"qr", d>> \notin JobRows
  BY DEF Key, JobRows
<1>4. /\ db[<<"student", n>>] = "NONE" /\ db[<<"enrolment", n>>] = NoEnrolment
      /\ db[<<"qr", n>>] = NoQr
      /\ \A r \in Request : \A k \in DOMAIN draft[r] : k \in Key \ JobRows => k[2] # n
  <2>1. \A k \in Key \ JobRows : k[2] = n =>
          db[k] = Blank(k) /\ \A r \in Request : k \notin DOMAIN draft[r]
    BY <1>1 DEF Unused
  <2>2. /\ db[<<"student", n>>] = Blank(<<"student", n>>)
        /\ db[<<"enrolment", n>>] = Blank(<<"enrolment", n>>)
        /\ db[<<"qr", n>>] = Blank(<<"qr", n>>)
    BY <1>3, <2>1
  <2> QED
    BY <2>1, <2>2 DEF Blank
<1>5. Known(c) /\ ~ Known(n) /\ c # n
  BY <1>1, <1>4 DEF Known
<1>6. \A k \in Key : k[1] = "job" \/ k[2] \notin {c, n} => db'[k] = db[k]
  BY <1>1, <1>2
<1>7. /\ db'[<<"student", n>>] = "INACTIVE" /\ db'[<<"student", c>>] = "NONE"
      /\ db'[<<"enrolment", n>>] = db[<<"enrolment", c>>]
      /\ db'[<<"enrolment", c>>] = NoEnrolment
      /\ db'[<<"qr", n>>] = db[<<"qr", c>>] /\ db'[<<"qr", c>>] = NoQr
  BY <1>1, <1>3, <1>5 DEF Blank
<1>8. ~ Known(c)' /\ Known(n)'
  BY <1>7 DEF Known
<1>9. \A r \in Request, d \in {c, n} : /\ <<"student", d>> \notin DOMAIN draft[r]
                                       /\ <<"enrolment", d>> \notin DOMAIN draft[r]
                                       /\ <<"qr", d>> \notin DOMAIN draft[r]
  <2>1. ASSUME NEW r \in Request, NEW k \in DOMAIN draft[r], k \in Key \ JobRows
        PROVE  k[2] # c /\ k[2] # n
    BY <1>1, <1>4, <2>1
  <2>2. ASSUME NEW r \in Request, NEW d \in {c, n}
        PROVE  /\ <<"student", d>> \notin DOMAIN draft[r]
               /\ <<"enrolment", d>> \notin DOMAIN draft[r]
               /\ <<"qr", d>> \notin DOMAIN draft[r]
    <3>1. /\ <<"student", d>> \in Key \ JobRows /\ <<"enrolment", d>> \in Key \ JobRows
          /\ <<"qr", d>> \in Key \ JobRows
      BY <1>3
    <3>2. <<"student", d>>[2] = d /\ <<"enrolment", d>>[2] = d /\ <<"qr", d>>[2] = d
      OBVIOUS
    <3> QED
      BY <2>1, <3>1, <3>2
  <2> QED
    BY <2>2
<1>10. \A d \in Code \ {c, n} : /\ db'[<<"student", d>>] = db[<<"student", d>>]
                                /\ db'[<<"enrolment", d>>] = db[<<"enrolment", d>>]
                                /\ db'[<<"qr", d>>] = db[<<"qr", d>>]
  BY <1>3, <1>6
<1>11. \A j \in Job : db'[<<"job", j>>] = db[<<"job", j>>]
  BY <1>6 DEF Key
<1>12. DOMAIN db' = Key
  BY <1>1
<1> QED
  BY <1>4, <1>5, <1>6, <1>7, <1>8, <1>9, <1>10, <1>11, <1>12 DEF Renames

\* The statements of a request name n where they named the student c by the row.
LEMMA FollowingShape ==
  ASSUME ImportsInv, NEW c \in Code, NEW n \in Code, Anonymize(c, n), NEW r \in Request
  PROVE  /\ prog'[r] \in Seq(Task) /\ Len(prog'[r]) = Len(prog[r])
         /\ DOMAIN prog'[r] = DOMAIN prog[r] /\ DOMAIN prog[r] = 1 .. Len(prog[r])
         /\ \A i \in DOMAIN prog[r] :
              /\ prog'[r][i][1] = prog[r][i][1] /\ prog'[r][i][3] = prog[r][i][3]
              /\ prog[r][i] \in Task
              /\ \/ prog'[r][i] = prog[r][i] /\ ~ (ById(r, prog[r][i]) /\ prog[r][i][2] = c)
                 \/ ById(r, prog[r][i]) /\ prog[r][i][2] = c /\ prog'[r][i][2] = n
              /\ prog[r][i][1] # "job" => prog[r][i][2] # n
<1>1. prog[r] \in Seq(Task) /\ prog'[r] = Following(r, c, n)
  BY DEF Anonymize, ImportsInv, ImportsTyped
<1>2. \A i \in DOMAIN prog[r] : prog[r][i][1] # "job" => prog[r][i][2] # n
  BY DEF Anonymize, Unused
<1>3. DOMAIN prog[r] = 1 .. Len(prog[r]) /\ Len(prog[r]) \in Nat
      /\ \A i \in DOMAIN prog[r] : prog[r][i] \in Task
  BY <1>1
<1>4. ASSUME NEW i \in DOMAIN prog[r]
      PROVE  /\ prog'[r][i] \in Task
             /\ prog'[r][i][1] = prog[r][i][1] /\ prog'[r][i][3] = prog[r][i][3]
             /\ \/ prog'[r][i] = prog[r][i] /\ ~ (ById(r, prog[r][i]) /\ prog[r][i][2] = c)
                \/ ById(r, prog[r][i]) /\ prog[r][i][2] = c /\ prog'[r][i][2] = n
  <2> DEFINE t == prog[r][i]
  <2>1. t \in Task
    BY <1>3
  <2>2. prog'[r][i] = IF ById(r, t) /\ t[2] = c THEN <<t[1], n, t[3]>> ELSE t
    BY <1>1 DEF Following
  <2>3. ById(r, t) => <<t[1], n, t[3]>> \in Task
    <3>1. ById(r, t) => t[1] \in {"update", "move", "status", "end", "find", "revoke", "recheck", "qr"}
      BY DEF ById
    <3> HIDE DEF t
    <3> QED
      BY <2>1, <3>1 DEF Task
  <2> HIDE DEF t
  <2>4. CASE ById(r, t) /\ t[2] = c
    BY <2>2, <2>3, <2>4 DEF t
  <2>5. CASE ~ (ById(r, t) /\ t[2] = c)
    BY <2>1, <2>2, <2>5 DEF t
  <2> QED
    BY <2>4, <2>5
<1>5. prog'[r] \in Seq(Task) /\ Len(prog'[r]) = Len(prog[r]) /\ DOMAIN prog'[r] = DOMAIN prog[r]
  <2>1. prog'[r] = [i \in 1 .. Len(prog[r]) |-> prog'[r][i]]
    BY <1>1, <1>3 DEF Following
  <2>2. \A i \in 1 .. Len(prog[r]) : prog'[r][i] \in Task
    BY <1>3, <1>4
  <2> QED
    BY <1>3, <2>1, <2>2
<1> QED
  BY <1>2, <1>3, <1>4, <1>5

\* Anonymization keeps the types.
LEMMA AnonymizeTyped ==
  ASSUME ImportsInv, NEW c \in Code, NEW n \in Code, Anonymize(c, n)
  PROVE  ImportsTyped'
<1>0. ImportsTyped /\ Renames(c, n)
  BY AnonymizeShape DEF ImportsInv
<1>1. /\ UNCHANGED <<draft, doing, file, aged, twice, imported>>
      /\ anonymous' = anonymous \cup {n} /\ torn' = {Recoded(k, c, n) : k \in torn}
      /\ former' = {IF d = c THEN n ELSE d : d \in former}
      /\ gone' = gone \cup {<<j, c>> : j \in {i \in Job : Misses(i, c)}}
      /\ prog' = [r \in Request |-> Following(r, c, n)]
  BY DEF Anonymize
<1>2. ASSUME NEW k \in Key
      PROVE  Written(k, db'[k]) \/ db'[k] = Blank(k) \/ (k[1] = "job" /\ db'[k] = "VALIDATED")
  <2>1. CASE k[1] = "job" \/ k[2] \notin {c, n}
    BY <1>0, <2>1 DEF ImportsTyped, Renames
  <2>2. CASE k[1] # "job" /\ k[2] \in {c, n}
    <3>1. k \in {<<"student", c>>, <<"enrolment", c>>, <<"qr", c>>,
                 <<"student", n>>, <<"enrolment", n>>, <<"qr", n>>}
      BY <2>2 DEF Key
    <3>2. CASE k = <<"student", n>>
      BY <1>0, <3>2 DEF Written, Renames
    <3>3. CASE k \in {<<"student", c>>, <<"enrolment", c>>, <<"qr", c>>}
      BY <1>0, <3>3 DEF Blank, Renames
    <3>4. CASE k = <<"enrolment", n>>
      <4>1. <<"enrolment", c>> \in Key
        BY DEF Key
      <4>2. \/ db[<<"enrolment", c>>] \in [seat : Seat, active : BOOLEAN]
            \/ db[<<"enrolment", c>>] = NoEnrolment
        BY <1>0, <4>1 DEF ImportsTyped, Written, Blank
      <4> QED
        BY <1>0, <3>4, <4>2 DEF Written, Blank, Renames
    <3>5. CASE k = <<"qr", n>>
      <4>1. <<"qr", c>> \in Key
        BY DEF Key
      <4>2. \/ db[<<"qr", c>>] \in [version : Nat, status : {"ACTIVE", "REVOKED"}]
            \/ db[<<"qr", c>>] = NoQr
        BY <1>0, <4>1 DEF ImportsTyped, Written, Blank
      <4> QED
        BY <1>0, <3>5, <4>2 DEF Written, Blank, Renames
    <3> QED
      BY <3>1, <3>2, <3>3, <3>4, <3>5
  <2> QED
    BY <2>1, <2>2
<1>3. torn' \subseteq Key
  <2>1. ASSUME NEW k \in Key PROVE Recoded(k, c, n) \in Key
    BY DEF Recoded, Key, JobRows
  <2> QED
    BY <1>0, <1>1, <2>1 DEF ImportsTyped
<1>4. prog' \in [Request -> Seq(Task)]
  <2>1. \A r \in Request : prog'[r] \in Seq(Task)
    BY FollowingShape
  <2> QED
    BY <1>1, <2>1
<1>5. anonymous' \cup former' \subseteq Code /\ gone' \subseteq Job \X Code
  BY <1>0, <1>1 DEF ImportsTyped
<1>6. DOMAIN db' = Key
  BY <1>0 DEF Renames
<1> QED
  BY <1>0, <1>1, <1>2, <1>3, <1>4, <1>5, <1>6 DEF ImportsTyped, Written

\* A file that names the student c either looks him up later, or is through with him.
LEMMA AnonymizeFits ==
  ASSUME ImportsInv, NEW c \in Code, NEW n \in Code, Anonymize(c, n), NEW r \in Request
  PROVE  RequestFits(r)'
<1> DEFINE p == prog[r]  q == prog'[r]
<1>0. ImportsTyped /\ RequestFits(r) /\ Renames(c, n)
  BY AnonymizeShape DEF ImportsInv
<1>1. /\ UNCHANGED <<draft, doing, file>> /\ gone \subseteq gone'
      /\ \A j \in Job : Misses(j, c) => <<j, c>> \in gone'
      /\ \A j \in Job : ~ Names(j, n)
  BY DEF Anonymize, Unused
<1>2. /\ q \in Seq(Task) /\ Len(q) = Len(p) /\ DOMAIN q = DOMAIN p /\ DOMAIN p = 1 .. Len(p)
      /\ Len(p) \in Nat
  BY <1>0, FollowingShape DEF ImportsTyped
<1>3. ASSUME NEW i \in DOMAIN p
      PROVE  /\ q[i][1] = p[i][1] /\ q[i][3] = p[i][3] /\ p[i] \in Task
             /\ \/ q[i] = p[i] /\ ~ (ById(r, p[i]) /\ p[i][2] = c)
                \/ ById(r, p[i]) /\ p[i][2] = c /\ q[i][2] = n
             /\ p[i][1] # "job" => p[i][2] # n
             /\ p[i][1] \in {"job", "student", "enrolment", "lookup"} => q[i] = p[i]
  <2>1. /\ q[i][1] = p[i][1] /\ q[i][3] = p[i][3] /\ p[i] \in Task
        /\ \/ q[i] = p[i] /\ ~ (ById(r, p[i]) /\ p[i][2] = c)
           \/ ById(r, p[i]) /\ p[i][2] = c /\ q[i][2] = n
        /\ p[i][1] # "job" => p[i][2] # n
    BY FollowingShape
  <2> QED
    BY <2>1 DEF ById
<1>4. /\ \A d \in Code : <<"student", d>> \in DOMAIN draft[r] => d \notin {c, n}
      /\ \A d \in Code : <<"enrolment", d>> \in DOMAIN draft[r] => d \notin {c, n}
      /\ \A d \in Code : <<"qr", d>> \in DOMAIN draft[r] => d \notin {c, n}
  BY <1>0 DEF Renames
<1>5. c # n /\ Known(c) /\ Known(n)'
      /\ \A d \in Code \ {c, n} : /\ db'[<<"student", d>>] = db[<<"student", d>>]
                                  /\ db'[<<"enrolment", d>>] = db[<<"enrolment", d>>]
  BY <1>0 DEF Renames
<1>6. \A d \in Code : OwnNew(r, d)' <=> OwnNew(r, d)
  BY <1>1, <1>4, <1>5 DEF OwnNew
<1>7. \A d \in Code \ {c, n} : (Known(d)' <=> Known(d)) /\ (Orphan(d)' <=> Orphan(d))
  BY <1>5 DEF Known, Orphan
<1>8. ASSUME doing[r] \in Job, NEW row \in RowsOf(doing[r])
      PROVE  row[1] \in Code \ {n} /\ Names(doing[r], row[1])
  <2>1. Names(doing[r], row[1])
    BY DEF RowsOf, Names
  <2>2. row \in Row
    BY <1>0, <1>8 DEF RowsOf, ImportsTyped
  <2> QED
    BY <1>1, <1>8, <2>1, <2>2 DEF Row
<1>9. RowsOf(doing[r])' = RowsOf(doing[r])
  BY <1>1 DEF RowsOf
<1>10. ASSUME NEW i, NEW what \in {"student", "enrolment", "lookup"}, NEW d,
              Later(p, i, what, d), i \in 0 .. Len(p)
       PROVE  Later(q, i, what, d)
  BY <1>2, <1>3, <1>10 DEF Later
<1> HIDE DEF p, q
<1>11. PhaseFits(r)'
  <2>1. PhaseFits(r)
    BY <1>0 DEF RequestFits
  <2>2. p = << >> => q = << >>
    BY <1>2
  <2>3. q = << >> => p = << >>
    BY <1>2
  <2>4. Staged(r) => Staged(r)'
    <3>1. p = << <<"job", doing[r], "FAILED">> >> => q = << <<"job", doing[r], "FAILED">> >>
      <4>1. ASSUME p = << <<"job", doing[r], "FAILED">> >>
            PROVE  q = << <<"job", doing[r], "FAILED">> >>
        <5>1. Len(p) = 1 /\ p[1] = <<"job", doing[r], "FAILED">>
          BY <4>1
        <5>2. 1 \in DOMAIN p /\ p[1][1] = "job"
          BY <1>2, <5>1
        <5>3. Len(q) = 1 /\ q[1] = <<"job", doing[r], "FAILED">>
          BY <1>2, <1>3, <5>1, <5>2
        <5>4. DOMAIN q = DOMAIN p /\ \A i \in DOMAIN p : i = 1
          BY <1>2, <5>1
        <5>5. \A i \in DOMAIN p : q[i] = p[i]
          BY <5>1, <5>3, <5>4
        <5>6. q = [i \in DOMAIN q |-> q[i]] /\ p = [i \in DOMAIN p |-> p[i]]
          BY <1>2, <4>1
        <5>7. q = p
          BY <5>4, <5>5, <5>6
        <5> QED
          BY <4>1, <5>7
      <4> QED
        BY <4>1
    <3>2. ASSUME Len(p) > 1, p[1] = <<"job", doing[r], "PROCESSING">>,
                 p[Len(p)] = <<"job", doing[r], "COMPLETED">>,
                 \A i \in 2 .. Len(p) - 1 : p[i][1] # "job"
          PROVE  /\ Len(q) > 1 /\ q[1] = <<"job", doing[r], "PROCESSING">>
                 /\ q[Len(q)] = <<"job", doing[r], "COMPLETED">>
                 /\ \A i \in 2 .. Len(q) - 1 : q[i][1] # "job"
      <4>1. 1 \in DOMAIN p /\ Len(p) \in DOMAIN p /\ \A i \in 2 .. Len(p) - 1 : i \in DOMAIN p
        BY <1>2, <3>2
      <4>2. p[1][1] = "job" /\ p[Len(p)][1] = "job"
        BY <3>2
      <4> QED
        BY <1>2, <1>3, <3>2, <4>1, <4>2
    <3> QED
      BY <1>1, <3>1, <3>2 DEF Staged, p, q
  <2>5. Underway(r) => Underway(r)'
    <3>1. ASSUME p # << >>, p[Len(p)] = <<"job", doing[r], "COMPLETED">>,
                 \A i \in 1 .. Len(p) - 1 : p[i][1] # "job"
          PROVE  /\ q # << >> /\ q[Len(q)] = <<"job", doing[r], "COMPLETED">>
                 /\ \A i \in 1 .. Len(q) - 1 : q[i][1] # "job"
      <4>1. Len(p) # 0
        BY <1>2, <2>3, <3>1
      <4>2. Len(p) \in DOMAIN p /\ \A i \in 1 .. Len(p) - 1 : i \in DOMAIN p
        BY <1>2, <4>1
      <4>3. p[Len(p)][1] = "job"
        BY <3>1
      <4> QED
        BY <1>2, <1>3, <2>3, <3>1, <4>2, <4>3
    <3> QED
      BY <1>1, <3>1 DEF Underway, Has, JobRow, p, q
  <2>6. Settled(r) => Settled(r)'
    BY <1>1, <2>2 DEF Settled, Has, JobRow, p, q
  <2>7. \A i \in DOMAIN q : q[i][1] = p[i][1]
    BY <1>2, <1>3
  <2> QED
    BY <1>1, <1>2, <2>1, <2>2, <2>4, <2>5, <2>6, <2>7 DEF PhaseFits, JobRow, p, q
<1>12. QrFits(r)'
  <2>1. ASSUME doing[r] # "revocation", NEW i \in DOMAIN p, p[i][1] \in {"revoke", "recheck"}
        PROVE  Later(q, i, "qr", q[i][2])
    <3>1. PICK k \in i + 1 .. Len(p) : p[k][1] = "qr" /\ p[k][2] = p[i][2]
      BY <1>0, <2>1 DEF RequestFits, QrFits, Later, p
    <3>2. k \in DOMAIN p
      BY <1>2, <2>1, <3>1
    <3>3. doing[r] \notin Job
      BY <1>0, <2>1 DEF RequestFits, TasksFit, RowFits, p
    <3>4. ById(r, p[i]) /\ ById(r, p[k])
      BY <2>1, <3>1, <3>3 DEF ById
    <3>5. q[k][1] = "qr" /\ q[k][2] = q[i][2]
      BY <1>3, <2>1, <3>1, <3>2, <3>4
    <3> QED
      BY <1>2, <3>1, <3>5 DEF Later
  <2>2. ASSUME doing[r] # "revocation", NEW d \in Code,
               <<"qr", d>> \in DOMAIN draft[r], draft[r][<<"qr", d>>].status # "ACTIVE"
        PROVE  Later(q, 0, "qr", d)
    <3>1. PICK k \in 0 + 1 .. Len(p) : p[k][1] = "qr" /\ p[k][2] = d
      BY <1>0, <2>2 DEF RequestFits, QrFits, Later, p
    <3>2. d \notin {c, n} /\ k \in DOMAIN p
      BY <1>2, <1>4, <2>2, <3>1
    <3>3. q[k] = p[k]
      BY <1>3, <3>1, <3>2
    <3> QED
      BY <1>2, <3>1, <3>3 DEF Later
  <2> QED
    BY <1>1, <1>2, <1>3, <2>1, <2>2 DEF QrFits, p, q
<1>13. TasksFit(r)'
  <2>1. ASSUME NEW i \in DOMAIN p
        PROVE  /\ LookupFits(r, i)' /\ EnrolmentFits(r, i)' /\ StudentFits(r, i)'
               /\ UpdateFits(r, i)' /\ RowFits(r, i)'
    <3>0. /\ LookupFits(r, i) /\ EnrolmentFits(r, i) /\ StudentFits(r, i)
          /\ UpdateFits(r, i) /\ RowFits(r, i)
      BY <1>0, <2>1 DEF RequestFits, TasksFit, p
    <3>1. p[i][1] # "job" => p[i][2] \in Code
      BY <1>3, <2>1, TaskShape
    <3>2. LookupFits(r, i)'
      <4>1. ASSUME p[i][1] = "lookup", NEW k \in DOMAIN p \ {i}, p[k][1] # "job"
            PROVE  q[k][2] # p[i][2]
        <5>1. p[k][2] # p[i][2]
          BY <3>0, <4>1 DEF LookupFits, p
        <5> QED
          BY <1>3, <2>1, <4>1, <5>1
      <4> QED
        BY <1>1, <1>2, <1>3, <2>1, <3>0, <4>1 DEF LookupFits, p, q
    <3>3. EnrolmentFits(r, i)'
      <4>1. ASSUME NEW d \in Code, p[i][1] = "enrolment", p[i][2] = d
            PROVE  OwnNew(r, d)' \/ \E k \in 1 .. i - 1 : q[k][1] = "student" /\ q[k][2] = d
        <5>1. OwnNew(r, d) \/ \E k \in 1 .. i - 1 : p[k][1] = "student" /\ p[k][2] = d
          BY <3>0, <4>1 DEF EnrolmentFits, p
        <5>2. \A k \in 1 .. i - 1 : k \in DOMAIN p
          BY <1>2, <2>1
        <5>3. \A k \in 1 .. i - 1 : p[k][1] = "student" => q[k] = p[k]
          BY <1>3, <5>2
        <5> QED
          BY <1>6, <5>1, <5>3
      <4>2. p[i][1] = "enrolment" => q[i] = p[i] /\ p[i][2] \in Code
        BY <1>3, <2>1, <3>1
      <4>3. ASSUME q[i][1] = "enrolment"
            PROVE  \E d \in Code : /\ d = q[i][2]
                                   /\ \/ OwnNew(r, d)'
                                      \/ \E k \in 1 .. i - 1 : q[k][1] = "student" /\ q[k][2] = d
        BY <1>3, <2>1, <4>1, <4>2, <4>3
      <4> QED
        BY <4>3 DEF EnrolmentFits, OwnNew, q
    <3>4. StudentFits(r, i)'
      <4>1. i \in 0 .. Len(p)
        BY <1>2, <2>1
      <4>2. p[i][1] = "student" => Later(p, i, "enrolment", p[i][2])
        BY <3>0 DEF StudentFits, p
      <4>3. p[i][1] = "student" => Later(q, i, "enrolment", p[i][2])
        BY <1>10, <4>1, <4>2 DEF p, q
      <4> QED
        BY <1>3, <2>1, <4>3 DEF StudentFits, p, q
    <3>5. UpdateFits(r, i)'
      <4>1. ASSUME q[i][1] \in {"update", "move", "status"}
            PROVE  \E d \in Code : d = q[i][2] /\ Known(d)'
        <5>1. Known(p[i][2]) /\ p[i][2] \in Code /\ p[i][2] # n /\ ById(r, p[i])
          BY <1>3, <2>1, <3>0, <3>1, <4>1 DEF UpdateFits, ById, p
        <5>2. CASE p[i][2] = c
          BY <1>3, <1>5, <2>1, <5>1, <5>2
        <5>3. CASE p[i][2] # c
          BY <1>3, <1>7, <2>1, <5>1, <5>3
        <5> QED
          BY <5>2, <5>3
      <4> QED
        BY <4>1 DEF UpdateFits, Known, q
    <3>6. RowFits(r, i)'
      <4>1. ASSUME doing[r] \in Job, p[i][1] # "job"
            PROVE  /\ q[i][1] \in {"student", "enrolment", "qr", "update", "move", "lookup"}
                   /\ q[i][1] \notin {"update", "move"} =>
                        <<q[i][2], q[i][3]>> \in RowsOf(doing[r])
                   /\ \A row \in RowsOf(doing[r]) : row[1] = q[i][2] => row[2] = q[i][3]
        <5>1. /\ p[i][1] \in {"student", "enrolment", "qr", "update", "move", "lookup"}
              /\ p[i][1] \notin {"update", "move"} =>
                   <<p[i][2], p[i][3]>> \in RowsOf(doing[r])
              /\ \A row \in RowsOf(doing[r]) : row[1] = p[i][2] => row[2] = p[i][3]
          BY <3>0, <4>1 DEF RowFits, p
        <5>2. CASE q[i] = p[i]
          BY <5>1, <5>2
        <5>3. CASE ById(r, p[i]) /\ q[i][2] = n
          <6>1. p[i][1] \in {"update", "move"}
            BY <4>1, <5>1, <5>3 DEF ById
          <6>2. q[i][1] = p[i][1]
            BY <1>3, <2>1
          <6> QED
            BY <1>8, <4>1, <5>3, <6>1, <6>2
        <5> QED
          BY <1>3, <2>1, <5>2, <5>3
      <4> QED
        BY <1>1, <1>3, <1>9, <2>1, <4>1 DEF RowFits, p, q
    <3> QED
      BY <3>2, <3>3, <3>4, <3>5, <3>6
  <2> QED
    BY <1>2, <2>1 DEF TasksFit, p, q
<1>14. DraftFits(r)'
  <2>1. ASSUME NEW d \in Code
        PROVE  /\ OwnNew(r, d)' => <<"enrolment", d>> \in DOMAIN draft[r] \/ Later(q, 0, "enrolment", d)
               /\ <<"enrolment", d>> \in DOMAIN draft[r] =>
                    db'[<<"enrolment", d>>].seat # NoSeat \/ OwnNew(r, d)'
    <3>1. /\ OwnNew(r, d) => <<"enrolment", d>> \in DOMAIN draft[r] \/ Later(p, 0, "enrolment", d)
          /\ <<"enrolment", d>> \in DOMAIN draft[r] =>
               db[<<"enrolment", d>>].seat # NoSeat \/ OwnNew(r, d)
      BY <1>0 DEF RequestFits, DraftFits, p
    <3>2. Later(p, 0, "enrolment", d) => Later(q, 0, "enrolment", d)
      BY <1>2, <1>10 DEF p, q
    <3> QED
      BY <1>4, <1>5, <1>6, <3>1, <3>2
  <2> QED
    BY <1>1, <2>1 DEF DraftFits, q
<1>15. RowsDone(r)'
  <2>1. ASSUME Going(r)' PROVE Going(r)
    <3>1. p # << >> => Len(p) \in DOMAIN p
      BY <1>2
    <3>2. q = << >> <=> p = << >>
      BY <1>2
    <3> QED
      BY <1>1, <1>2, <1>3, <2>1, <3>1, <3>2 DEF Going, Has, JobRow, p, q
  <2>2. ASSUME Going(r), NEW row \in RowsOf(doing[r])
        PROVE  Awaits(r, row[1], row[2])' \/ Placed(r, row[1], row[2])' \/ Passed(doing[r], row[1])'
    <3>1. doing[r] \in Job /\ row[1] \in Code \ {n} /\ Names(doing[r], row[1])
      BY <1>8, <2>2 DEF Going
    <3>2. CASE row[1] = c /\ \E i \in DOMAIN p : p[i][1] \in {"lookup", "student"} /\ p[i][2] = c
      <4>1. PICK i \in DOMAIN p : p[i][1] \in {"lookup", "student"} /\ p[i][2] = c
        BY <3>2
      <4>2. PICK k \in DOMAIN p : p[k][1] \in {"lookup", "enrolment"} /\ p[k][2] = c
        <5>1. CASE p[i][1] = "lookup"
          BY <4>1, <5>1
        <5>2. CASE p[i][1] = "student"
          <6>1. Later(p, i, "enrolment", c)
            BY <1>0, <4>1, <5>2 DEF RequestFits, TasksFit, StudentFits, p
          <6> QED
            BY <1>2, <4>1, <6>1 DEF Later
        <5> QED
          BY <4>1, <5>1, <5>2
      <4>3. p[k][3] = row[2]
        BY <1>0, <2>2, <3>1, <3>2, <4>2 DEF RequestFits, TasksFit, RowFits, p
      <4>4. p[k] = <<p[k][1], p[k][2], p[k][3]>>
        BY <1>3, TaskShape
      <4>5. q[k] \in {<<"lookup", row[1], row[2]>>, <<"enrolment", row[1], row[2]>>}
        BY <1>3, <3>2, <4>2, <4>3, <4>4
      <4> QED
        BY <1>2, <4>5 DEF Awaits, q
    <3>3. CASE row[1] = c /\ ~ \E i \in DOMAIN p : p[i][1] \in {"lookup", "student"} /\ p[i][2] = c
      <4>1. Misses(doing[r], c)
        BY <3>1, <3>3 DEF Misses, p
      <4> QED
        BY <1>1, <3>1, <3>3, <4>1 DEF Passed
    <3>4. CASE row[1] # c
      <4>1. Awaits(r, row[1], row[2]) \/ Placed(r, row[1], row[2]) \/ Passed(doing[r], row[1])
        BY <1>0, <2>2 DEF RequestFits, RowsDone
      <4>2. Awaits(r, row[1], row[2]) => Awaits(r, row[1], row[2])'
        <5>1. ASSUME NEW i \in DOMAIN p,
                     p[i] \in {<<"lookup", row[1], row[2]>>, <<"enrolment", row[1], row[2]>>,
                               <<"move", row[1], row[2]>>}
              PROVE  q[i] = p[i]
          <6>1. p[i][2] # c
            BY <3>4, <5>1
          <6> QED
            BY <1>3, <6>1
        <5> QED
          BY <1>2, <5>1 DEF Awaits, p, q
      <4>3. Placed(r, row[1], row[2]) => Placed(r, row[1], row[2])'
        BY <1>1 DEF Placed
      <4>4. Passed(doing[r], row[1]) => Passed(doing[r], row[1])'
        BY <1>1, <1>7, <3>1, <3>4 DEF Passed
      <4> QED
        BY <4>1, <4>2, <4>3, <4>4
    <3> QED
      BY <3>2, <3>3, <3>4
  <2> QED
    BY <1>9, <2>1, <2>2 DEF RowsDone
<1> QED
  BY <1>11, <1>12, <1>13, <1>14, <1>15 DEF RequestFits

\* Anonymization keeps the invariant.
LEMMA AnonymizeSafe ==
  ASSUME ImportsInv, NEW c \in Code, NEW n \in Code, Anonymize(c, n)
  PROVE  ImportsInv'
<1>0. ImportsTyped
  BY DEF ImportsInv
<1>1. /\ UNCHANGED <<draft, doing, file, aged, twice, imported>>
      /\ torn' = {Recoded(k, c, n) : k \in torn}
      /\ former' = {IF d = c THEN n ELSE d : d \in former} /\ gone \subseteq gone'
      /\ \A j \in Job : Misses(j, c) => <<j, c>> \in gone'
      /\ \A j \in Job : ~ Names(j, n)
  BY DEF Anonymize, Unused
<1>2. /\ c # n /\ Known(c) /\ ~ Known(n) /\ ~ Known(c)' /\ Known(n)'
      /\ db'[<<"enrolment", n>>] = db[<<"enrolment", c>>]
      /\ db'[<<"enrolment", c>>] = NoEnrolment /\ db[<<"enrolment", n>>] = NoEnrolment
      /\ \A d \in Code \ {c, n} : /\ db'[<<"student", d>>] = db[<<"student", d>>]
                                  /\ db'[<<"enrolment", d>>] = db[<<"enrolment", d>>]
      /\ \A j \in Job : db'[<<"job", j>>] = db[<<"job", j>>]
      /\ \A r \in Request, d \in Code : <<"enrolment", d>> \in DOMAIN draft[r] => d \notin {c, n}
  <2>1. Renames(c, n)
    BY AnonymizeShape
  <2> QED
    BY <2>1 DEF Renames
<1>3. NoEnrolment.seat = NoSeat /\ ~ NoEnrolment.active
  BY DEF NoEnrolment
<1>4. ImportsTyped'
  BY AnonymizeTyped
<1>5. \A r \in Request : RequestFits(r)'
  BY AnonymizeFits
<1>6. Disjoint'
  BY <1>1 DEF ImportsInv, Disjoint
<1>7. FilesFit'
  <2>1. ASSUME NEW j \in Job, file[j].mode = "UPDATE_EXISTING", NEW row \in RowsOf(j)
        PROVE  Known(row[1])' \/ <<j, row[1]>> \in gone'
    <3>1. Names(j, row[1])
      BY DEF RowsOf, Names
    <3>2. row \in Row
      BY <1>0 DEF RowsOf, ImportsTyped
    <3>3. row[1] \in Code \ {n}
      BY <1>1, <3>1, <3>2 DEF Row
    <3>4. CASE row[1] = c
      BY <1>1, <2>1, <3>1, <3>4 DEF Misses
    <3>5. CASE row[1] # c
      <4>1. Known(row[1]) \/ <<j, row[1]>> \in gone
        BY <2>1 DEF ImportsInv, FilesFit
      <4> QED
        BY <1>1, <1>2, <3>3, <3>5, <4>1 DEF Known
    <3> QED
      BY <3>4, <3>5
  <2>2. \A j \in Job : Injective(file[j].rows, 1) /\ RowsOf(j)' = RowsOf(j)
    BY <1>1 DEF ImportsInv, FilesFit, RowsOf
  <2> QED
    BY <1>1, <2>1, <2>2 DEF FilesFit
<1>8. TableFits'
  <2>1. ASSUME NEW d \in Code
        PROVE  /\ db'[<<"enrolment", d>>].seat # NoSeat => Known(d)'
               /\ db'[<<"enrolment", d>>].active => db'[<<"enrolment", d>>].seat # NoSeat
    <3>1. \A e \in Code : /\ db[<<"enrolment", e>>].seat # NoSeat => Known(e)
                          /\ db[<<"enrolment", e>>].active => db[<<"enrolment", e>>].seat # NoSeat
      BY DEF ImportsInv, TableFits
    <3>2. CASE d \in {c, n}
      BY <1>2, <1>3, <3>1, <3>2
    <3>3. CASE d \notin {c, n}
      BY <1>2, <3>1, <3>3 DEF Known
    <3> QED
      BY <3>2, <3>3
  <2> QED
    BY <2>1 DEF TableFits
<1>9. SeatsFit'
  <2> DEFINE swap(d) == IF d = c THEN n ELSE IF d = n THEN c ELSE d
  <2>1. \A d \in Code : swap(d) \in Code /\ db'[<<"enrolment", d>>] = db[<<"enrolment", swap(d)>>]
    BY <1>2
  <2>2. \A d, e \in Code : d # e => swap(d) # swap(e)
    OBVIOUS
  <2>3. \A r \in Request, d \in Code : <<"enrolment", d>> \in DOMAIN draft[r] => swap(d) = d
    BY <1>2
  <2>4. ASSUME NEW r \in Request, NEW d \in Code PROVE SeatOf(r, d)' = SeatOf(r, swap(d))
    <3>1. <<"enrolment", d>> \in DOMAIN draft[r] <=> <<"enrolment", swap(d)>> \in DOMAIN draft[r]
      BY <1>2
    <3>2. CASE <<"enrolment", d>> \in DOMAIN draft[r]
      BY <1>1, <2>3, <3>2 DEF SeatOf, Sees
    <3>3. CASE <<"enrolment", d>> \notin DOMAIN draft[r]
      BY <1>1, <2>1, <3>1, <3>3 DEF SeatOf, Sees
    <3> QED
      BY <3>2, <3>3
  <2> HIDE DEF swap
  <2>5. SeatsFit
    BY DEF ImportsInv
  <2>6. ASSUME NEW d \in Code, NEW e \in Code, d # e, db'[<<"enrolment", d>>].seat # NoSeat
        PROVE  db'[<<"enrolment", d>>].seat # db'[<<"enrolment", e>>].seat
    <3>1. swap(d) \in Code /\ swap(e) \in Code /\ swap(d) # swap(e)
      BY <2>1, <2>2, <2>6
    <3>2. /\ db'[<<"enrolment", d>>] = db[<<"enrolment", swap(d)>>]
          /\ db'[<<"enrolment", e>>] = db[<<"enrolment", swap(e)>>]
      BY <2>1
    <3> QED
      BY <2>5, <2>6, <3>1, <3>2 DEF SeatsFit
  <2>7. ASSUME NEW r \in Request, NEW d \in Code, NEW e \in Code, d # e, SeatOf(r, d)' # NoSeat
        PROVE  SeatOf(r, d)' # SeatOf(r, e)'
    <3>1. swap(d) \in Code /\ swap(e) \in Code /\ swap(d) # swap(e)
      BY <2>1, <2>2, <2>7
    <3>2. SeatOf(r, d)' = SeatOf(r, swap(d)) /\ SeatOf(r, e)' = SeatOf(r, swap(e))
      BY <2>4
    <3> QED
      BY <2>5, <2>7, <3>1, <3>2 DEF SeatsFit
  <2>8. ASSUME NEW o \in Request, NEW r \in Request, NEW d \in Code, NEW e \in Code, o # r, d # e,
               <<"enrolment", d>> \in DOMAIN draft'[o], <<"enrolment", e>> \in DOMAIN draft'[r]
        PROVE  draft'[o][<<"enrolment", d>>].seat # draft'[r][<<"enrolment", e>>].seat
    BY <1>1, <2>5, <2>8 DEF SeatsFit
  <2> QED
    BY <2>6, <2>7, <2>8 DEF SeatsFit
<1>10. \A j \in Job : <<"job", j>> \in torn => <<"job", j>> \in torn'
  <2>1. \A j \in Job : Recoded(<<"job", j>>, c, n) = <<"job", j>>
    BY DEF Recoded, JobRows
  <2> QED
    BY <1>1, <2>1
<1>11. JobsHold'
  <2>1. JobsHold
    BY DEF ImportsInv
  <2>2. ASSUME NEW j \in Job
        PROVE  /\ db'[<<"job", j>>] \in {"NONE", "VALIDATED"} => imported'[j] = {}
               /\ db'[<<"job", j>>] = "PROCESSING" => <<"job", j>> \in torn'
               /\ db'[<<"job", j>>] = "FAILED" =>
                    imported'[j] = {} \/ j \in twice' \/ <<"job", j>> \in torn'
    BY <1>1, <1>2, <1>10, <2>1 DEF JobsHold, FailedImportsNobody
  <2>3. ASSUME NEW r \in Request, doing'[r] \in Job
        PROVE  /\ db'[<<"job", doing'[r]>>] # "NONE"
               /\ \/ db'[<<"job", doing'[r]>>] = "VALIDATED" /\ imported'[doing'[r]] = {}
                  \/ doing'[r] \in twice' \/ <<"job", doing'[r]>> \in torn'
               /\ \A o \in Request : o # r /\ doing'[o] = doing'[r] => doing'[r] \in twice'
    BY <1>1, <1>2, <1>10, <2>1, <2>3 DEF JobsHold, JobRow, Fresh
  <2> QED
    BY <2>2, <2>3 DEF JobsHold, JobRow, Fresh, FailedImportsNobody
<1>12. StudentIsEnrolled'
  <2>1. ASSUME NEW d \in Code, Known(d)'
        PROVE  db'[<<"enrolment", d>>].seat # NoSeat \/ <<"student", d>> \in torn' \/ d \in former'
    <3>1. \A e \in Code : Known(e) =>
            db[<<"enrolment", e>>].seat # NoSeat \/ <<"student", e>> \in torn \/ e \in former
      BY DEF ImportsInv, StudentIsEnrolled
    <3>2. CASE d = n
      <4>1. Recoded(<<"student", c>>, c, n) = <<"student", n>>
        BY DEF Recoded, JobRows
      <4> QED
        BY <1>1, <1>2, <3>1, <3>2, <4>1
    <3>3. CASE d # n
      <4>1. d # c /\ Known(d)
        BY <1>2, <2>1, <3>3 DEF Known
      <4>2. Recoded(<<"student", d>>, c, n) = <<"student", d>>
        BY <4>1 DEF Recoded
      <4>3. <<"student", d>> \in torn => <<"student", d>> \in torn'
        BY <1>1, <4>2
      <4>4. d \in former => d \in former'
        BY <1>1, <4>1
      <4> QED
        BY <1>2, <3>1, <3>3, <4>1, <4>3, <4>4
    <3> QED
      BY <3>2, <3>3
  <2> QED
    BY <2>1 DEF StudentIsEnrolled, Known
<1> QED
  BY <1>4, <1>5, <1>6, <1>7, <1>8, <1>9, <1>11, <1>12 DEF ImportsInv

-----------------------------------------------------------------------------
(* The invariant *)

\* A school with some students has the invariant.
LEMMA InitSafe ==
  ASSUME ImportsInit
  PROVE  ImportsInv
<1>1. PICK known \in SUBSET Code, place \in [Code -> Seat] :
        /\ former \in SUBSET known
        /\ \A c, d \in known \ former : place[c] = place[d] => c = d
        /\ db = [k \in Key |->
             IF k[1] = "job" \/ k[2] \notin known THEN Blank(k)
             ELSE CASE k[1] = "student" -> "ACTIVE"
                    [] k[1] = "enrolment" ->
                         IF k[2] \in former THEN NoEnrolment
                         ELSE [seat |-> place[k[2]], active |-> TRUE]
                    [] k[1] = "qr" -> [version |-> 1, status |-> "ACTIVE"]]
  BY DEF ImportsInit
<1>2. /\ draft = [r \in Request |-> << >>] /\ prog = [r \in Request |-> << >>]
      /\ doing = [r \in Request |-> "idle"] /\ file = [j \in Job |-> NoFile]
      /\ aged = {} /\ twice = {} /\ torn = {} /\ imported = [j \in Job |-> {}]
      /\ anonymous = {} /\ gone = {}
  BY DEF ImportsInit
<1>3. ASSUME NEW c \in Code
      PROVE  /\ db[<<"student", c>>] = IF c \in known THEN "ACTIVE" ELSE "NONE"
             /\ db[<<"enrolment", c>>] = IF c \in known \ former
                                         THEN [seat |-> place[c], active |-> TRUE] ELSE NoEnrolment
             /\ db[<<"qr", c>>] = IF c \in known THEN [version |-> 1, status |-> "ACTIVE"] ELSE NoQr
  <2>1. <<"student", c>> \in Key /\ <<"enrolment", c>> \in Key /\ <<"qr", c>> \in Key
    BY DEF Key
  <2> QED
    BY <1>1, <2>1 DEF Blank
<1>4. ASSUME NEW c \in Code
       PROVE  /\ Known(c) <=> c \in known
              /\ c \in known \ former => /\ db[<<"enrolment", c>>].seat = place[c]
                                         /\ db[<<"enrolment", c>>].active
              /\ c \notin known \ former => /\ db[<<"enrolment", c>>].seat = NoSeat
                                            /\ ~ db[<<"enrolment", c>>].active
  <2>1. Known(c) <=> c \in known
    BY <1>3 DEF Known
  <2>2. CASE c \in known \ former
    <3>1. db[<<"enrolment", c>>] = [seat |-> place[c], active |-> TRUE]
      BY <1>3, <2>2
    <3>2. db[<<"enrolment", c>>].seat = place[c] /\ db[<<"enrolment", c>>].active
      BY <3>1
    <3> QED
      BY <2>1, <2>2, <3>2
  <2>3. CASE c \notin known \ former
    <3>1. db[<<"enrolment", c>>] = [seat |-> NoSeat, active |-> FALSE]
      BY <1>3, <2>3 DEF NoEnrolment
    <3>2. db[<<"enrolment", c>>].seat = NoSeat /\ ~ db[<<"enrolment", c>>].active
      BY <3>1
    <3> QED
      BY <2>1, <2>3, <3>2
  <2> QED
    BY <2>2, <2>3
<1>5. \A j \in Job : db[<<"job", j>>] = "NONE"
  <2>1. \A j \in Job : <<"job", j>> \in Key
    BY DEF Key
  <2> QED
    BY <1>1, <2>1 DEF Blank
<1>6. \A c \in Code : place[c] \in Seat /\ place[c] # NoSeat
  BY ImportsAssumption
<1>7. ASSUME NEW r \in Request
      PROVE  prog[r] = << >> /\ draft[r] = << >> /\ doing[r] = "idle" /\ DOMAIN draft[r] = {} /\ DOMAIN prog[r] = {}
  BY <1>2
<1>8. "idle" \notin Job /\ "idle" \in Kind
  BY ImportsAssumption DEF Kind
<1>9. ImportsTyped
  <2>1. DOMAIN db = Key
    BY <1>1
  <2>2. ASSUME NEW k \in Key
        PROVE  Written(k, db[k]) \/ db[k] = Blank(k) \/ (k[1] = "job" /\ db[k] = "VALIDATED")
    <3>1. CASE k \in {"job"} \X Job
      <4>1. PICK j \in Job : k = <<"job", j>>
        BY <3>1
      <4> QED
        BY <1>5, <4>1 DEF Blank
    <3>2. CASE k \in {"student", "enrolment", "qr"} \X Code
      <4>1. PICK c \in Code : k \in {<<"student", c>>, <<"enrolment", c>>, <<"qr", c>>}
        BY <3>2
      <4>2. CASE k = <<"student", c>>
        <5>1. CASE c \in known
          BY <1>3, <4>2, <5>1 DEF Written
        <5>2. CASE c \notin known
          BY <1>3, <4>2, <5>2 DEF Blank
        <5> QED
          BY <5>1, <5>2
      <4>3. CASE k = <<"enrolment", c>>
        <5>1. CASE c \in known \ former
          <6>1. db[k] = [seat |-> place[c], active |-> TRUE]
            BY <1>3, <4>3, <5>1
          <6>2. k[1] = "enrolment"
            BY <4>3
          <6> QED
            BY <1>6, <6>1, <6>2 DEF Written
        <5>2. CASE c \notin known \ former
          BY <1>3, <4>3, <5>2 DEF Blank
        <5> QED
          BY <5>1, <5>2
      <4>4. CASE k = <<"qr", c>>
        <5>1. CASE c \in known
          <6>1. db[k] = [version |-> 1, status |-> "ACTIVE"]
            BY <1>3, <4>4, <5>1
          <6>2. k[1] = "qr"
            BY <4>4
          <6> QED
            BY <6>1, <6>2 DEF Written
        <5>2. CASE c \notin known
          BY <1>3, <4>4, <5>2 DEF Blank
        <5> QED
          BY <5>1, <5>2
      <4> QED
        BY <4>1, <4>2, <4>3, <4>4
    <3> QED
      BY <3>1, <3>2 DEF Key
  <2>3. DOMAIN draft = Request /\ prog \in [Request -> Seq(Task)] /\ doing \in [Request -> Kind \cup Job]
    BY <1>2, <1>8
  <2>4. file \in [Job -> [mode : Mode, rows : Seq(Row)]]
    BY <1>2 DEF NoFile, Mode
  <2>5. imported \in [Job -> SUBSET Code]
    BY <1>2
  <2> QED
    BY <1>1, <1>2, <1>7, <2>1, <2>2, <2>3, <2>4, <2>5 DEF ImportsTyped
<1>10. \A r \in Request : RequestFits(r)
  <2>1. ASSUME NEW r \in Request PROVE RequestFits(r)
    <3>1. PhaseFits(r)
      BY <1>7, <1>8 DEF PhaseFits
    <3>2. QrFits(r)
      BY <1>7 DEF QrFits
    <3>3. TasksFit(r)
      BY <1>7 DEF TasksFit
    <3>4. DraftFits(r)
      BY <1>7 DEF DraftFits, OwnNew
    <3>5. RowsDone(r)
      BY <1>7, <1>8 DEF RowsDone, Going
    <3> QED
      BY <3>1, <3>2, <3>3, <3>4, <3>5 DEF RequestFits
  <2> QED
    BY <2>1
<1>11. Disjoint
  BY <1>7 DEF Disjoint
<1>12. FilesFit
  <2>1. \A j \in Job : file[j].rows = << >> /\ file[j].mode = "UPSERT"
    BY <1>2 DEF NoFile
  <2>2. \A j \in Job : DOMAIN file[j].rows = {}
    BY <2>1
  <2> QED
    BY <2>1, <2>2 DEF FilesFit, Injective
<1>13. TableFits
  <2>1. ASSUME NEW c \in Code
        PROVE  /\ db[<<"enrolment", c>>].seat # NoSeat => Known(c)
               /\ db[<<"enrolment", c>>].active => db[<<"enrolment", c>>].seat # NoSeat
    BY <1>6, <1>4
  <2> QED
    BY <2>1 DEF TableFits
<1>14. JobsHold
  <2>1. \A j \in Job : imported[j] = {}
    BY <1>2
  <2>2. FailedImportsNobody
    BY <1>5 DEF FailedImportsNobody
  <2> QED
    BY <1>5, <1>7, <1>8, <2>1, <2>2 DEF JobsHold
<1>15. StudentIsEnrolled
  <2>1. ASSUME NEW c \in Code, Known(c)
        PROVE  db[<<"enrolment", c>>].seat # NoSeat \/ c \in former
    BY <1>6, <1>4, <2>1
  <2> QED
    BY <2>1 DEF StudentIsEnrolled
<1>16. SeatsFit
  <2>1. \A r \in Request, c \in Code : SeatOf(r, c) = db[<<"enrolment", c>>].seat
    BY <1>7 DEF SeatOf, Sees
  <2>2. ASSUME NEW c \in Code, NEW e \in Code, c # e, db[<<"enrolment", c>>].seat # NoSeat
        PROVE  db[<<"enrolment", c>>].seat # db[<<"enrolment", e>>].seat
    <3>1. c \in known \ former
      BY <1>4, <2>2
    <3>2. db[<<"enrolment", c>>].seat = place[c]
      BY <1>4, <3>1
    <3>3. CASE e \in known \ former
      <4>1. db[<<"enrolment", e>>].seat = place[e]
        BY <1>4, <3>3
      <4>2. place[c] # place[e]
        BY <1>1, <2>2, <3>1, <3>3
      <4> QED
        BY <3>2, <4>1, <4>2
    <3>4. CASE e \notin known \ former
      BY <1>6, <1>4, <3>2, <3>4
    <3> QED
      BY <3>3, <3>4
  <2>3. ASSUME NEW r \in Request, NEW c \in Code, NEW e \in Code, c # e, SeatOf(r, c) # NoSeat
        PROVE  SeatOf(r, c) # SeatOf(r, e)
    BY <2>1, <2>2, <2>3
  <2>4. \A q \in Request, c \in Code : <<"enrolment", c>> \notin DOMAIN draft[q]
    BY <1>7
  <2> QED
    BY <2>2, <2>3, <2>4 DEF SeatsFit
<1> QED
  BY <1>9, <1>10, <1>11, <1>12, <1>13, <1>14, <1>15, <1>16 DEF ImportsInv

\* Every step keeps the invariant.
LEMMA ImportsStep ==
  ASSUME ImportsInv, [ImportsNext]_importsVars
  PROVE  ImportsInv'
<1>1. CASE UNCHANGED importsVars
  <2>1. UNCHANGED <<db, draft, prog, doing, file, aged, twice, torn, imported, anonymous, former, gone>>
    BY <1>1 DEF importsVars, identities
  <2>2. ImportsTyped'
    BY <2>1 DEF ImportsInv, ImportsTyped, Written
  <2>3. \A q \in Request : RequestFits(q)'
    BY <2>1, OthersStay
  <2>4. FilesFit' /\ TableFits' /\ StudentIsEnrolled' /\ JobsHold'
    BY <2>1, SameTables
  <2>5. Disjoint' /\ SeatsFit'
    <3>1. \A q \in Request : Drops(q)
      BY <2>1 DEF Drops
    <3> QED
      BY <2>1, <3>1, SameSeats
  <2> QED
    BY <2>2, <2>3, <2>4, <2>5 DEF ImportsInv
<1>2. CASE ImportsNext
  <2>1. ASSUME NEW r \in Request,
               \/ Statement(r) \/ Abort(r) \/ Commit(r) \/ Cut(r) \/ Lost(r)
               \/ Start(r) \/ \E j \in Job : Confirm(r, j)
        PROVE  ImportsInv'
    BY <2>1, StatementSafe, AbortSafe, CommitSafe, CutSafe, LostSafe, StartSafe, ConfirmSafe
  <2>2. ASSUME NEW j \in Job, Age(j) \/ \E mode \in Mode, rows \in Files : Validate(j, mode, rows)
        PROVE  ImportsInv'
    BY <2>2, AgeSafe, ValidateSafe
  <2>3. ASSUME NEW c \in Code, NEW n \in Code, Anonymize(c, n) PROVE ImportsInv'
    BY <2>3, AnonymizeSafe
  <2> QED
    BY <1>2, <2>1, <2>2, <2>3 DEF ImportsNext
<1> QED
  BY <1>1, <1>2

\* The invariant holds in every state.
LEMMA ImportsInvariant == ImportsSpec => []ImportsInv
<1>1. ImportsInit => ImportsInv
  BY InitSafe
<1>2. ImportsInv /\ [ImportsNext]_importsVars => ImportsInv'
  BY ImportsStep
<1> QED
  BY <1>1, <1>2, PTL DEF ImportsSpec

\* The rows keep their values, one open transaction writes a row, and no roll
\* number is committed twice: a taken place is looked for in what the
\* transaction sees, after waiting for the others that write it.
THEOREM ImportsTypeCorrect == ImportsSpec => []ImportsTypeOK
<1>1. ASSUME ImportsInv PROVE ImportsTypeOK
  <2>1. ImportsTyped /\ Disjoint /\ SeatsFit
    BY <1>1 DEF ImportsInv
  <2>2. ASSUME NEW c \in Code
        PROVE  /\ db[<<"student", c>>] \in {"NONE", "ACTIVE", "INACTIVE"}
               /\ db[<<"enrolment", c>>] \in [seat : Seat \cup {NoSeat}, active : BOOLEAN]
               /\ db[<<"qr", c>>] \in [version : Nat, status : {"NONE", "ACTIVE", "REVOKED"}]
    BY <2>1, TableShape
  <2>3. ASSUME NEW j \in Job
        PROVE  db[<<"job", j>>] \in {"NONE", "VALIDATED", "PROCESSING", "COMPLETED", "FAILED"}
    <3> DEFINE J == <<"job", j>>
    <3>1. J \in Key /\ J[1] = "job"
      BY DEF Key
    <3> HIDE DEF J
    <3>2. db[J] \in {"NONE", "VALIDATED", "PROCESSING", "COMPLETED", "FAILED"}
      BY <2>1, <3>1 DEF ImportsTyped, Written, Blank
    <3> QED
      BY <3>2 DEF J
  <2>4. \A j \in Job : file[j].mode \in Mode /\ file[j].rows \in Seq(Row)
    BY <2>1 DEF ImportsTyped
  <2>5. \A c, e \in Code :
          c # e /\ db[<<"enrolment", c>>].seat # NoSeat =>
            db[<<"enrolment", c>>].seat # db[<<"enrolment", e>>].seat
    BY <2>1 DEF SeatsFit
  <2> QED
    BY <2>1, <2>2, <2>3, <2>4, <2>5 DEF ImportsTypeOK, ImportsTyped, Disjoint
<1> QED
  BY <1>1, ImportsInvariant, PTL

\* A FAILED job has imported nobody, unless it was confirmed twice at once or
\* its confirmation was cut: a confirmation that fails keeps only the row of its job.
THEOREM FailedImportsNobodyHolds == ImportsSpec => []FailedImportsNobody
<1>1. ImportsInv => FailedImportsNobody
  BY DEF ImportsInv, JobsHold
<1> QED
  BY <1>1, ImportsInvariant, PTL

\* A student without a roll number of the current year came without one, or was
\* committed by a connection cut between the two inserts, under this code or the one
\* anonymization replaced.
THEOREM StudentIsEnrolledHolds == ImportsSpec => []StudentIsEnrolled
<1>1. ImportsInv => StudentIsEnrolled
  BY DEF ImportsInv
<1> QED
  BY <1>1, ImportsInvariant, PTL

\* What a committed import that marks its job COMPLETED has done for its file.
LEMMA CompletedKeeps ==
  ASSUME ImportsInv, NEW r \in Request, Commit(r) \/ Cut(r), NEW j \in Job,
         db[<<"job", j>>] # "COMPLETED", db'[<<"job", j>>] = "COMPLETED",
         NEW row \in RowsOf(j)
  PROVE  LET c == row[1]  held == db'[<<"enrolment", c>>].seat IN
           \/ <<j, c>> \in gone
           \/ /\ db'[<<"student", c>>] # "NONE"
              /\ held \in {row[2], NoSeat}
              /\ held = NoSeat => <<"student", c>> \in torn \/ c \in former
<1>0. ImportsTyped /\ PhaseFits(r) /\ RowsDone(r) /\ Keep(r)
  BY DEF ImportsInv, RequestFits, Commit, Cut
<1>1. <<"job", j>> \in DOMAIN draft[r] /\ draft[r][<<"job", j>>] = "COMPLETED"
  <2>1. <<"job", j>> \in Key
    BY DEF Key
  <2> QED
    BY <1>0, <2>1, KeepShape
<1>2. <<"job", j>> = JobRow(r) /\ doing[r] = j
  <2>1. <<"job", j>> = JobRow(r)
    BY <1>0, <1>1 DEF PhaseFits
  <2> QED
    BY <2>1 DEF JobRow
<1>3. Settled(r)
  <2>1. ~ Staged(r)
    BY <1>1 DEF Staged
  <2>2. ~ Underway(r)
    BY <1>1, <1>2 DEF Underway, Has
  <2> QED
    BY <1>0, <1>2, <2>1, <2>2 DEF PhaseFits
<1>4. Going(r) /\ prog[r] = << >>
  BY <1>1, <1>2, <1>3 DEF Going, Settled, Has
<1> DEFINE c == row[1]  s == row[2]
<1>5. c \in Code /\ s \in Seat /\ s # NoSeat
  <2>1. row \in Row
    BY <1>0 DEF ImportsTyped, RowsOf
  <2> QED
    BY <2>1, ImportsAssumption DEF Row
<1>6. Placed(r, c, s) \/ Orphan(c) \/ <<j, c>> \in gone
  <2>1. Awaits(r, c, s) \/ Placed(r, c, s) \/ Orphan(c) \/ <<j, c>> \in gone
    BY <1>0, <1>2, <1>4 DEF RowsDone, Passed
  <2>2. ~ Awaits(r, c, s)
    BY <1>4 DEF Awaits
  <2> QED
    BY <2>1, <2>2
<1> HIDE DEF c, s
<1>7. CASE Placed(r, c, s)
  <2>1. /\ <<"enrolment", c>> \in DOMAIN draft[r]
        /\ draft[r][<<"enrolment", c>>].seat = s
    BY <1>7 DEF Placed
  <2>2. db'[<<"enrolment", c>>].seat = s /\ Known(c)'
    BY <1>0, <1>5, <2>1, KeepStudent
  <2>3. db'[<<"student", c>>] # "NONE"
    BY <2>2 DEF Known
  <2> QED
    BY <1>5, <2>2, <2>3 DEF c, s
<1>8. CASE Orphan(c)
  <2>1. Orphan(c)'
    BY <1>0, <1>5, <1>8, KeepStudent
  <2>2. db'[<<"student", c>>] # "NONE" /\ db'[<<"enrolment", c>>].seat = NoSeat
    BY <2>1 DEF Orphan, Known
  <2>3. <<"student", c>> \in torn \/ c \in former
    BY <1>5, <1>8 DEF Orphan, ImportsInv, StudentIsEnrolled
  <2> QED
    BY <2>2, <2>3 DEF c
<1>9. CASE <<j, c>> \in gone
  BY <1>9 DEF c
<1> QED
  BY <1>6, <1>7, <1>8, <1>9

\* The steps that write no row of the tables.
LEMMA QuietSteps ==
  ASSUME ImportsInv, [ImportsNext]_importsVars
  PROVE  \/ UNCHANGED db
         \/ \E r \in Request : Commit(r) \/ Cut(r)
         \/ \E j \in Job, mode \in Mode, rows \in Files : Validate(j, mode, rows)
         \/ \E c, n \in Code : Anonymize(c, n)
<1>1. CASE UNCHANGED importsVars
  BY <1>1 DEF importsVars
<1>2. CASE ImportsNext
  <2>1. ASSUME NEW r \in Request, Statement(r) PROVE UNCHANGED db
    BY <2>1 DEF Statement
  <2>2. ASSUME NEW r \in Request, Abort(r) \/ Lost(r) PROVE UNCHANGED db
    BY <2>2 DEF Abort, Lost
  <2>3. ASSUME NEW r \in Request, Start(r) PROVE UNCHANGED db
    BY <2>3 DEF Start
  <2>4. ASSUME NEW r \in Request, NEW j \in Job, Confirm(r, j) PROVE UNCHANGED db
    BY <2>4 DEF Confirm
  <2>5. ASSUME NEW j \in Job, Age(j) PROVE UNCHANGED db
    BY <2>5 DEF Age
  <2> QED
    BY <1>2, <2>1, <2>2, <2>3, <2>4, <2>5 DEF ImportsNext
<1> QED
  BY <1>1, <1>2

\* A job is COMPLETED by a transaction that leaves every student of its file in
\* the place the file gives; it passes over students who are known but not enrolled
\* in the current year, and rows whose student was anonymized before it wrote them.
THEOREM CompletedIsImportedHolds == ImportsSpec => CompletedIsImported
<1> DEFINE Imported ==
      \A j \in Job :
        db[<<"job", j>>] # "COMPLETED" /\ db'[<<"job", j>>] = "COMPLETED" =>
          \A i \in DOMAIN file[j].rows :
            LET c == file[j].rows[i][1]  held == db'[<<"enrolment", c>>].seat IN
              \/ <<j, c>> \in gone
              \/ /\ db'[<<"student", c>>] # "NONE"
                 /\ held \in {file[j].rows[i][2], NoSeat}
                 /\ held = NoSeat => <<"student", c>> \in torn \/ c \in former
<1>1. ASSUME ImportsInv, [ImportsNext]_importsVars PROVE Imported
  <2>1. ASSUME NEW j \in Job, db[<<"job", j>>] # "COMPLETED", db'[<<"job", j>>] = "COMPLETED"
        PROVE  \E r \in Request : Commit(r) \/ Cut(r)
    <3>1. ~ UNCHANGED db
      BY <2>1
    <3>2. ASSUME NEW i \in Job, NEW mode \in Mode, NEW rows \in Files, Validate(i, mode, rows)
          PROVE  db'[<<"job", j>>] \in {db[<<"job", j>>], "NONE", "VALIDATED", "FAILED"}
      <4>1. ImportsTyped
        BY <1>1 DEF ImportsInv
      <4>2. CASE i = j
        BY <3>2, <4>1, <4>2, ValidateShape
      <4>3. CASE i # j
        BY <3>2, <4>1, <4>3, ValidateShape
      <4> QED
        BY <4>2, <4>3
    <3>3. ASSUME NEW c \in Code, NEW n \in Code, Anonymize(c, n)
          PROVE  db'[<<"job", j>>] = db[<<"job", j>>]
      BY <1>1, <3>3, AnonymizeShape DEF Renames
    <3> QED
      BY <1>1, <2>1, <3>1, <3>2, <3>3, QuietSteps
  <2>2. \A j \in Job : \A i \in DOMAIN file[j].rows : file[j].rows[i] \in RowsOf(j)
    BY DEF RowsOf
  <2> QED
    BY <1>1, <2>1, <2>2, CompletedKeeps
<1> QED
  BY <1>1, ImportsInvariant, PTL DEF ImportsSpec, CompletedIsImported

\* A card is taken from a student only by a revocation: a transaction that takes
\* a card back has the statement that issues the next one before it, and one who is
\* anonymized keeps the card.
THEOREM CardIsReplacedHolds == ImportsSpec => CardIsReplaced
<1> DEFINE Replaced ==
      \A c \in Code :
        db[<<"qr", c>>].status = "ACTIVE" /\ db'[<<"qr", c>>].status # "ACTIVE" =>
          \/ \E r \in Request : doing[r] = "revocation" /\ doing'[r] = "idle"
          \/ <<"qr", c>> \in torn'
          \/ \E n \in anonymous' \ anonymous : db'[<<"qr", n>>] = db[<<"qr", c>>]
<1>1. ASSUME ImportsInv, [ImportsNext]_importsVars PROVE Replaced
  <2>0. ImportsTyped
    BY <1>1 DEF ImportsInv
  <2>1. ASSUME NEW c \in Code, db[<<"qr", c>>].status = "ACTIVE", db'[<<"qr", c>>].status # "ACTIVE"
        PROVE  \/ \E r \in Request : doing[r] = "revocation" /\ doing'[r] = "idle"
               \/ <<"qr", c>> \in torn'
               \/ \E n \in anonymous' \ anonymous : db'[<<"qr", n>>] = db[<<"qr", c>>]
    <3>1. <<"qr", c>> \in Key /\ <<"qr", c>>[1] # "job"
      BY DEF Key
    <3>2. ASSUME NEW i \in Job, NEW mode \in Mode, NEW rows \in Files, Validate(i, mode, rows)
          PROVE  db'[<<"qr", c>>] = db[<<"qr", c>>]
      BY <2>0, <3>1, <3>2, ValidateShape
    <3>3. CASE \E d, n \in Code : Anonymize(d, n)
      <4>1. PICK d \in Code, n \in Code : Anonymize(d, n)
        BY <3>3
      <4>0. Renames(d, n)
        BY <1>1, <4>1, AnonymizeShape
      <4>2. c \in {d, n}
        BY <2>1, <4>0 DEF Renames
      <4>3. c = d
        <5>1. NoQr.status # "ACTIVE"
          BY DEF NoQr
        <5> QED
          BY <2>1, <4>0, <4>2, <5>1 DEF Renames
      <4>4. n \in anonymous' \ anonymous
        BY <4>1 DEF Anonymize, Unused
      <4>5. db'[<<"qr", n>>] = db[<<"qr", c>>]
        BY <4>0, <4>3 DEF Renames
      <4> QED
        BY <4>4, <4>5
    <3>4. ASSUME NEW r \in Request, Commit(r) \/ Cut(r)
          PROVE  \/ doing[r] = "revocation" /\ doing'[r] = "idle"
                 \/ <<"qr", c>> \in torn'
      <4>1. Keep(r) /\ QrFits(r)
        BY <1>1, <3>4 DEF Commit, Cut, ImportsInv, RequestFits
      <4>2. <<"qr", c>> \in DOMAIN draft[r] /\ draft[r][<<"qr", c>>].status # "ACTIVE"
        BY <2>0, <2>1, <3>1, <4>1, KeepShape
      <4>3. CASE doing[r] = "revocation"
        BY <2>0, <4>1, <4>3, KeepShape
      <4>4. CASE doing[r] # "revocation"
        <5>1. Later(prog[r], 0, "qr", c)
          BY <4>1, <4>2, <4>4 DEF QrFits
        <5>2. prog[r] # << >>
          <6>1. ASSUME prog[r] = << >> PROVE FALSE
            <7>1. Len(prog[r]) = 0
              BY <6>1
            <7>2. 0 + 1 .. Len(prog[r]) = {}
              BY <7>1
            <7> QED
              BY <5>1, <7>2 DEF Later
          <6> QED
            BY <6>1
        <5>3. Cut(r)
          BY <3>4, <5>2 DEF Commit
        <5> QED
          BY <4>2, <5>3 DEF Cut
      <4> QED
        BY <4>3, <4>4
    <3> QED
      BY <1>1, <2>1, <3>2, <3>3, <3>4, QuietSteps
  <2> QED
    BY <2>1
<1> QED
  BY <1>1, ImportsInvariant, PTL DEF ImportsSpec, CardIsReplaced
=============================================================================
