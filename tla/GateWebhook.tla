----------------------------- MODULE GateWebhook -----------------------------
(***************************************************************************)
(* The gate as shipped (processZebraIotWebhook, RFID_INGEST_V2 off): every *)
(* read of a delivery is processed in a series of short transactions of    *)
(* its own. The module follows the reads of one card at one reader beside  *)
(* the register of the class of the student who carries it.                *)
(***************************************************************************)
EXTENDS Register

CONSTANTS
  Carrier,    \* the student who carries the card
  Delivery,   \* deliveries of the reader that the server works on at a time
  MaxTaps,    \* bound: passages of the card, by the second they happened
  Cooldown,   \* RFID_DUPLICATE_TAP_COOLDOWN_MS, in those seconds
  MaxSends    \* bound: deliveries, repeated ones included

ASSUME GateAssumption ==
  /\ Carrier \in Student
  /\ MaxTaps \in Nat \ {0} /\ Cooldown \in Nat /\ MaxSends \in Nat

Tap   == 1 .. MaxTaps
Event == {"none", "ACCEPTED", "DUPLICATE", "REJECTED"}

VARIABLES
  card,     \* the credential is ACTIVE
  debounce, \* the debounce key is in Redis
  event,    \* rfid_scan_events.decision, by the tap that makes the idempotency key
  pc, tap,  \* the deliveries, and the tap each carries
  place,    \* the session a delivery found or made
  plan,     \* what its transaction decided to do with the record it read
  late,     \* history: deliveries overtaken by a finalization
  accepted  \* history: sessions for which the card was answered ACCEPTED

deliveryVars == <<pc, tap, place, plan>>
historyVars  == <<late, accepted>>
gateVars     == <<card, debounce, event, deliveryVars, historyVars>>
webhookVars  == <<registerVars, gateVars>>

Init ==
  /\ RegisterInit
  /\ card = TRUE /\ debounce = FALSE
  /\ event = [t \in Tap |-> "none"]
  /\ pc = [d \in Delivery |-> "idle"]
  /\ tap = [d \in Delivery |-> 1]
  /\ place = [d \in Delivery |-> "DAILY"]
  /\ plan = [d \in Delivery |-> "keep"]
  /\ late = {} /\ accepted = {}

GoTo(d, step) == pc' = [pc EXCEPT ![d] = step]
Log(t, decision) == event' = [event EXCEPT ![t] = IF @ = "none" THEN decision ELSE @]

\* The delivery is over; place and plan return to what they were at the start.
Leave(d) ==
  /\ GoTo(d, "idle")
  /\ tap' = [tap EXCEPT ![d] = 1]
  /\ place' = [place EXCEPT ![d] = "DAILY"]
  /\ plan' = [plan EXCEPT ![d] = "keep"]
  /\ late' = late \ {d}

-----------------------------------------------------------------------------
(* One delivery, step by step *)

\* A card that is not ACTIVE is logged and rejected.
Receive(d, t) ==
  /\ pc[d] = "idle"
  /\ Use("sends", MaxSends)
  /\ IF card
     THEN GoTo(d, "known") /\ tap' = [tap EXCEPT ![d] = t] /\ UNCHANGED event
     ELSE Log(t, "REJECTED") /\ UNCHANGED <<pc, tap>>
  /\ UNCHANGED <<card, debounce, place, plan, historyVars>>

\* SET NX: the key stays whatever becomes of the read.
SetMark(d) ==
  /\ pc[d] = "known"
  /\ IF debounce THEN GoTo(d, "duplicate") /\ UNCHANGED debounce
     ELSE GoTo(d, "marked") /\ debounce' = TRUE
  /\ UNCHANGED <<card, event, tap, place, plan, historyVars, used>>

\* Without Redis only the database debounces.
NoRedis(d) ==
  /\ pc[d] = "known"
  /\ Use("faults", MaxFaults)
  /\ GoTo(d, "marked")
  /\ UNCHANGED <<card, debounce, event, tap, place, plan, historyVars>>

Recent(t) == \E u \in Tap : event[u] = "ACCEPTED" /\ u > t - Cooldown

CheckRecent(d) ==
  /\ pc[d] = "marked"
  /\ GoTo(d, IF Recent(tap[d]) THEN "duplicate" ELSE "fresh")
  /\ UNCHANGED <<card, debounce, event, tap, place, plan, historyVars, used>>

LogDuplicate(d) ==
  /\ pc[d] = "duplicate"
  /\ Log(tap[d], "DUPLICATE")
  /\ Leave(d)
  /\ UNCHANGED <<card, debounce, accepted, used>>

\* Rejected after the key was set: the student is not in the class (not
\* logged), the session is closed, or nobody teaches the class.
Reject(d, logged) ==
  /\ IF logged THEN Log(tap[d], "REJECTED") ELSE UNCHANGED event
  /\ Leave(d)

\* Mutant of Closed: the status of the session that is found is not looked at.
X_NeverClosed(t) == FALSE
Closed(t) == session[t].status = "FINALIZED"

\* The session is looked up by class and date: either of two may come back.
FindSession(d) ==
  /\ pc[d] = "fresh"
  /\ \/ Carrier \notin enrolled /\ Reject(d, FALSE)
     \/ /\ Carrier \in enrolled
        /\ \E t \in Type :
             /\ Exists(t)
             /\ IF Closed(t) THEN Reject(d, TRUE)
                ELSE /\ GoTo(d, "ready") /\ place' = [place EXCEPT ![d] = t]
                     /\ UNCHANGED <<event, tap, plan, late>>
     \/ /\ Carrier \in enrolled /\ \A t \in Type : ~Exists(t)
        /\ IF taught THEN GoTo(d, "making")
                          /\ UNCHANGED <<event, tap, place, plan, late>>
                     ELSE Reject(d, TRUE)
  /\ UNCHANGED <<card, debounce, accepted, used>>

\* The winner of a race for the session may be of either type, and is not
\* looked at again: it may be finalized by now.
MakeSession(d) ==
  /\ pc[d] = "making"
  /\ GoTo(d, "ready")
  /\ IF Exists("GATE_ARRIVAL")
     THEN /\ \E t \in Type : Exists(t) /\ place' = [place EXCEPT ![d] = t]
          /\ UNCHANGED session
     ELSE /\ place' = [place EXCEPT ![d] = "GATE_ARRIVAL"]
          /\ session' = [session EXCEPT !["GATE_ARRIVAL"].status = "OPEN"]
  /\ UNCHANGED <<card, debounce, event, tap, plan, historyVars, used>>

Planned(t) ==
  IF record[t][Carrier] = "none" THEN "insert"
  ELSE IF record[t][Carrier] \in {"PRESENT", "EXCUSED"} \/ <<t, Carrier>> \in manual
       THEN "keep" ELSE "update"

\* Mutant of RowFree: the credential row is read without FOR UPDATE.
X_NoRowLock == TRUE
RowFree == \A d \in Delivery : pc[d] # "claimed"

\* Mutant of Claim: the recent reads are not looked at again under the lock.
X_ClaimBlindly(d) ==
  /\ pc[d] = "ready"
  /\ RowFree
  /\ IF event[tap[d]] # "none"
     THEN Leave(d)
     ELSE /\ GoTo(d, "claimed") /\ plan' = [plan EXCEPT ![d] = Planned(place[d])]
          /\ UNCHANGED <<tap, place, late>>
  /\ UNCHANGED <<card, debounce, event, accepted, used>>

\* Under the lock of the credential row; the scan event that is inserted
\* references the session, whose row a finalization must wait for. Any event
\* with the key of the read, a logged duplicate included, means it was handled.
Claim(d) ==
  /\ pc[d] = "ready"
  /\ RowFree
  /\ IF Recent(tap[d])
     THEN GoTo(d, "duplicate")
          /\ UNCHANGED <<tap, place, plan, late>>
     ELSE IF event[tap[d]] # "none"
     THEN Leave(d)
     ELSE /\ GoTo(d, "claimed") /\ plan' = [plan EXCEPT ![d] = Planned(place[d])]
          /\ UNCHANGED <<tap, place, late>>
  /\ UNCHANGED <<card, debounce, event, accepted, used>>

\* Mutant of Written: only an UNMARKED record is updated.
X_WrittenIfUnmarked(d) ==
  LET t == place[d] IN
  IF (plan[d] = "update" /\ record[t][Carrier] = "UNMARKED")
     \/ (plan[d] = "insert" /\ record[t][Carrier] = "none")
  THEN [record EXCEPT ![t][Carrier] = "PRESENT"] ELSE record

\* The update names the record by its id alone; the insert gives way.
Writes(d) == \/ plan[d] = "update"
             \/ plan[d] = "insert" /\ record[place[d]][Carrier] = "none"
Written(d) ==
  IF Writes(d) THEN [record EXCEPT ![place[d]][Carrier] = "PRESENT"] ELSE record

Accept(d) ==
  /\ pc[d] = "claimed"
  /\ event' = [event EXCEPT ![tap[d]] = "ACCEPTED"]
  /\ record' = Written(d)
  /\ manual' = IF Writes(d) THEN manual \ {<<place[d], Carrier>>} ELSE manual
  /\ accepted' = accepted \cup {place[d]}
  /\ GoTo(d, "accepted")
  /\ UNCHANGED <<card, debounce, tap, place, plan, late, used>>

MarkAgain(d) ==
  /\ pc[d] = "accepted"
  /\ debounce' = TRUE
  /\ Leave(d)
  /\ UNCHANGED <<card, event, accepted, used>>

\* The process dies or a statement fails; an open transaction is rolled back.
Die(d) ==
  /\ pc[d] # "idle"
  /\ Use("faults", MaxFaults)
  /\ Leave(d)
  /\ UNCHANGED <<card, debounce, event, accepted>>

-----------------------------------------------------------------------------
(* The rest of the school *)

\* The key expires after the cooldown, by the clock of the server.
Expire ==
  /\ debounce /\ debounce' = FALSE
  /\ UNCHANGED <<card, event, deliveryVars, historyVars, used>>

SwitchCard ==
  /\ Use("moves", MaxMoves)
  /\ card' = ~card
  /\ UNCHANGED <<debounce, event, deliveryVars, historyVars>>

Staff ==
  /\ RegisterNext
  /\ \A d \in Delivery : pc[d] = "claimed" => session'[place[d]] = session[place[d]]
  /\ late' = IF \E t \in Type : session[t].status # "FINALIZED"
                                 /\ session'[t].status = "FINALIZED"
             THEN late \cup {d \in Delivery : pc[d] # "idle"} ELSE late
  /\ UNCHANGED <<card, debounce, event, deliveryVars, accepted>>

\* What the steps of the gate leave alone on the register.
rest == <<roster, ruled, classVars, requestVars, answered, torn>>

Step(d) ==
  \/ /\ \/ \E t \in Tap : Receive(d, t)
        \/ SetMark(d) \/ NoRedis(d) \/ CheckRecent(d) \/ LogDuplicate(d)
        \/ FindSession(d) \/ Claim(d) \/ MarkAgain(d) \/ Die(d)
     /\ UNCHANGED <<session, record, manual>>
  \/ MakeSession(d) /\ UNCHANGED <<record, manual>>
  \/ Accept(d) /\ UNCHANGED session

Next ==
  \/ \E d \in Delivery : Step(d) /\ UNCHANGED rest
  \/ (Expire \/ SwitchCard) /\ UNCHANGED <<session, record, manual, rest>>
  \/ Staff

Spec == Init /\ [][Next]_webhookVars

-----------------------------------------------------------------------------
(* Properties *)

\* The values of the state; one delivery at a time holds the credential row,
\* and only one that still has its read before it can be in a transaction.
GateTypeOK ==
  /\ RegisterTypeOK
  /\ card \in BOOLEAN /\ debounce \in BOOLEAN /\ event \in [Tap -> Event]
  /\ pc \in [Delivery -> {"idle", "known", "marked", "duplicate", "fresh", "making",
                          "ready", "claimed", "accepted"}]
  /\ tap \in [Delivery -> Tap] /\ place \in [Delivery -> Type]
  /\ plan \in [Delivery -> {"insert", "update", "keep"}]
  /\ late \subseteq {d \in Delivery : pc[d] # "idle"}
  /\ accepted \subseteq Type
  /\ \A d \in Delivery : pc[d] \in {"ready", "claimed", "accepted"} => Exists(place[d])
  /\ \A d, e \in Delivery : pc[d] = "claimed" /\ pc[e] = "claimed" => d = e

\* Two reads of a card at one reader within the cooldown are never both
\* accepted, whether Redis answers or not and however deliveries overlap.
AcceptedOnce ==
  \A t, u \in Tap :
    t < u /\ event[t] = "ACCEPTED" /\ event[u] = "ACCEPTED" => u - t >= Cooldown

\* A read that was accepted stays visible: its student is present or excused in
\* that session, unless staff decided otherwise.
AcceptedIsOnRegister ==
  \A t \in accepted :
    \/ record[t][Carrier] \in {"PRESENT", "EXCUSED"}
    \/ <<t, Carrier>> \in ruled

\* Only a delivery that was overtaken by the finalization can write into a
\* finalized session.
FinalizedUnlessOvertaken ==
  [][\A d \in Delivery :
       /\ pc[d] = "claimed" /\ pc'[d] = "accepted"
       /\ session[place[d]].status = "FINALIZED" /\ record' # record
       => d \in late]_webhookVars

\* The comment at the update of the record: "NEVER overwrite teacher's manual
\* decision with RFID_GATE!" A record staff edited keeps its MANUAL method.
ManualSurvives == ruled \subseteq manual
=============================================================================
