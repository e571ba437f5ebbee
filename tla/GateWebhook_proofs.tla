------------------------- MODULE GateWebhook_proofs -------------------------
(* Theorems about GateWebhook, for every number of deliveries and taps *)
EXTENDS GateWebhook, Register_proofs

-----------------------------------------------------------------------------
(* The inductive invariant *)

\* A claim is right: no accepted read was seen within the cooldown, and what is
\* planned for the record is right unless staff ruled it.
Right(d) ==
  /\ ~Recent(tap[d])
  /\ \/ <<place[d], Carrier>> \in ruled
     \/ plan[d] = "update"
     \/ plan[d] = "insert" /\ record[place[d]][Carrier] = "none"
     \/ plan[d] = "keep" /\ record[place[d]][Carrier] \in {"PRESENT", "EXCUSED"}

ClaimsHold == \A d \in Delivery : pc[d] = "claimed" => Right(d)

\* What is manual was ruled by staff, and a session with an accepted read stays.
MarksHold == manual \subseteq ruled /\ \A t \in accepted : Exists(t)

\* A delivery whose session is finalized, or that found none when one is
\* finalized by now, has been overtaken.
OvertakenIsLate ==
  \A d \in Delivery :
    \/ d \in late
    \/ /\ pc[d] = "making" => \A t \in Type : session[t].status # "FINALIZED"
       /\ pc[d] \in {"ready", "claimed"} => session[place[d]].status # "FINALIZED"

WebhookInv ==
  /\ GateTypeOK /\ ClaimsHold /\ MarksHold /\ OvertakenIsLate
  /\ AcceptedOnce /\ AcceptedIsOnRegister

-----------------------------------------------------------------------------
(* Types *)

Places == {"idle", "known", "marked", "duplicate", "fresh", "making", "ready", "claimed",
           "accepted"}

\* A step of a delivery that writes only the session and the marks of the gate
\* leaves the register typed.
LEMMA GateKeepsRegister ==
  ASSUME RegisterTypeOK, UNCHANGED rest,
         session' \in [Type -> Session], record' \in [Type -> [Student -> Mark]],
         manual' \subseteq manual, Exists("DAILY")' => Exists("DAILY"),
         DOMAIN used' = Bound, \A what \in Bound : used'[what] \in Nat
  PROVE  RegisterTypeOK'
  BY DEF RegisterTypeOK, rest, classVars, requestVars, Holder

LEMMA SameRegister ==
  ASSUME RegisterTypeOK, UNCHANGED <<rest, session, record, manual>>,
         DOMAIN used' = Bound, \A what \in Bound : used'[what] \in Nat
  PROVE  RegisterTypeOK'
  BY GateKeepsRegister DEF RegisterTypeOK, Exists

LEMMA LogType ==
  ASSUME GateTypeOK, NEW t \in Tap, NEW decision \in Event, Log(t, decision)
  PROVE  event' \in [Tap -> Event]
  BY DEF GateTypeOK, Log

\* One delivery moves: where it goes is typed, and the claims stay apart.
LEMMA GoToType ==
  ASSUME GateTypeOK, NEW d \in Delivery, NEW step \in Places, GoTo(d, step),
         step = "claimed" => RowFree
  PROVE  /\ pc' \in [Delivery -> Places]
         /\ \A c, e \in Delivery : pc'[c] = "claimed" /\ pc'[e] = "claimed" => c = e
         /\ pc'[d] = step /\ \A c \in Delivery : c # d => pc'[c] = pc[c]
  BY DEF GateTypeOK, GoTo, RowFree, Places

\* A delivery that leaves is typed again.
LEMMA LeaveType ==
  ASSUME GateTypeOK, NEW d \in Delivery, Leave(d)
  PROVE  /\ pc' \in [Delivery -> Places] /\ pc'[d] = "idle"
         /\ tap' \in [Delivery -> Tap] /\ place' \in [Delivery -> Type]
         /\ plan' \in [Delivery -> {"insert", "update", "keep"}]
         /\ late' \subseteq {c \in Delivery : pc'[c] # "idle"}
         /\ \A c \in Delivery : c # d => /\ pc'[c] = pc[c] /\ place'[c] = place[c]
                                         /\ tap'[c] = tap[c] /\ plan'[c] = plan[c]
         /\ \A c, e \in Delivery : pc'[c] = "claimed" /\ pc'[e] = "claimed" => c = e
<1>1. GoTo(d, "idle") /\ "idle" \in Places
  BY DEF Leave, Places
<1>2. /\ pc' \in [Delivery -> Places] /\ pc'[d] = "idle"
      /\ \A c \in Delivery : c # d => pc'[c] = pc[c]
      /\ \A c, e \in Delivery : pc'[c] = "claimed" /\ pc'[e] = "claimed" => c = e
  BY <1>1, GoToType
<1>3. /\ tap' = [tap EXCEPT ![d] = 1] /\ place' = [place EXCEPT ![d] = "DAILY"]
      /\ plan' = [plan EXCEPT ![d] = "keep"] /\ late' = late \ {d}
  BY DEF Leave
<1>4. 1 \in Tap
  BY GateAssumption DEF Tap
<1>5. QED
  BY <1>2, <1>3, <1>4 DEF GateTypeOK, Type

\* Every step keeps the types.
LEMMA GateNextType == GateTypeOK /\ [Next]_webhookVars => GateTypeOK'
<1> SUFFICES ASSUME GateTypeOK, [Next]_webhookVars PROVE GateTypeOK'
  OBVIOUS
<1>0. RegisterTypeOK /\ DOMAIN used = Bound /\ \A what \in Bound : used[what] \in Nat
  BY DEF GateTypeOK, RegisterTypeOK
<1> DEFINE Same == UNCHANGED <<session, record, manual, rest>>
<1>1. ASSUME NEW d \in Delivery, NEW t \in Tap, Receive(d, t), Same PROVE GateTypeOK'
  <2>1. RegisterTypeOK'
    BY <1>0, <1>1, UseType, SameRegister DEF Receive, Bound
  <2>2. CASE card
    <3>1. GoTo(d, "known") /\ tap' = [tap EXCEPT ![d] = t] /\ UNCHANGED event
      BY <1>1, <2>2 DEF Receive
    <3>2. QED
      BY <1>1, <2>1, <3>1, GoToType
      DEF Receive, historyVars, GateTypeOK, Places, Exists
  <2>3. CASE ~card
    <3>1. event' \in [Tap -> Event]
      BY <1>1, <2>3, LogType DEF Receive, Event
    <3>2. QED
      BY <1>1, <2>1, <2>3, <3>1 DEF Receive, historyVars, GateTypeOK, Exists
  <2>4. QED
    BY <2>2, <2>3
<1>2. ASSUME NEW d \in Delivery, SetMark(d) \/ NoRedis(d) \/ CheckRecent(d), Same
      PROVE  GateTypeOK'
  <2>1. RegisterTypeOK'
    BY <1>0, <1>2, UseType, SameRegister DEF SetMark, NoRedis, CheckRecent, Bound
  <2>2. \E step \in {"duplicate", "marked", "fresh"} : GoTo(d, step)
    BY <1>2 DEF SetMark, NoRedis, CheckRecent
  <2>3. /\ pc[d] # "idle" /\ debounce' \in BOOLEAN
        /\ UNCHANGED <<card, event, tap, place, plan, late, accepted>>
    BY <1>2 DEF SetMark, NoRedis, CheckRecent, historyVars, GateTypeOK
  <2>4. QED
    BY <1>2, <2>1, <2>2, <2>3, GoToType DEF GateTypeOK, Places, Exists
<1>3. ASSUME NEW d \in Delivery, LogDuplicate(d) \/ MarkAgain(d) \/ Die(d), Same
      PROVE  GateTypeOK'
  <2>1. RegisterTypeOK'
    BY <1>0, <1>3, UseType, SameRegister DEF LogDuplicate, MarkAgain, Die, Bound
  <2>2. /\ Leave(d) /\ UNCHANGED <<card, accepted>> /\ debounce' \in BOOLEAN
        /\ Log(tap[d], "DUPLICATE") \/ UNCHANGED event
    BY <1>3 DEF LogDuplicate, MarkAgain, Die, GateTypeOK
  <2>3. event' \in [Tap -> Event]
    BY <2>2, LogType DEF GateTypeOK, Event
  <2>4. \A c \in Delivery : pc'[c] \in {"ready", "claimed", "accepted"} => Exists(place[c])'
                                                                    /\ place'[c] = place[c]
    BY <1>3, <2>2, LeaveType DEF GateTypeOK, Exists
  <2>5. QED
    BY <2>1, <2>2, <2>3, <2>4, LeaveType DEF GateTypeOK, Places, Exists
<1>4. ASSUME NEW d \in Delivery, FindSession(d), Same
      PROVE  GateTypeOK'
  <2>1. RegisterTypeOK'
    BY <1>0, <1>4, SameRegister DEF FindSession
  <2>2. pc[d] = "fresh" /\ UNCHANGED <<card, debounce, accepted>>
    BY <1>4 DEF FindSession
  <2>3. CASE Leave(d) /\ (Log(tap[d], "REJECTED") \/ UNCHANGED event)
    <3>1. event' \in [Tap -> Event]
      BY <2>3, LogType DEF GateTypeOK, Event
    <3>2. \A c \in Delivery : pc'[c] \in {"ready", "claimed", "accepted"} =>
             Exists(place[c])' /\ place'[c] = place[c]
      BY <1>4, <2>3, LeaveType DEF GateTypeOK, Exists
    <3>3. QED
      BY <2>1, <2>2, <2>3, <3>1, <3>2, LeaveType DEF GateTypeOK, Places, Exists
  <2>4. ASSUME NEW t \in Type, Exists(t), GoTo(d, "ready"), place' = [place EXCEPT ![d] = t],
               UNCHANGED <<event, tap, plan, late>>
        PROVE  GateTypeOK'
    <3>1. \A c \in Delivery : pc'[c] \in {"ready", "claimed", "accepted"} => Exists(place'[c])
      BY <2>2, <2>4 DEF GateTypeOK, GoTo
    <3>2. QED
      BY <1>4, <2>1, <2>2, <2>4, <3>1, GoToType DEF GateTypeOK, Places, Exists
  <2>5. CASE GoTo(d, "making") /\ UNCHANGED <<event, tap, place, plan, late>>
    BY <1>4, <2>1, <2>2, <2>5, GoToType DEF GateTypeOK, Places, Exists
  <2>6. QED
    BY <1>4, <2>3, <2>4, <2>5 DEF FindSession, Reject
<1>5. ASSUME NEW d \in Delivery, MakeSession(d), UNCHANGED <<record, manual, rest>>
      PROVE  GateTypeOK'
  <2>1. /\ session' \in [Type -> Session] /\ (Exists("DAILY")' <=> Exists("DAILY"))
        /\ \A t \in Type : Exists(t) => Exists(t)'
        /\ session'[place'[d]].status # "NONE" /\ place' \in [Delivery -> Type]
        /\ \A c \in Delivery : c # d => place'[c] = place[c]
    <3>1. CASE Exists("GATE_ARRIVAL")
      BY <1>0, <1>5, <3>1 DEF MakeSession, GateTypeOK, RegisterTypeOK, Exists
    <3>2. CASE ~Exists("GATE_ARRIVAL")
      BY <1>0, <1>5, <3>2
      DEF MakeSession, GateTypeOK, RegisterTypeOK, Exists, Session, Status, Type
    <3>3. QED
      BY <3>1, <3>2
  <2>2. RegisterTypeOK'
    BY <1>0, <1>5, <2>1, GateKeepsRegister DEF MakeSession, RegisterTypeOK
  <2>3. \A c \in Delivery : pc'[c] \in {"ready", "claimed", "accepted"} =>
           session'[place'[c]].status # "NONE"
    BY <1>5, <2>1 DEF MakeSession, GoTo, GateTypeOK, Exists
  <2>4. pc[d] = "making" /\ GoTo(d, "ready") /\ UNCHANGED <<card, debounce, event, tap, plan, late, accepted>>
    BY <1>5 DEF MakeSession, historyVars
  <2>5. QED
    BY <2>1, <2>2, <2>3, <2>4, GoToType DEF GateTypeOK, Places, Exists
<1>6. ASSUME NEW d \in Delivery, Claim(d), Same
      PROVE  GateTypeOK'
  <2>1. RegisterTypeOK'
    BY <1>0, <1>6, SameRegister DEF Claim
  <2>2. /\ pc[d] = "ready" /\ UNCHANGED <<card, debounce, event, accepted>> /\ RowFree
    BY <1>6 DEF Claim
  <2>3. CASE GoTo(d, "duplicate") /\ UNCHANGED <<tap, place, plan, late>>
    BY <1>6, <2>1, <2>2, <2>3, GoToType DEF GateTypeOK, Places, Exists
  <2>4. CASE Leave(d)
    <3>1. \A c \in Delivery : pc'[c] \in {"ready", "claimed", "accepted"} =>
             Exists(place[c])' /\ place'[c] = place[c]
      BY <1>6, <2>4, LeaveType DEF GateTypeOK, Exists
    <3>2. QED
      BY <2>1, <2>2, <2>4, <3>1, LeaveType DEF GateTypeOK, Places, Exists
  <2>5. CASE /\ GoTo(d, "claimed") /\ plan' = [plan EXCEPT ![d] = Planned(place[d])]
             /\ UNCHANGED <<tap, place, late>>
    <3>1. plan' \in [Delivery -> {"insert", "update", "keep"}]
      BY <2>5 DEF Planned, GateTypeOK
    <3>2. QED
      BY <1>6, <2>1, <2>2, <2>5, <3>1, GoToType DEF GateTypeOK, Places, Exists
  <2>6. QED
    BY <1>6, <2>3, <2>4, <2>5 DEF Claim
<1>7. ASSUME NEW d \in Delivery, Accept(d), UNCHANGED <<session, rest>>
      PROVE  GateTypeOK'
  <2>1. place[d] \in Type /\ tap[d] \in Tap /\ Carrier \in Student
    BY GateAssumption DEF GateTypeOK
  <2>2. record' \in [Type -> [Student -> Mark]] /\ manual' \subseteq manual
    BY <1>0, <1>7, <2>1 DEF Accept, Written, RegisterTypeOK, Mark
  <2>3. RegisterTypeOK'
    BY <1>0, <1>7, <2>2, GateKeepsRegister DEF Accept, RegisterTypeOK, Exists
  <2>4. event' \in [Tap -> Event] /\ accepted' \subseteq Type
    BY <1>7, <2>1 DEF Accept, GateTypeOK, Event
  <2>5. pc[d] = "claimed" /\ GoTo(d, "accepted") /\ UNCHANGED <<card, debounce, tap, place, plan, late>>
    BY <1>7 DEF Accept
  <2>6. QED
    BY <1>7, <2>3, <2>4, <2>5, GoToType DEF GateTypeOK, Places, Exists
<1>8. ASSUME Expire \/ SwitchCard, Same PROVE GateTypeOK'
  <2>1. RegisterTypeOK'
    BY <1>0, <1>8, UseType, SameRegister DEF Expire, SwitchCard, Bound
  <2>2. QED
    BY <1>8, <2>1 DEF Expire, SwitchCard, deliveryVars, historyVars, GateTypeOK, Exists
<1>9. ASSUME Staff PROVE GateTypeOK'
  <2>1. RegisterTypeOK'
    BY <1>0, <1>9, RegisterNextType DEF Staff
  <2>2. \A t \in Type : Exists(t) => Exists(t)'
    BY <1>0, <1>9, RegisterStepMarks, GateAssumption DEF Staff
  <2>3. /\ UNCHANGED <<card, debounce, event, pc, tap, place, plan, accepted>>
        /\ late' \subseteq late \cup {d \in Delivery : pc[d] # "idle"}
    BY <1>9 DEF Staff, deliveryVars
  <2>4. QED
    BY <2>1, <2>2, <2>3 DEF GateTypeOK, Exists
<1>10. ASSUME UNCHANGED webhookVars PROVE GateTypeOK'
  <2>1. RegisterTypeOK'
    BY <1>0, <1>10, RegisterStutterType DEF webhookVars
  <2>2. QED
    BY <1>10, <2>1
    DEF webhookVars, registerVars, gateVars, deliveryVars, historyVars, GateTypeOK, Exists
<1>11. QED
  BY <1>1, <1>2, <1>3, <1>4, <1>5, <1>6, <1>7, <1>8, <1>9, <1>10 DEF Next, Step

-----------------------------------------------------------------------------
(* Deliveries beside each other *)

\* A step of one delivery leaves the others where they are.
Stands(c) ==
  /\ pc'[c] = pc[c] /\ tap'[c] = tap[c] /\ place'[c] = place[c] /\ plan'[c] = plan[c]
  /\ c \in late' <=> c \in late

LEMMA OthersStand ==
  ASSUME GateTypeOK, NEW d \in Delivery, NEW c \in Delivery, c # d, Step(d)
  PROVE  Stands(c)
<1>1. ASSUME Leave(d) PROVE Stands(c)
  BY <1>1 DEF Leave, GoTo, GateTypeOK, Stands
<1>2. ASSUME NEW t \in Tap, Receive(d, t) PROVE Stands(c)
  BY <1>2 DEF Receive, GoTo, historyVars, GateTypeOK, Stands
<1>3. ASSUME SetMark(d) \/ NoRedis(d) \/ CheckRecent(d) PROVE Stands(c)
  BY <1>3 DEF SetMark, NoRedis, CheckRecent, GoTo, historyVars, GateTypeOK, Stands
<1>4. ASSUME FindSession(d) PROVE Stands(c)
  BY <1>1, <1>4 DEF FindSession, Reject, GoTo, GateTypeOK, Stands
<1>5. ASSUME MakeSession(d) PROVE Stands(c)
  BY <1>5 DEF MakeSession, GoTo, historyVars, GateTypeOK, Stands
<1>6. ASSUME Claim(d) PROVE Stands(c)
  BY <1>1, <1>6 DEF Claim, GoTo, GateTypeOK, Stands
<1>7. ASSUME Accept(d) PROVE Stands(c)
  BY <1>7 DEF Accept, GoTo, GateTypeOK, Stands
<1>8. QED
  BY <1>1, <1>2, <1>3, <1>4, <1>5, <1>6, <1>7 DEF Step, LogDuplicate, MarkAgain, Die

\* Only an acceptance makes an accepted event, changes a mark or answers.
LEMMA OnlyAcceptAccepts ==
  ASSUME GateTypeOK, NEW d \in Delivery, Step(d), ~Accept(d)
  PROVE  /\ \A t \in Tap : event'[t] = "ACCEPTED" => event[t] = "ACCEPTED"
         /\ UNCHANGED <<record, manual, accepted>>
<1>1. ASSUME NEW t \in Tap, NEW decision \in {"DUPLICATE", "REJECTED"}, Log(t, decision)
      PROVE  \A u \in Tap : event'[u] = "ACCEPTED" => event[u] = "ACCEPTED"
  BY <1>1 DEF Log, GateTypeOK
<1>2. tap[d] \in Tap
  BY DEF GateTypeOK
<1>3. event' = event \/ \E t \in Tap, decision \in {"DUPLICATE", "REJECTED"} : Log(t, decision)
  BY <1>2
  DEF Step, Receive, SetMark, NoRedis, CheckRecent, LogDuplicate, FindSession, Reject,
      MakeSession, Claim, MarkAgain, Die
<1>4. UNCHANGED <<record, manual, accepted>>
  BY DEF Step, Receive, SetMark, NoRedis, CheckRecent, LogDuplicate, FindSession,
         MakeSession, Claim, MarkAgain, Die, historyVars
<1>5. QED
  BY <1>1, <1>3, <1>4

\* Whatever a delivery does, a session there is stays.
LEMMA SessionsStay ==
  ASSUME GateTypeOK, [Next]_webhookVars, NEW t \in Type, Exists(t)
  PROVE  Exists(t)'
<1>1. RegisterTypeOK
  BY DEF GateTypeOK
<1>2. ASSUME Staff PROVE Exists(t)'
  BY <1>1, <1>2, RegisterStepMarks, GateAssumption DEF Staff
<1>3. ASSUME NEW d \in Delivery, MakeSession(d) PROVE Exists(t)'
  BY <1>1, <1>3 DEF MakeSession, RegisterTypeOK, Exists
<1>4. ASSUME UNCHANGED session PROVE Exists(t)'
  BY <1>4 DEF Exists
<1>5. QED
  BY <1>2, <1>3, <1>4 DEF Next, Step, webhookVars, registerVars

\* What is manual was ruled, and an answered session stays.
LEMMA MarksNext == GateTypeOK /\ MarksHold /\ [Next]_webhookVars => MarksHold'
<1> SUFFICES ASSUME GateTypeOK, MarksHold, [Next]_webhookVars PROVE MarksHold'
  OBVIOUS
<1>1. manual' \subseteq ruled'
  <2>1. ASSUME NEW d \in Delivery, Step(d), UNCHANGED rest PROVE manual' \subseteq ruled'
    <3>1. manual' \subseteq manual
      BY <2>1, OnlyAcceptAccepts DEF Accept
    <3>2. QED
      BY <2>1, <3>1 DEF rest, MarksHold
  <2>2. ASSUME Staff PROVE manual' \subseteq ruled'
    BY <2>2, RegisterStepRules DEF Staff, MarksHold
  <2>3. QED
    BY <2>1, <2>2 DEF Next, rest, webhookVars, registerVars, MarksHold
<1>2. ASSUME NEW t \in accepted' PROVE Exists(t)'
  <2>1. CASE t \in accepted
    BY <2>1, SessionsStay DEF MarksHold, GateTypeOK
  <2>2. CASE t \notin accepted
    <3>1. PICK d \in Delivery : Accept(d)
      BY <1>2, <2>2, OnlyAcceptAccepts
      DEF Next, Expire, SwitchCard, historyVars, Staff, webhookVars, gateVars
    <3>2. t = place[d] /\ pc[d] = "claimed"
      BY <1>2, <2>2, <3>1 DEF Accept
    <3>3. QED
      BY <3>2, SessionsStay DEF GateTypeOK
  <2>3. QED
    BY <2>1, <2>2
<1>3. QED
  BY <1>1, <1>2 DEF MarksHold

\* A claim stays right until it is accepted or given up.
LEMMA ClaimsNext ==
  GateTypeOK /\ MarksHold /\ ClaimsHold /\ [Next]_webhookVars => ClaimsHold'
<1> SUFFICES ASSUME GateTypeOK, MarksHold, ClaimsHold, [Next]_webhookVars,
                    NEW c \in Delivery, pc'[c] = "claimed"
             PROVE  Right(c)'
  BY DEF ClaimsHold, Right
<1>1. pc[c] = "claimed" => Right(c)
  BY DEF ClaimsHold, Right
<1>2. ASSUME NEW d \in Delivery, Step(d), UNCHANGED rest, c # d PROVE Right(c)'
  <2>1. Stands(c) /\ pc[c] = "claimed"
    BY <1>2, OthersStand DEF Stands
  <2>2. ~Accept(d)
    BY <1>2, <2>1 DEF Accept, GateTypeOK
  <2>3. /\ \A t \in Tap : event'[t] = "ACCEPTED" => event[t] = "ACCEPTED"
        /\ UNCHANGED <<record, ruled>>
    BY <1>2, <2>2, OnlyAcceptAccepts DEF rest
  <2>4. QED
    BY <1>1, <2>1, <2>3 DEF Right, Recent, Stands
<1>3. ASSUME Step(c), UNCHANGED rest PROVE Right(c)'
  <2>1. ASSUME NEW step, step # "claimed", GoTo(c, step) PROVE FALSE
    BY <2>1 DEF GoTo, GateTypeOK
  <2>2. ASSUME Leave(c) PROVE FALSE
    BY <2>1, <2>2 DEF Leave
  <2>3. ASSUME NEW t \in Tap, Receive(c, t) PROVE FALSE
    <3>1. pc[c] = "idle" /\ (GoTo(c, "known") \/ pc' = pc)
      BY <2>3 DEF Receive
    <3>2. QED
      BY <2>1, <3>1
  <2>4. ASSUME SetMark(c) \/ NoRedis(c) \/ CheckRecent(c) PROVE FALSE
    BY <2>1, <2>4 DEF SetMark, NoRedis, CheckRecent
  <2>5. ASSUME FindSession(c) \/ MakeSession(c) \/ Accept(c) PROVE FALSE
    BY <2>1, <2>2, <2>5 DEF FindSession, Reject, MakeSession, Accept
  <2>6. CASE Claim(c) /\ UNCHANGED <<session, record, manual>>
    <3>1. /\ ~Recent(tap[c]) /\ UNCHANGED <<tap, place, event>>
          /\ plan' = [plan EXCEPT ![c] = Planned(place[c])]
      BY <2>1, <2>2, <2>6 DEF Claim
    <3>2. plan'[c] = Planned(place[c]) /\ UNCHANGED <<ruled, record>>
      BY <1>3, <2>6, <3>1 DEF rest, GateTypeOK
    <3>3. <<place[c], Carrier>> \in manual => <<place[c], Carrier>> \in ruled
      BY DEF MarksHold
    <3>4. QED
      BY <3>1, <3>2, <3>3 DEF Right, Recent, Planned
  <2>7. QED
    BY <1>3, <2>2, <2>3, <2>4, <2>5, <2>6 DEF Step, LogDuplicate, MarkAgain, Die
<1>4. ASSUME Staff PROVE Right(c)'
  <2>1. UNCHANGED <<event, pc, tap, place, plan>>
    BY <1>4 DEF Staff, deliveryVars
  <2>2. /\ RegisterTypeOK /\ place[c] \in Type /\ Exists(place[c]) /\ pc[c] = "claimed"
    BY <2>1 DEF GateTypeOK
  <2>3. \/ record'[place[c]][Carrier] = record[place[c]][Carrier]
        \/ record[place[c]][Carrier] = "UNMARKED"
        \/ <<place[c], Carrier>> \in ruled'
    BY <1>4, <2>2, RegisterStepMarks, GateAssumption DEF Staff
  <2>4. ruled \subseteq ruled'
    BY <1>4, RegisterStepRules DEF Staff
  <2>5. QED
    BY <1>1, <2>1, <2>2, <2>3, <2>4 DEF Right, Recent
<1>5. ASSUME UNCHANGED <<event, pc, tap, place, plan, record, ruled>> PROVE Right(c)'
  BY <1>1, <1>5 DEF Right, Recent
<1>6. QED
  BY <1>2, <1>3, <1>4, <1>5
  DEF Next, Expire, SwitchCard, deliveryVars, rest, webhookVars, registerVars, gateVars

\* A delivery whose session is finalized was overtaken.
LEMMA OvertakenNext ==
  GateTypeOK /\ OvertakenIsLate /\ [Next]_webhookVars => OvertakenIsLate'
<1> SUFFICES ASSUME GateTypeOK, OvertakenIsLate, [Next]_webhookVars PROVE OvertakenIsLate'
  OBVIOUS
<1> DEFINE Overtaken(c) ==
      \/ c \in late
      \/ /\ pc[c] = "making" => \A t \in Type : session[t].status # "FINALIZED"
         /\ pc[c] \in {"ready", "claimed"} => session[place[c]].status # "FINALIZED"
<1>0. \A c \in Delivery : Overtaken(c) /\ place[c] \in Type
  BY DEF OvertakenIsLate, GateTypeOK
<1>1. ASSUME NEW d \in Delivery, Step(d) PROVE OvertakenIsLate'
  <2>1. \A t \in Type : session'[t].status = "FINALIZED" => session[t].status = "FINALIZED"
    <3>1. \/ session' = session
          \/ session' = [session EXCEPT !["GATE_ARRIVAL"].status = "OPEN"]
      BY <1>1 DEF Step, MakeSession
    <3>2. QED
      BY <3>1 DEF GateTypeOK, RegisterTypeOK, Session, Type
  <2>2. ASSUME NEW c \in Delivery, c # d PROVE Overtaken(c)'
    <3>1. Stands(c)
      BY <1>1, <2>2, OthersStand
    <3>2. QED
      BY <1>0, <2>1, <3>1 DEF Stands
  <2>3. ASSUME pc'[d] \notin {"making", "ready", "claimed"} PROVE Overtaken(d)'
    BY <2>3
  <2>4. ASSUME NEW step, GoTo(d, step) PROVE pc'[d] = step
    BY <2>4 DEF GoTo, GateTypeOK
  <2>5. ASSUME Leave(d) PROVE Overtaken(d)'
    BY <2>3, <2>4, <2>5 DEF Leave
  <2>6. ASSUME NEW t \in Tap, Receive(d, t) PROVE Overtaken(d)'
    <3>1. pc[d] = "idle" /\ (GoTo(d, "known") \/ pc' = pc)
      BY <2>6 DEF Receive
    <3>2. QED
      BY <2>3, <2>4, <3>1
  <2>7. ASSUME SetMark(d) \/ NoRedis(d) \/ CheckRecent(d) \/ Accept(d) PROVE Overtaken(d)'
    BY <2>3, <2>4, <2>7 DEF SetMark, NoRedis, CheckRecent, Accept
  <2>8. ASSUME FindSession(d), UNCHANGED session PROVE Overtaken(d)'
    <3>1. ASSUME NEW t \in Type, ~Closed(t), GoTo(d, "ready"), place' = [place EXCEPT ![d] = t]
          PROVE  Overtaken(d)'
      <4>1. pc'[d] = "ready" /\ place'[d] = t
        BY <2>4, <3>1 DEF GateTypeOK
      <4>2. QED
        BY <2>8, <3>1, <4>1 DEF Closed
    <3>2. ASSUME GoTo(d, "making"), \A t \in Type : ~Exists(t) PROVE Overtaken(d)'
      BY <2>4, <2>8, <3>2 DEF Exists
    <3>3. QED
      BY <2>5, <2>8, <3>1, <3>2 DEF FindSession, Reject
  <2>9. ASSUME MakeSession(d) PROVE Overtaken(d)'
    <3>1. pc[d] = "making" /\ pc'[d] = "ready" /\ late' = late /\ place'[d] \in Type
      <4>1. place' \in [Delivery -> Type]
        BY <2>9 DEF MakeSession, GateTypeOK, Type
      <4>2. QED
        BY <2>4, <2>9, <4>1 DEF MakeSession, historyVars
    <3>2. QED
      BY <1>0, <2>1, <3>1
  <2>10. ASSUME Claim(d), UNCHANGED session PROVE Overtaken(d)'
    <3>1. ASSUME GoTo(d, "claimed"), UNCHANGED <<place, late>>, pc[d] = "ready"
          PROVE  Overtaken(d)'
      BY <1>0, <2>4, <2>10, <3>1
    <3>2. ASSUME GoTo(d, "duplicate") PROVE Overtaken(d)'
      BY <2>3, <2>4, <3>2
    <3>3. QED
      BY <2>5, <2>10, <3>1, <3>2 DEF Claim
  <2>11. Overtaken(d)'
    BY <1>1, <2>5, <2>6, <2>7, <2>8, <2>9, <2>10 DEF Step, LogDuplicate, MarkAgain, Die
  <2>12. QED
    BY <2>2, <2>11 DEF OvertakenIsLate
<1>2. ASSUME Staff PROVE OvertakenIsLate'
  <2>1. UNCHANGED <<pc, place>> /\ late \subseteq late'
    BY <1>2 DEF Staff, deliveryVars
  <2>2. ASSUME NEW t \in Type, session'[t].status = "FINALIZED", session[t].status # "FINALIZED"
        PROVE  \A c \in Delivery : pc[c] # "idle" => c \in late'
    BY <1>2, <2>2 DEF Staff
  <2>3. QED
    BY <1>0, <2>1, <2>2 DEF OvertakenIsLate
<1>3. ASSUME UNCHANGED <<pc, place, late, session>> PROVE OvertakenIsLate'
  BY <1>3 DEF OvertakenIsLate
<1>4. QED
  BY <1>1, <1>2, <1>3
  DEF Next, Expire, SwitchCard, deliveryVars, historyVars, webhookVars, registerVars, gateVars

-----------------------------------------------------------------------------
(* Accepted reads *)

\* A read is accepted only when all accepted ones are a cooldown older.
LEMMA AcceptedOnceNext ==
  GateTypeOK /\ ClaimsHold /\ AcceptedOnce /\ [Next]_webhookVars => AcceptedOnce'
<1> SUFFICES ASSUME GateTypeOK, ClaimsHold, AcceptedOnce, [Next]_webhookVars
             PROVE  AcceptedOnce'
  OBVIOUS
<1>1. ASSUME NEW d \in Delivery, Accept(d) PROVE AcceptedOnce'
  <2>1. ~Recent(tap[d]) /\ tap[d] \in Tap
    BY <1>1 DEF Accept, ClaimsHold, Right, GateTypeOK
  <2>2. \A u \in Tap : event[u] = "ACCEPTED" => u <= tap[d] - Cooldown
    BY <2>1, GateAssumption DEF Recent, Tap
  <2>3. \A u \in Tap : event'[u] = "ACCEPTED" => u = tap[d] \/ event[u] = "ACCEPTED"
    BY <1>1 DEF Accept, GateTypeOK
  <2>4. QED
    BY <2>1, <2>2, <2>3, GateAssumption DEF AcceptedOnce, Tap
<1>2. ASSUME \A u \in Tap : event'[u] = "ACCEPTED" => event[u] = "ACCEPTED"
      PROVE  AcceptedOnce'
  BY <1>2 DEF AcceptedOnce
<1>3. QED
  BY <1>1, <1>2, OnlyAcceptAccepts
  DEF Next, Expire, SwitchCard, Staff, webhookVars, gateVars

\* An accepted read stays on the register until staff rule otherwise.
LEMMA AcceptedIsOnRegisterNext ==
  GateTypeOK /\ ClaimsHold /\ MarksHold /\ AcceptedIsOnRegister /\ [Next]_webhookVars
  => AcceptedIsOnRegister'
<1> SUFFICES ASSUME GateTypeOK, ClaimsHold, MarksHold, AcceptedIsOnRegister,
                    [Next]_webhookVars
             PROVE  AcceptedIsOnRegister'
  OBVIOUS
<1>0. RegisterTypeOK /\ Carrier \in Student /\ accepted \subseteq Type
  BY GateAssumption DEF GateTypeOK
<1>1. ASSUME NEW d \in Delivery, Accept(d), UNCHANGED rest PROVE AcceptedIsOnRegister'
  <2>1. /\ place[d] \in Type /\ ruled' = ruled /\ accepted' = accepted \cup {place[d]}
        /\ record' = Written(d)
    BY <1>1 DEF Accept, rest, GateTypeOK
  <2>2. \A t \in Type : record'[t][Carrier] =
          IF t = place[d] /\ Writes(d) THEN "PRESENT" ELSE record[t][Carrier]
    BY <1>0, <2>1 DEF Written, RegisterTypeOK
  <2>3. \/ <<place[d], Carrier>> \in ruled
        \/ Writes(d)
        \/ record[place[d]][Carrier] \in {"PRESENT", "EXCUSED"}
    BY <1>1 DEF Accept, ClaimsHold, Right, Writes
  <2>4. QED
    BY <1>0, <2>1, <2>2, <2>3 DEF AcceptedIsOnRegister
<1>2. ASSUME Staff PROVE AcceptedIsOnRegister'
  <2>1. ruled \subseteq ruled' /\ accepted' = accepted
    BY <1>2, RegisterStepRules DEF Staff
  <2>2. \A t \in accepted : \/ record'[t][Carrier] = record[t][Carrier]
                            \/ record[t][Carrier] = "UNMARKED"
                            \/ <<t, Carrier>> \in ruled'
    BY <1>0, <1>2, RegisterStepMarks DEF Staff, MarksHold
  <2>3. QED
    BY <2>1, <2>2 DEF AcceptedIsOnRegister
<1>3. ASSUME UNCHANGED <<record, ruled, accepted>> PROVE AcceptedIsOnRegister'
  BY <1>3 DEF AcceptedIsOnRegister
<1>4. QED
  BY <1>1, <1>2, <1>3, OnlyAcceptAccepts
  DEF Next, Expire, SwitchCard, historyVars, rest, webhookVars, registerVars, gateVars

-----------------------------------------------------------------------------
(* Theorems *)

LEMMA InitInv == Init => WebhookInv
<1> SUFFICES ASSUME Init PROVE WebhookInv
  OBVIOUS
<1>1. RegisterTypeOK
  BY RegisterStartType, NoSessionTyped DEF Init, RegisterInit
<1>2. 1 \in Tap
  BY GateAssumption DEF Tap
<1>3. GateTypeOK
  BY <1>1, <1>2 DEF Init, GateTypeOK, Type, Event
<1>4. ClaimsHold /\ MarksHold /\ OvertakenIsLate /\ AcceptedOnce /\ AcceptedIsOnRegister
  BY DEF Init, RegisterInit, RegisterStart, ClaimsHold, Right, MarksHold, OvertakenIsLate,
         AcceptedOnce, AcceptedIsOnRegister
<1>5. QED
  BY <1>3, <1>4 DEF WebhookInv

LEMMA NextInv == WebhookInv /\ [Next]_webhookVars => WebhookInv'
  BY GateNextType, ClaimsNext, MarksNext, OvertakenNext, AcceptedOnceNext,
     AcceptedIsOnRegisterNext
  DEF WebhookInv

\* However deliveries overlap, with each other and with staff: the state is
\* typed and one delivery at a time holds the credential.
THEOREM GateTypeCorrect == Spec => []GateTypeOK
<1>1. WebhookInv => GateTypeOK
  BY DEF WebhookInv
<1>2. QED
  BY <1>1, InitInv, NextInv, PTL DEF Spec

\* Two reads of a card within the cooldown are never both accepted, for every
\* cooldown and with or without Redis.
THEOREM AcceptedOnceCorrect == Spec => []AcceptedOnce
<1>1. WebhookInv => AcceptedOnce
  BY DEF WebhookInv
<1>2. QED
  BY <1>1, InitInv, NextInv, PTL DEF Spec

\* A student whose read was accepted is present or excused in that session,
\* unless staff decided otherwise.
THEOREM AcceptedIsOnRegisterCorrect == Spec => []AcceptedIsOnRegister
<1>1. WebhookInv => AcceptedIsOnRegister
  BY DEF WebhookInv
<1>2. QED
  BY <1>1, InitInv, NextInv, PTL DEF Spec

\* Only a delivery that was overtaken by the finalization can write into a
\* finalized session.
THEOREM FinalizedCorrect == Spec => FinalizedUnlessOvertaken
<1>1. WebhookInv /\ [Next]_webhookVars =>
        [\A d \in Delivery :
           /\ pc[d] = "claimed" /\ pc'[d] = "accepted"
           /\ session[place[d]].status = "FINALIZED" /\ record' # record
           => d \in late]_webhookVars
  BY DEF WebhookInv, OvertakenIsLate
<1>2. QED
  BY <1>1, InitInv, NextInv, PTL DEF Spec, FinalizedUnlessOvertaken
=============================================================================
