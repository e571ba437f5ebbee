----------------------------- MODULE GatePromise -----------------------------
(***************************************************************************)
(* What the gate promises about the register of a day, whatever way its    *)
(* reads are processed: the gate adds presences and nothing else, a        *)
(* teacher's decision is final, and a read is acknowledged as accepted     *)
(* only once its student is on the register.                               *)
(***************************************************************************)
CONSTANT Place  \* the places on the register: a session and a student

VARIABLES
  mark,   \* who decided each place last
  acked   \* the places for which the gate acknowledged an accepted read

Decider == {"nobody", "gate", "staff"}

Init == mark = [p \in Place |-> "nobody"] /\ acked = {}

\* One transaction of the gate marks the students it accepted.
Arrive(P) ==
  /\ \A p \in P : mark[p] = "nobody"
  /\ mark' = [p \in Place |-> IF p \in P THEN "gate" ELSE mark[p]]
  /\ UNCHANGED acked

\* Staff decide, at any time.
Decide(P) ==
  /\ mark' = [p \in Place |-> IF p \in P THEN "staff" ELSE mark[p]]
  /\ UNCHANGED acked

Acknowledge(P) ==
  /\ \A p \in P : mark[p] # "nobody"
  /\ acked' = acked \cup P
  /\ UNCHANGED mark

Next == \E P \in SUBSET Place : Arrive(P) \/ Decide(P) \/ Acknowledge(P)

Spec == Init /\ [][Next]_<<mark, acked>>
=============================================================================
