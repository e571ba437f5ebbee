--------------------------- MODULE Calendar_proofs ---------------------------
(* Theorems about Calendar, for every year and any number of requests *)
EXTENDS Calendar, FiniteSetTheorems, TLAPS

-----------------------------------------------------------------------------
(* The inductive invariant *)

Steps == {"free", "look", "make", "number", "write", "lock", "find", "supersede",
          "promote", "done"}

\* The memberships of the type invariant.
Types ==
  /\ status \in [Version -> Status] /\ days \in [Row -> Kind \cup {"none"}]
  /\ pc \in [Request -> Steps] /\ todo \in [Request -> Seq(Entry)]
  /\ target \in [Request -> Version \cup {Nothing}]
  /\ made \in [Request -> Version \cup {Nothing}]
  /\ wrote \in [Request -> [Row -> Kind \cup {"none"}]]
  /\ found \in [Request -> SUBSET Version] /\ gone \in [Request -> SUBSET Version]
  /\ late \subseteq Request /\ crossed \subseteq Version
  /\ doubled \in BOOLEAN /\ torn \in BOOLEAN

\* The numbers before v are taken.
Follows(v) == \A w \in Version : w < v => status[w] # "NONE"

\* Where a request is tells what it holds: a new version is numbered after the
\* last, a locked one is a draft, a superseded one is the approved one.
Own(r) ==
  /\ pc[r] \notin {"promote", "done"} => gone[r] = {}
  /\ pc[r] \notin {"look", "write"} => made[r] = Nothing
  /\ pc[r] \notin {"look", "make", "number", "write"} => wrote[r] = Untouched
  /\ pc[r] \in {"make", "number", "write"} => todo[r] # << >>
  /\ pc[r] \notin {"free", "look", "make"} => target[r] \in Version
  /\ made[r] # Nothing => Follows(made[r]) /\ status[made[r]] = "NONE"
  /\ pc[r] = "number" => Follows(target[r])
  /\ \A v \in Version : Locks(r, v) => status[v] = "DRAFT"
  /\ gone[r] \subseteq Approved
  /\ pc[r] = "done" => Approved \subseteq gone[r]

\* Requests that find no draft find none till one of them has made it; whoever
\* is late has an excuse.
Alert(r) ==
  r \notin late /\ (pc[r] \in {"make", "number"} \/ made[r] # Nothing) =>
    \A v \in Version : status[v] # "DRAFT"

Apart(q, r) ==
  /\ made[q] = made[r] => made[q] = Nothing
  /\ \A row \in Row : "none" \in {wrote[q][row], wrote[r][row]}
  /\ \A v \in Version : ~(Locks(q, v) /\ Locks(r, v))
  /\ gone[q] \cap gone[r] = {} /\ ~(pc[q] = "done" /\ pc[r] = "done")

\* A version that is or will be approved has its days, and nobody edits it.
Settled(v) == status[v] \in {"APPROVED", "SUPERSEDED"} \/ \E r \in Request : Locks(r, v)

DaysHold ==
  \A v \in Version \ crossed : Settled(v) =>
    Ready(v) /\ \A r \in Request : ~Edits(r, v)

\* The versions are numbered without a gap, and one of them is approved.
VersionsHold ==
  /\ \A v \in Version : status[v] # "NONE" => Follows(v)
  /\ \A v, w \in Approved : v = w
  /\ \A v \in Version :
       status[v] \in {"APPROVED", "SUPERSEDED"} => (\E w \in Version : w \in Approved) \/ torn
  /\ DraftIsNewest

CalendarInv ==
  /\ Types
  /\ \A r \in Request : Own(r) /\ Alert(r)
  /\ \A q, r \in Request : q # r => Apart(q, r)
  /\ DaysHold
  /\ VersionsHold

-----------------------------------------------------------------------------
(* Versions and their numbers *)

\* A set of numbers up to a bound has a greatest one.
LEMMA MaxFacts ==
  ASSUME NEW N \in Nat, NEW S \in SUBSET (0 .. N), S # {}
  PROVE  Max(S) \in S /\ \A x \in S : Max(S) >= x
<1> DEFINE R == OpToRel(<, Nat)
           T == {N - x : x \in S}
<1>1. T \subseteq Nat /\ T # {}
  <2>1. \A x \in S : x \in Int /\ 0 <= x /\ x <= N
    OBVIOUS
  <2>2. \A x \in S : N - x \in Nat /\ N - x \in T
    BY <2>1
  <2>3. QED
    BY <2>2
<1>2. IsWellFoundedOn(R, Nat)
  BY NatLessThanWellFounded
<1>3. \A x, y \in Nat : x < y => <<x, y>> \in R
  BY DEF OpToRel
<1> HIDE DEF R, T
<1>4. PICK t \in T : \A y \in T : ~(<<y, t>> \in R)
  BY <1>1, <1>2, WFMin
<1>5. PICK x \in S : t = N - x
  BY DEF T
<1>6. \A y \in S : N - y \in T
  BY DEF T
<1>7. \A y \in S : x >= y
  <2>1. TAKE y \in S
  <2>2. ~(N - y < N - x)
    BY <1>1, <1>3, <1>4, <1>5, <1>6
  <2>3. QED
    BY <2>2
<1>8. QED
  BY <1>7 DEF Max

LEMMA VersionType ==
  /\ MaxVersions \in Nat /\ Version \subseteq 0 .. MaxVersions /\ Version \subseteq Nat
  /\ Nothing \notin Version /\ 0 = Nothing
  BY CalendarAssumption DEF Version, Nothing

\* The draft an edit finds is one it sees.
LEMMA EditableFacts ==
  ASSUME NEW r \in Request, Editable(r) # {}
  PROVE  Max(Editable(r)) \in Version /\ Sees(r, Max(Editable(r))) = "DRAFT"
<1>1. Editable(r) \in SUBSET (0 .. MaxVersions) /\ MaxVersions \in Nat
  BY VersionType DEF Editable
<1>2. Max(Editable(r)) \in Editable(r)
  BY <1>1, MaxFacts
<1>3. QED
  BY <1>2 DEF Editable

\* The number after the last one is a version, and those before it are taken.
LEMMA NumberFacts ==
  ASSUME CalendarInv, NEW r \in Request, pc[r] = "make",
         NEW known, known = {v \in Version : Sees(r, v) # "NONE"}, known # Version
  PROVE  /\ Max(known \cup {0}) + 1 \in Version
         /\ Follows(Max(known \cup {0}) + 1)
<1> DEFINE m == Max(known \cup {0})
<1>1. known = {v \in Version : status[v] # "NONE"}
  BY VersionType DEF CalendarInv, Own, Sees
<1>2. m \in known \cup {0} /\ \A x \in known : m >= x
  <2>1. /\ known \cup {0} \in SUBSET (0 .. MaxVersions) /\ known \cup {0} # {}
        /\ MaxVersions \in Nat
    <3>1. known \subseteq 0 .. MaxVersions /\ MaxVersions \in Nat
      BY <1>1, VersionType
    <3>2. 0 \in 0 .. MaxVersions
      BY <3>1
    <3>3. QED
      BY <3>1, <3>2
  <2>2. QED
    BY <2>1, MaxFacts
<1> HIDE DEF m
<1>3. m \in Nat /\ m <= MaxVersions /\ known \subseteq Nat
  <2>1. \A v \in known : v \in Nat /\ v <= MaxVersions
    BY <1>1, VersionType
  <2>2. MaxVersions \in Nat
    BY VersionType
  <2>3. QED
    BY <1>2, <2>1, <2>2
<1>4. \A w \in Version : w <= m => status[w] # "NONE"
  <2>1. TAKE w \in Version
  <2>2. CASE m = 0
    BY <2>2, VersionType
  <2>3. CASE m \in known
    BY <1>1, <2>3, VersionType DEF CalendarInv, VersionsHold, Follows
  <2>4. QED
    BY <1>2, <2>2, <2>3
<1>5. m # MaxVersions
  <2>1. SUFFICES ASSUME m = MaxVersions PROVE FALSE
    OBVIOUS
  <2>2. \A w \in Version : w <= m
    BY <2>1, VersionType
  <2>3. QED
    BY <1>1, <1>4, <2>2
<1>6. m + 1 \in Version
  BY <1>3, <1>5, VersionType DEF Version
<1>7. Follows(m + 1)
  BY <1>3, <1>4, VersionType DEF Follows
<1>8. QED
  BY <1>6, <1>7 DEF m

-----------------------------------------------------------------------------
(* Steps of one request that commit nothing *)


Unmoved(q) ==
  /\ pc'[q] = pc[q] /\ todo'[q] = todo[q] /\ target'[q] = target[q] /\ made'[q] = made[q]
  /\ wrote'[q] = wrote[q] /\ gone'[q] = gone[q]

\* Two requests are apart if the one that moves is.
LEMMA ApartStands ==
  ASSUME \A q, u \in Request : q # u => Apart(q, u), NEW r \in Request,
         \A q \in Request : q # r => Unmoved(q) /\ Apart(q, r)'
  PROVE  \A q, u \in Request : q # u => Apart(q, u)'
<1>1. ASSUME NEW q \in Request, NEW u \in Request, q # u, q # r, u # r PROVE Apart(q, u)'
  <2>1. Unmoved(q) /\ Unmoved(u) /\ Apart(q, u)
    BY <1>1
  <2>2. QED
    BY <2>1 DEF Apart, Unmoved, Locks
<1>2. ASSUME NEW q \in Request, q # r PROVE Apart(q, r)' /\ Apart(r, q)'
  <2>1. Apart(q, r)'
    BY <1>2
  <2>2. QED
    BY <2>1 DEF Apart
<1>3. QED
  BY <1>1, <1>2

\* A step that commits nothing leaves the invariant if the request that takes it
\* keeps its place, apart from the others.
LEMMA StepHolds ==
  ASSUME CalendarInv, NEW r \in Request, UNCHANGED <<status, days, doubled, torn>>,
         Types', \A q \in Request : q # r => Unmoved(q) /\ Apart(q, r)',
         Own(r)', Alert(r)', late \ {r} \subseteq late', crossed \subseteq crossed',
         \A v \in Version \ crossed' : Locks(r, v)' =>
           Locks(r, v) \/ (Ready(v) /\ \A q \in Request : ~Edits(q, v)'),
         \A v \in Version \ crossed' : Edits(r, v)' => Edits(r, v) \/ ~Settled(v)'
  PROVE  CalendarInv'
<1>1. \A q, u \in Request : q # u => Apart(q, u)'
  BY ApartStands DEF CalendarInv
<1>2. ASSUME NEW q \in Request PROVE Own(q)' /\ Alert(q)'
  <2>1. CASE q = r
    BY <2>1
  <2>2. CASE q # r
    <3>1. Unmoved(q) /\ Own(q) /\ Alert(q) /\ (q \in late => q \in late')
      BY <2>2 DEF CalendarInv
    <3>2. Own(q)'
      BY <3>1 DEF Own, Unmoved, Follows, Approved, Locks
    <3>3. Alert(q)'
      BY <3>1 DEF Alert, Unmoved
    <3>4. QED
      BY <3>2, <3>3
  <2>3. QED
    BY <2>1, <2>2
<1>3. DaysHold'
  <2>1. SUFFICES ASSUME NEW v \in Version, v \notin crossed', Settled(v)'
                 PROVE  Ready(v)' /\ \A q \in Request : ~Edits(q, v)'
    BY DEF DaysHold
  <2>2. Ready(v)' <=> Ready(v)
    BY DEF Ready
  <2>3. CASE Locks(r, v)' /\ ~Locks(r, v)
    BY <2>1, <2>2, <2>3
  <2>4. CASE ~Locks(r, v)' \/ Locks(r, v)
    <3>1. Settled(v)
      <4>1. \A q \in Request : q # r => (Locks(q, v)' <=> Locks(q, v))
        BY DEF Unmoved, Locks
      <4>2. \A q \in Request : Locks(q, v)' => Locks(q, v)
        BY <2>4, <4>1
      <4>3. QED
        BY <2>1, <4>2 DEF Settled
    <3>2. Ready(v) /\ \A q \in Request : ~Edits(q, v)
      BY <2>1, <3>1 DEF CalendarInv, DaysHold
    <3>3. ASSUME NEW q \in Request, q # r PROVE ~Edits(q, v)'
      <4>1. Unmoved(q) /\ ~Edits(q, v)
        BY <3>2, <3>3
      <4>2. QED
        BY <4>1 DEF Unmoved, Edits, Wrote
    <3>4. ~Edits(r, v)'
      BY <2>1, <3>2
    <3>5. QED
      BY <2>2, <3>2, <3>3, <3>4
  <2>5. QED
    BY <2>3, <2>4
<1>4. VersionsHold'
  <2>1. VersionsHold
    BY DEF CalendarInv
  <2>2. QED
    BY <2>1 DEF VersionsHold, Follows, Approved, DraftIsNewest
<1>5. QED
  BY <1>1, <1>2, <1>3, <1>4 DEF CalendarInv

\* A request that is over holds nothing.
LEMMA EndFacts ==
  ASSUME CalendarInv, NEW r \in Request, End(r)
  PROVE  /\ pc' \in [Request -> Steps] /\ todo' \in [Request -> Seq(Entry)]
         /\ target' \in [Request -> Version \cup {Nothing}]
         /\ made' \in [Request -> Version \cup {Nothing}]
         /\ wrote' \in [Request -> [Row -> Kind \cup {"none"}]]
         /\ found' \in [Request -> SUBSET Version] /\ gone' \in [Request -> SUBSET Version]
         /\ pc'[r] = "free" /\ made'[r] = Nothing /\ wrote'[r] = Untouched /\ gone'[r] = {}
         /\ \A q \in Request : q # r => Unmoved(q)
<1>1. Types
  BY DEF CalendarInv
<1>2. Untouched \in [Row -> Kind \cup {"none"}] /\ << >> \in Seq(Entry)
  BY DEF Untouched
<1>3. pc' \in [Request -> Steps] /\ todo' \in [Request -> Seq(Entry)]
  BY <1>1, <1>2 DEF Types, End, GoTo, Steps
<1>4. /\ target' \in [Request -> Version \cup {Nothing}]
      /\ made' \in [Request -> Version \cup {Nothing}]
      /\ wrote' \in [Request -> [Row -> Kind \cup {"none"}]]
      /\ found' \in [Request -> SUBSET Version] /\ gone' \in [Request -> SUBSET Version]
  BY <1>1, <1>2 DEF Types, End
<1>5. /\ pc'[r] = "free" /\ made'[r] = Nothing /\ wrote'[r] = Untouched /\ gone'[r] = {}
      /\ \A q \in Request : q # r => Unmoved(q)
  BY <1>1 DEF Types, End, GoTo, Unmoved
<1>6. QED
  BY <1>3, <1>4, <1>5

\* A request that holds nothing keeps its place, whatever was committed.
LEMMA FreeFacts ==
  ASSUME NEW r \in Request, pc'[r] = "free", made'[r] = Nothing, wrote'[r] = Untouched,
         gone'[r] = {}
  PROVE  /\ Own(r)' /\ Alert(r)' /\ \A q \in Request : Apart(q, r)'
         /\ \A v \in Version : ~Locks(r, v)' /\ ~Edits(r, v)'
<1>1. \A row \in Row : wrote'[r][row] = "none"
  BY DEF Untouched
<1>2. Own(r)' /\ Alert(r)' /\ \A q \in Request : Apart(q, r)'
  BY <1>1 DEF Own, Alert, Apart, Locks
<1>3. \A v \in Version : ~Locks(r, v)' /\ ~Edits(r, v)'
  BY <1>1 DEF Locks, Edits, Wrote, Row
<1>4. QED
  BY <1>2, <1>3

LEMMA RollbackHolds ==
  ASSUME CalendarInv, NEW r \in Request, Rollback(r)
  PROVE  crossed' = crossed => CalendarInv'
<1>1. End(r) /\ late' = late \ {r} /\ UNCHANGED <<status, days, doubled, crossed, torn>>
  BY DEF Rollback, rowVars
<1>2. Types'
  BY <1>1, EndFacts DEF Types, CalendarInv
<1>3. QED
  BY <1>1, <1>2, EndFacts, FreeFacts, StepHolds

\* What a step of r needs of it and the others, in the state it starts from.
LEMMA Before ==
  ASSUME CalendarInv, NEW r \in Request
  PROVE  /\ Types /\ Own(r) /\ Alert(r)
         /\ \A q \in Request : q # r => Apart(q, r)
         /\ \A q \in Request, v \in Version : Locks(q, v) => status[v] = "DRAFT"
  BY DEF CalendarInv, Own

LEMMA BeginHolds ==
  ASSUME CalendarInv, NEW r \in Request,
         (\E list \in Lists : Edit(r, list)) \/ (\E v \in Version : Approve(r, v))
  PROVE  CalendarInv'
<1>1. PICK step \in {"look", "lock"}, v \in Version \cup {Nothing}, list \in Seq(Entry) :
        Begin(r, step, v, list) /\ (step = "lock" => v \in Version)
  <2>1. \A list \in Lists : list \in Seq(Entry)
    <3>1. Cardinality(Day) \in Nat
      BY CalendarAssumption, FS_CardinalityType
    <3>2. QED
      BY <3>1 DEF Lists
  <2>2. << >> \in Seq(Entry)
    OBVIOUS
  <2>3. QED
    BY <2>1, <2>2 DEF Edit, Approve
<1>2. /\ pc[r] = "free" /\ pc' = [pc EXCEPT ![r] = step]
      /\ target' = [target EXCEPT ![r] = v] /\ todo' = [todo EXCEPT ![r] = list]
      /\ UNCHANGED <<status, days, made, wrote, found, gone, late, doubled, crossed, torn>>
  BY <1>1 DEF Begin, GoTo, rowVars, historyVars
<1>3. Types'
  BY <1>2, Before DEF Types, Steps
<1>4. pc'[r] = step /\ target'[r] = v
  BY <1>2, Before DEF Types
<1>5. \A q \in Request : q # r => Unmoved(q)
  BY <1>2, Before DEF Types, Unmoved
<1>6. Own(r)'
  BY <1>1, <1>2, <1>4, Before DEF Own, Locks
<1>7. Alert(r)' /\ \A x \in Version : ~Locks(r, x)'
  BY <1>2, <1>4, Before DEF Own, Alert, Locks
<1>8. \A q \in Request : q # r => Apart(q, r)'
  <2>1. TAKE q \in Request
  <2>2. HAVE q # r
  <2>3. Unmoved(q) /\ Apart(q, r) /\ pc'[r] # "done"
    BY <1>4, <1>5, <2>2, Before
  <2>4. QED
    BY <1>2, <1>7, <2>3 DEF Apart, Unmoved
<1>9. \A x \in Version : Edits(r, x)' => Edits(r, x)
  BY <1>2, <1>4 DEF Edits, Wrote
<1>10. QED
  BY <1>2, <1>3, <1>5, <1>6, <1>7, <1>8, <1>9, StepHolds

LEMMA LookHolds ==
  ASSUME CalendarInv, NEW r \in Request, Look(r)
  PROVE  CalendarInv'
<1>1. /\ pc[r] = "look" /\ todo[r] # << >>
      /\ UNCHANGED <<status, days, todo, made, wrote, found, gone, late, doubled, torn>>
  BY DEF Look, rowVars
<1>2. \/ /\ Editable(r) = {} /\ pc' = [pc EXCEPT ![r] = "make"]
         /\ target' = target /\ crossed' = crossed
      \/ \E v \in Version :
           /\ Sees(r, v) = "DRAFT" /\ pc' = [pc EXCEPT ![r] = "write"]
           /\ target' = [target EXCEPT ![r] = v]
           /\ crossed' = IF \E q \in Request : Locks(q, v) THEN crossed \cup {v} ELSE crossed
  BY EditableFacts DEF Look, GoTo
<1>3. Types' /\ crossed \subseteq crossed'
  <2>1. Types
    BY Before
  <2>2. CASE Editable(r) = {} /\ pc' = [pc EXCEPT ![r] = "make"]
             /\ target' = target /\ crossed' = crossed
    BY <1>1, <2>1, <2>2 DEF Types, Steps
  <2>3. ASSUME NEW v \in Version, pc' = [pc EXCEPT ![r] = "write"],
               target' = [target EXCEPT ![r] = v],
               crossed' = IF \E q \in Request : Locks(q, v) THEN crossed \cup {v} ELSE crossed
        PROVE  Types' /\ crossed \subseteq crossed'
    BY <1>1, <2>1, <2>3 DEF Types, Steps
  <2>4. QED
    BY <1>2, <2>2, <2>3
<1>4. /\ pc'[r] \in {"make", "write"} /\ (pc'[r] = "make" => Editable(r) = {})
      /\ pc'[r] = "write" =>
           /\ target'[r] \in Version /\ Sees(r, target'[r]) = "DRAFT"
           /\ (\E q \in Request : Locks(q, target'[r])) => target'[r] \in crossed'
  BY <1>2, Before DEF Types
<1>5. \A q \in Request : q # r => Unmoved(q)
  BY <1>1, <1>2, Before DEF Types, Unmoved
<1>6. pc'[r] = "make" => made[r] = Nothing /\ \A v \in Version : status[v] # "DRAFT"
  <2>1. SUFFICES ASSUME Editable(r) = {}
                 PROVE  made[r] = Nothing /\ \A v \in Version : status[v] # "DRAFT"
    BY <1>4
  <2>2. \A v \in Version : Sees(r, v) # "DRAFT"
    BY <2>1 DEF Editable
  <2>3. made[r] \in Version \cup {Nothing}
    BY Before DEF Types
  <2>4. QED
    BY <2>2, <2>3 DEF Sees
<1>7. Own(r)' /\ Alert(r)' /\ \A v \in Version : ~Locks(r, v)'
  BY <1>1, <1>4, <1>6, Before DEF Own, Alert, Locks, Follows, Approved
<1>8. \A q \in Request : q # r => Apart(q, r)'
  <2>1. TAKE q \in Request
  <2>2. HAVE q # r
  <2>3. Unmoved(q) /\ Apart(q, r) /\ pc'[r] # "done"
    BY <1>4, <1>5, <2>2, Before
  <2>4. QED
    BY <1>1, <1>7, <2>3 DEF Apart, Unmoved
<1>9. \A v \in Version \ crossed' : Edits(r, v)' => Edits(r, v) \/ ~Settled(v)'
  <2>1. TAKE v \in Version \ crossed'
  <2>2. HAVE Edits(r, v)'
  <2>3. CASE Wrote(r, v)'
    BY <1>1, <2>3 DEF Edits, Wrote
  <2>4. CASE pc'[r] = "write" /\ target'[r] = v
    <3>1. status[v] \in {"DRAFT", "NONE"}
      BY <1>4, <2>4, Before, VersionType DEF Sees, Own
    <3>2. \A q \in Request : ~Locks(q, v)
      BY <1>4, <2>4
    <3>3. \A q \in Request : ~Locks(q, v)'
      BY <1>5, <1>7, <3>2 DEF Locks, Unmoved
    <3>4. QED
      BY <1>1, <3>1, <3>3 DEF Settled
  <2>5. QED
    BY <2>2, <2>3, <2>4 DEF Edits
<1>10. QED
  BY <1>1, <1>3, <1>5, <1>7, <1>8, <1>9, StepHolds

LEMMA NumberHolds ==
  ASSUME CalendarInv, NEW r \in Request, Number(r)
  PROVE  CalendarInv'
<1>1. PICK v \in Version :
        /\ Follows(v) /\ target' = [target EXCEPT ![r] = v]
        /\ pc[r] = "make" /\ pc' = [pc EXCEPT ![r] = "number"]
        /\ UNCHANGED <<status, days, todo, made, wrote, found, gone, late, doubled, crossed,
                       torn>>
  <2>1. PICK known : /\ known = {v \in Version : Sees(r, v) # "NONE"} /\ known # Version
                     /\ target' = [target EXCEPT ![r] = Max(known \cup {0}) + 1]
    BY DEF Number
  <2>2. Max(known \cup {0}) + 1 \in Version /\ Follows(Max(known \cup {0}) + 1)
    BY <2>1, NumberFacts DEF Number
  <2>3. QED
    BY <2>1, <2>2 DEF Number, GoTo, rowVars, historyVars
<1>2. Types'
  BY <1>1, Before DEF Types, Steps
<1>3. pc'[r] = "number" /\ target'[r] = v
  BY <1>1, Before DEF Types
<1>4. \A q \in Request : q # r => Unmoved(q)
  BY <1>1, Before DEF Types, Unmoved
<1>5. Own(r)'
  BY <1>1, <1>3, Before DEF Own, Locks, Follows, Approved
<1>6. Alert(r)' /\ \A x \in Version : ~Locks(r, x)'
  BY <1>1, <1>3, Before DEF Alert, Locks
<1>7. \A q \in Request : q # r => Apart(q, r)'
  <2>1. TAKE q \in Request
  <2>2. HAVE q # r
  <2>3. Unmoved(q) /\ Apart(q, r) /\ pc'[r] # "done"
    BY <1>3, <1>4, <2>2, Before
  <2>4. QED
    BY <1>1, <1>6, <2>3 DEF Apart, Unmoved
<1>8. \A x \in Version : Edits(r, x)' => Edits(r, x)
  BY <1>1, <1>3 DEF Edits, Wrote
<1>9. QED
  BY <1>1, <1>2, <1>4, <1>5, <1>6, <1>7, <1>8, StepHolds

LEMMA InsertHolds ==
  ASSUME CalendarInv, NEW r \in Request, InsertDraft(r)
  PROVE  CalendarInv'
<1>1. CASE Rollback(r)
  BY <1>1, RollbackHolds DEF Rollback
<1>2. CASE ~Rollback(r)
  <2>1. /\ pc[r] = "number" /\ \A q \in Others(r) : made[q] # target[r]
        /\ status[target[r]] = "NONE" /\ made' = [made EXCEPT ![r] = target[r]]
        /\ pc' = [pc EXCEPT ![r] = "write"]
        /\ UNCHANGED <<status, days, todo, target, wrote, found, gone, late, doubled, crossed,
                       torn>>
    BY <1>2 DEF InsertDraft, GoTo, rowVars, historyVars
  <2>2. target[r] \in Version /\ Follows(target[r]) /\ todo[r] # << >>
    BY <2>1, Before DEF Own
  <2>3. Types'
    BY <2>1, <2>2, Before DEF Types, Steps
  <2>4. pc'[r] = "write" /\ made'[r] = target[r]
    BY <2>1, Before DEF Types
  <2>5. \A q \in Request : q # r => Unmoved(q)
    BY <2>1, Before DEF Types, Unmoved
  <2>6. Own(r)'
    BY <2>1, <2>2, <2>4, Before DEF Own, Locks, Follows, Approved
  <2>7. Alert(r)' /\ \A v \in Version : ~Locks(r, v)'
    BY <2>1, <2>4, Before DEF Alert, Locks
  <2>8. \A q \in Request : q # r => Apart(q, r)'
    <3>1. TAKE q \in Request
    <3>2. HAVE q # r
    <3>3. Unmoved(q) /\ Apart(q, r) /\ pc'[r] # "done" /\ made[q] # target[r]
      BY <2>1, <2>4, <2>5, <3>2, Before DEF Others
    <3>4. QED
      BY <2>1, <2>4, <2>7, <3>3 DEF Apart, Unmoved
  <2>9. \A v \in Version : Edits(r, v)' => Edits(r, v) \/ ~Settled(v)'
    <3>1. TAKE v \in Version
    <3>2. CASE target[r] = v
      <4>1. \A q \in Request : ~Locks(q, v)
        BY <2>1, <3>2, Before
      <4>2. \A q \in Request : ~Locks(q, v)'
        BY <2>5, <2>7, <4>1 DEF Locks, Unmoved
      <4>3. QED
        BY <2>1, <3>2, <4>2 DEF Settled
    <3>3. CASE target[r] # v
      BY <2>1, <3>3 DEF Edits, Wrote
    <3>4. QED
      BY <3>2, <3>3
  <2>10. QED
    BY <2>1, <2>3, <2>5, <2>6, <2>7, <2>8, <2>9, StepHolds
<1>3. QED
  BY <1>1, <1>2

LEMMA WriteHolds ==
  ASSUME CalendarInv, NEW r \in Request, WriteDay(r)
  PROVE  CalendarInv'
<1>1. pc[r] = "write" /\ todo[r] # << >> /\ target[r] \in Version /\ Types
  BY Before DEF WriteDay, Own
<1>2. Head(todo[r]) \in Entry /\ Tail(todo[r]) \in Seq(Entry)
  <2>1. todo[r] \in Seq(Entry)
    BY <1>1 DEF Types
  <2>2. QED
    BY <1>1, <2>1
<1>3. PICK row \in Row, kind \in Kind :
        /\ row[1] = target[r] /\ RowFree(r, row)
        /\ wrote' = [wrote EXCEPT ![r] = [wrote[r] EXCEPT ![row] = kind]]
        /\ todo' = [todo EXCEPT ![r] = Tail(todo[r])]
        /\ target' = [target EXCEPT ![r] = Nothing] /\ pc' = [pc EXCEPT ![r] = "look"]
        /\ UNCHANGED <<status, days, made, found, gone, late, doubled, crossed, torn>>
  <2>1. Head(todo[r])[1] \in Day /\ Head(todo[r])[2] \in Kind
    BY <1>2 DEF Entry
  <2>2. <<target[r], Head(todo[r])[1]>> \in Row
    BY <1>1, <2>1 DEF Row
  <2>3. QED
    BY <2>1, <2>2 DEF WriteDay, GoTo, rowVars, historyVars
<1>4. Types'
  <2>1. wrote[r] \in [Row -> Kind \cup {"none"}]
    BY <1>1 DEF Types
  <2>2. wrote' \in [Request -> [Row -> Kind \cup {"none"}]]
    BY <1>1, <1>3, <2>1 DEF Types
  <2>3. QED
    BY <1>1, <1>2, <1>3, <2>2 DEF Types, Steps
<1>5. /\ pc'[r] = "look" /\ wrote'[r][row] = kind
      /\ \A x \in Row : x # row => wrote'[r][x] = wrote[r][x]
  BY <1>1, <1>3 DEF Types
<1>6. \A q \in Request : q # r => Unmoved(q)
  BY <1>1, <1>3 DEF Types, Unmoved
<1>7. Own(r)'
  BY <1>1, <1>3, <1>5, Before DEF Own, Locks, Follows, Approved
<1>8. Alert(r)' /\ \A v \in Version : ~Locks(r, v)'
  BY <1>1, <1>3, <1>5, Before DEF Alert, Locks
<1>9. \A q \in Request : q # r => Apart(q, r)'
  <2>1. TAKE q \in Request
  <2>2. HAVE q # r
  <2>3. Unmoved(q) /\ Apart(q, r) /\ pc'[r] # "done" /\ wrote[q][row] = "none"
    BY <1>3, <1>5, <1>6, <2>2, Before DEF RowFree, Others
  <2>4. \A x \in Row : "none" \in {wrote'[q][x], wrote'[r][x]}
    BY <1>5, <2>3 DEF Apart, Unmoved
  <2>5. QED
    BY <1>3, <1>8, <2>3, <2>4 DEF Apart, Unmoved
<1>10. \A v \in Version : Edits(r, v)' => Edits(r, v)
  <2>1. TAKE v \in Version
  <2>2. HAVE Edits(r, v)'
  <2>3. PICK d \in Day : wrote'[r][<<v, d>>] # "none"
    BY <1>5, <2>2 DEF Edits, Wrote
  <2>4. <<v, d>> \in Row /\ <<v, d>>[1] = v
    BY DEF Row
  <2>5. CASE <<v, d>> = row
    BY <1>1, <1>3, <2>4, <2>5 DEF Edits
  <2>6. CASE <<v, d>> # row
    BY <1>5, <2>3, <2>4, <2>6 DEF Edits, Wrote
  <2>7. QED
    BY <2>5, <2>6
<1>11. QED
  BY <1>3, <1>4, <1>6, <1>7, <1>8, <1>9, <1>10, StepHolds

\* The version an approval locks has its days and nobody edits it, or it counts
\* as edited.
LEMMA LockHolds ==
  ASSUME CalendarInv, NEW r \in Request, LockAndCount(r)
  PROVE  CalendarInv'
<1>1. CASE Rollback(r)
  BY <1>1, RollbackHolds DEF Rollback
<1>2. CASE ~Rollback(r)
  <2>0. PICK v \in Version : v = target[r]
    BY Before DEF LockAndCount, Own
  <2>1. /\ pc[r] = "lock" /\ \A q \in Others(r) : ~Locks(q, v)
        /\ status[v] = "DRAFT" /\ Ready(v) /\ pc' = [pc EXCEPT ![r] = "find"]
        /\ crossed' = IF \E q \in Others(r) : Edits(q, v) THEN crossed \cup {v} ELSE crossed
        /\ UNCHANGED <<status, days, todo, target, made, wrote, found, gone, late, doubled,
                       torn>>
    BY <1>2, <2>0 DEF LockAndCount, GoTo, rowVars
  <2>2. Types' /\ crossed \subseteq crossed'
    BY <2>1, Before DEF Types, Steps
  <2>3. pc'[r] = "find" /\ \A q \in Request : q # r => Unmoved(q)
    BY <2>1, Before DEF Types, Unmoved
  <2>4. made[r] = Nothing /\ wrote[r] = Untouched
    BY <2>1, Before DEF Own
  <2>5. \A x \in Version : Locks(r, x)' <=> x = v
    BY <2>0, <2>1, <2>3 DEF Locks
  <2>6. Own(r)' /\ Alert(r)'
    BY <2>0, <2>1, <2>3, <2>5, Before DEF Own, Alert, Follows, Approved
  <2>7. \A q \in Request : q # r => Apart(q, r)'
    <3>1. TAKE q \in Request
    <3>2. HAVE q # r
    <3>3. Unmoved(q) /\ Apart(q, r) /\ pc'[r] # "done" /\ ~Locks(q, v)
      BY <2>1, <2>3, <3>2, Before DEF Others
    <3>4. \A x \in Version : ~(Locks(q, x)' /\ Locks(r, x)')
      BY <2>5, <3>3 DEF Locks, Unmoved
    <3>5. QED
      BY <2>1, <3>3, <3>4 DEF Apart, Unmoved
  <2>8. \A x \in Version : ~Edits(r, x)'
    BY <2>1, <2>3, <2>4 DEF Edits, Wrote, Untouched, Row
  <2>9. v \notin crossed' => \A q \in Request : ~Edits(q, v)'
    <3>1. v \notin crossed' => \A q \in Request : q # r => ~Edits(q, v)
      BY <2>1 DEF Others
    <3>2. \A q \in Request : q # r /\ ~Edits(q, v) => ~Edits(q, v)'
      BY <2>3 DEF Unmoved, Edits, Wrote
    <3>3. QED
      BY <2>8, <3>1, <3>2
  <2>10. QED
    BY <2>1, <2>2, <2>3, <2>5, <2>6, <2>7, <2>8, <2>9, StepHolds
<1>3. QED
  BY <1>1, <1>2

\* The approved version is superseded by one approval; the index lets the new
\* one in when no other is left.
LEMMA ApproveHolds ==
  ASSUME CalendarInv, NEW r \in Request, Find(r) \/ Supersede(r) \/ Promote(r)
  PROVE  CalendarInv'
<1>1. CASE Rollback(r)
  BY <1>1, RollbackHolds DEF Rollback
<1>2. CASE ~Rollback(r)
  <2>1. PICK step \in {"supersede", "promote", "done"} :
          /\ pc' = [pc EXCEPT ![r] = step] /\ pc[r] \in {"find", "supersede", "promote"}
          /\ found' = found \/ found' = [found EXCEPT ![r] = Approved]
          /\ gone' = gone \/ gone' = [gone EXCEPT ![r] = found[r] \cap Approved]
          /\ UNCHANGED <<status, days, todo, target, made, wrote, late, doubled, crossed,
                         torn>>
    BY <1>2 DEF Find, Supersede, Promote, GoTo, rowVars, historyVars
  <2>2. Types'
    <3>1. Types
      BY Before
    <3>2. pc' \in [Request -> Steps]
      BY <2>1, <3>1 DEF Types, Steps
    <3>3. Approved \in SUBSET Version /\ found[r] \cap Approved \in SUBSET Version
      BY DEF Approved
    <3>4. found' \in [Request -> SUBSET Version]
      BY <2>1, <3>1, <3>3 DEF Types
    <3>5. gone' \in [Request -> SUBSET Version]
      BY <2>1, <3>1, <3>3 DEF Types
    <3>6. QED
      BY <2>1, <3>1, <3>2, <3>4, <3>5 DEF Types
  <2>3. pc'[r] = step /\ \A q \in Request : q # r => Unmoved(q)
    BY <2>1, Before DEF Types, Unmoved
  <2>4. \A x \in Version : Locks(r, x)' <=> Locks(r, x)
    BY <2>1, <2>3 DEF Locks
  <2>5. /\ gone'[r] \subseteq Approved /\ (step = "supersede" => gone'[r] = {})
        /\ step = "done" => Approved \subseteq gone'[r]
        /\ \A q \in Request : q # r => gone[q] \cap gone'[r] = {}
        /\ step = "done" => \A q \in Request : q # r => pc[q] # "done"
    <3>1. CASE Find(r)
      <4>1. pc[r] = "find" /\ gone' = gone /\ step = "supersede"
        BY <2>3, <3>1, Before DEF Find, GoTo, Types
      <4>2. gone'[r] = {}
        BY <4>1, Before DEF Own
      <4>3. QED
        BY <4>1, <4>2
    <3>2. CASE Supersede(r)
      <4>1. gone'[r] = found[r] \cap Approved /\ step = "promote"
        BY <2>3, <3>2, Before DEF Supersede, Types, GoTo
      <4>2. \A q \in Request : q # r => gone[q] \cap found[r] = {}
        BY <3>2 DEF Supersede, Others
      <4>3. QED
        BY <4>1, <4>2
    <3>3. CASE Promote(r)
      <4>1. gone' = gone /\ Alone(r) /\ \A q \in Others(r) : pc[q] # "done" /\ gone[q] = {}
        BY <1>2, <3>3 DEF Promote
      <4>2. step = "done"
        BY <1>2, <2>3, <3>3, Before DEF Promote, Types, GoTo
      <4>3. QED
        BY <4>1, <4>2, Before DEF Alone, Others, Own
    <3>4. QED
      BY <3>1, <3>2, <3>3
  <2>6. Own(r)'
    BY <2>1, <2>3, <2>4, <2>5, Before DEF Own, Follows, Approved
  <2>7. Alert(r)'
    BY <2>1, <2>3, Before DEF Own, Alert
  <2>8. \A q \in Request : q # r => Apart(q, r)'
    <3>1. TAKE q \in Request
    <3>2. HAVE q # r
    <3>3. Unmoved(q) /\ Apart(q, r)
      BY <2>3, <3>2, Before
    <3>4. \A x \in Version : ~(Locks(q, x)' /\ Locks(r, x)')
      BY <2>4, <3>3 DEF Locks, Unmoved, Apart
    <3>5. QED
      BY <2>1, <2>3, <2>5, <3>2, <3>3, <3>4 DEF Apart, Unmoved
  <2>9. \A x \in Version : Edits(r, x)' => Edits(r, x)
    BY <2>1, <2>3 DEF Edits, Wrote
  <2>10. QED
    BY <2>1, <2>2, <2>3, <2>4, <2>6, <2>7, <2>8, <2>9, StepHolds
<1>3. QED
  BY <1>1, <1>2

-----------------------------------------------------------------------------
(* Steps that commit *)

\* What a commit does to a version: a new draft, the approved one superseded, a
\* draft approved, or nothing.
Fate(r, v) ==
  \/ v = made[r] /\ status[v] = "NONE" /\ status'[v] = "DRAFT"
  \/ v \in gone[r] /\ status[v] = "APPROVED" /\ status'[v] = "SUPERSEDED"
  \/ /\ pc[r] = "done" /\ v = target[r] /\ Locks(r, v)
     /\ status[v] = "DRAFT" /\ status'[v] = "APPROVED"
  \/ /\ v # made[r] /\ v \notin gone[r] /\ ~(pc[r] = "done" /\ v = target[r])
     /\ status'[v] = status[v]

LEMMA PersistFacts ==
  ASSUME CalendarInv, NEW r \in Request, Persist(r), crossed' = crossed, torn' \in BOOLEAN
  PROVE  /\ Types' /\ \A q \in Request : q # r => Unmoved(q)
         /\ \A v \in Version : Fate(r, v)
         /\ doubled' = (doubled \/ (made[r] # Nothing /\ r \in late))
         /\ \A q \in Request : q # r =>
              /\ q \in late => q \in late'
              /\ made[r] # Nothing /\ pc[q] \in {"make", "number"} => q \in late'
         /\ Own(r)' /\ Alert(r)' /\ \A q \in Request : Apart(q, r)'
         /\ \A v \in Version : ~Locks(r, v)' /\ ~Edits(r, v)'
<1>1. /\ status' = [v \in Version |->
           IF v = made[r] THEN "DRAFT"
           ELSE IF v \in gone[r] THEN "SUPERSEDED"
           ELSE IF pc[r] = "done" /\ v = target[r] THEN "APPROVED" ELSE status[v]]
      /\ days' = [row \in Row |-> IF wrote[r][row] # "none" THEN wrote[r][row] ELSE days[row]]
      /\ doubled' = (doubled \/ (made[r] # Nothing /\ r \in late))
      /\ late' = (IF made[r] = Nothing THEN late
                  ELSE late \cup {q \in Request : pc[q] \in {"make", "number"}}) \ {r}
      /\ End(r)
  BY DEF Persist
<1>2. status' \in [Version -> Status]
  BY <1>1, Before DEF Types, Status
<1>3. days' \in [Row -> Kind \cup {"none"}]
  BY <1>1, Before DEF Types
<1>4. late' \subseteq Request /\ doubled' \in BOOLEAN
  BY <1>1, Before DEF Types
<1>5. Types'
  BY <1>2, <1>3, <1>4, <1>1, EndFacts, Before DEF Types
<1>6. ASSUME NEW v \in Version PROVE Fate(r, v)
  <2>1. status'[v] = IF v = made[r] THEN "DRAFT"
                     ELSE IF v \in gone[r] THEN "SUPERSEDED"
                     ELSE IF pc[r] = "done" /\ v = target[r] THEN "APPROVED" ELSE status[v]
    BY <1>1
  <2>2. v = made[r] => status[v] = "NONE"
    BY Before, VersionType DEF Own
  <2>3. v \in gone[r] => status[v] = "APPROVED"
    BY Before DEF Own, Approved
  <2>4. pc[r] = "done" /\ v = target[r] => Locks(r, v) /\ status[v] = "DRAFT"
    BY Before DEF Own, Locks
  <2>5. QED
    BY <2>1, <2>2, <2>3, <2>4 DEF Fate
<1>7. \A q \in Request : q # r =>
        /\ q \in late => q \in late'
        /\ made[r] # Nothing /\ pc[q] \in {"make", "number"} => q \in late'
  BY <1>1
<1>8. QED
  BY <1>1, <1>5, <1>6, <1>7, EndFacts, FreeFacts

\* The new version is numbered after all there are, and there is one.
LEMMA MadeIsNewest ==
  ASSUME CalendarInv, NEW r \in Request, made[r] # Nothing
  PROVE  /\ made[r] \in Version
         /\ \A v \in Version : status[v] # "NONE" => v < made[r]
         /\ \A q \in Request : q # r => made[q] = Nothing
<1>1. made[r] \in Version /\ status[made[r]] = "NONE" /\ Follows(made[r])
  BY Before DEF Own, Types
<1>2. \A v \in Version : status[v] # "NONE" => v < made[r]
  <2>1. TAKE v \in Version
  <2>2. HAVE status[v] # "NONE"
  <2>3. Follows(v)
    BY <2>2 DEF CalendarInv, VersionsHold
  <2>4. v # made[r] /\ ~(made[r] < v)
    BY <1>1, <2>2, <2>3 DEF Follows
  <2>5. v \in Nat /\ made[r] \in Nat
    BY <1>1, VersionType
  <2>6. QED
    BY <2>4, <2>5
<1>3. ASSUME NEW q \in Request, q # r, made[q] # Nothing PROVE FALSE
  <2>1. made[q] \in Version /\ status[made[q]] = "NONE" /\ Follows(made[q])
    BY <1>3, Before DEF Own, Types
  <2>2. made[q] # made[r]
    BY <1>3 DEF CalendarInv, Apart
  <2>3. made[q] \in Nat /\ made[r] \in Nat
    BY <1>1, <2>1, VersionType
  <2>4. QED
    BY <1>1, <2>1, <2>2, <2>3 DEF Follows
<1>4. QED
  BY <1>1, <1>2, <1>3

LEMMA PersistHolds ==
  ASSUME CalendarInv, NEW r \in Request, Persist(r), crossed' = crossed, torn' \in BOOLEAN,
         torn => torn', gone[r] # {} => pc[r] = "done" \/ torn'
  PROVE  CalendarInv'
<1>1. /\ Types' /\ \A q \in Request : q # r => Unmoved(q)
      /\ \A v \in Version : Fate(r, v)
      /\ doubled' = (doubled \/ (made[r] # Nothing /\ r \in late))
      /\ Own(r)' /\ Alert(r)' /\ \A q \in Request : Apart(q, r)'
      /\ \A v \in Version : ~Locks(r, v)' /\ ~Edits(r, v)'
  BY PersistFacts
<1>2. \A v \in Version : status[v] # "NONE" => status'[v] # "NONE"
  BY <1>1 DEF Fate
<1>3. \A v \in Version : Follows(v) => Follows(v)'
  BY <1>2 DEF Follows
<1>4. ASSUME NEW q \in Request, q # r PROVE Own(q)' /\ Alert(q)'
  <2>1. Unmoved(q) /\ Own(q) /\ Alert(q) /\ Apart(q, r)
    BY <1>1, <1>4, Before
  <2>2. made[q] # Nothing => made[q] \in Version /\ status'[made[q]] = "NONE"
    <3>1. made[q] # Nothing =>
            made[q] \in Version /\ status[made[q]] = "NONE" /\ made[q] # made[r]
      BY <2>1, Before DEF Own, Apart, Types
    <3>2. QED
      BY <1>1, <3>1 DEF Fate
  <2>3. \A v \in Version : Locks(q, v) => status'[v] = "DRAFT"
    <3>1. \A v \in Version : Locks(q, v) => status[v] = "DRAFT" /\ ~Locks(r, v)
      BY <1>4, Before
      DEF Apart
    <3>2. QED
      BY <1>1, <3>1 DEF Fate
  <2>4. gone[q] \subseteq Approved'
    <3>1. \A v \in gone[q] : v \in Version /\ status[v] = "APPROVED" /\ v \notin gone[r]
      BY <2>1 DEF Own, Apart, Approved
    <3>2. \A v \in gone[q] : status'[v] = "APPROVED"
      BY <1>1, <3>1 DEF Fate
    <3>3. QED
      BY <3>1, <3>2 DEF Approved
  <2>5. pc[q] = "done" => Approved' \subseteq gone[q]
    <3>1. SUFFICES ASSUME pc[q] = "done", NEW v \in Version, status'[v] = "APPROVED"
                   PROVE  v \in gone[q]
      BY DEF Approved
    <3>2. pc[r] # "done"
      BY <2>1, <3>1 DEF Apart
    <3>3. status[v] = "APPROVED"
      BY <1>1, <3>1, <3>2 DEF Fate
    <3>4. QED
      BY <2>1, <3>1, <3>3 DEF Own, Approved
  <2>6. pc[q] = "number" => Follows(target[q])'
    BY <1>3, <2>1 DEF Own, Follows, Unmoved
  <2>7. made[q] # Nothing => Follows(made[q])'
    BY <1>3, <2>1, <2>2 DEF Own, Follows, Unmoved
  <2>8. Own(q)'
    <3>1. \A v \in Version : Locks(q, v)' <=> Locks(q, v)
      BY <2>1 DEF Locks, Unmoved
    <3>2. QED
      BY <2>1, <2>2, <2>3, <2>4, <2>5, <2>6, <2>7, <3>1 DEF Own, Unmoved
  <2>9. Alert(q)'
    <3>1. SUFFICES ASSUME q \notin late', pc[q] \in {"make", "number"} \/ made[q] # Nothing,
                          NEW v \in Version, status'[v] = "DRAFT"
                   PROVE  FALSE
      BY <2>1 DEF Alert, Unmoved
    <3>2. q \notin late /\ (made[r] # Nothing => pc[q] \notin {"make", "number"})
      BY <1>4, <3>1, PersistFacts
    <3>3. made[r] # Nothing => made[q] = Nothing
      BY <1>4, MadeIsNewest
    <3>4. made[r] = Nothing
      BY <3>1, <3>2, <3>3
    <3>5. status[v] = "DRAFT"
      BY <1>1, <3>1, <3>4, VersionType DEF Fate
    <3>6. QED
      BY <2>1, <3>1, <3>2, <3>5 DEF Alert
  <2>10. QED
    BY <2>8, <2>9
<1>5. \A q, u \in Request : q # u => Apart(q, u)'
  BY <1>1, ApartStands DEF CalendarInv
<1>6. DaysHold'
  <2>1. SUFFICES ASSUME NEW v \in Version, v \notin crossed, Settled(v)'
                 PROVE  Ready(v)' /\ \A q \in Request : ~Edits(q, v)'
    BY DEF DaysHold
  <2>2. Settled(v)
    <3>1. CASE status'[v] \in {"APPROVED", "SUPERSEDED"}
      BY <1>1, <3>1 DEF Fate, Settled
    <3>2. ASSUME NEW q \in Request, Locks(q, v)' PROVE Settled(v)
      <4>1. q # r
        BY <1>1, <3>2
      <4>2. Locks(q, v)
        BY <1>1, <3>2, <4>1 DEF Locks, Unmoved
      <4>3. QED
        BY <4>2 DEF Settled
    <3>3. QED
      BY <2>1, <3>1, <3>2 DEF Settled
  <2>3. Ready(v) /\ \A q \in Request : ~Edits(q, v)
    BY <2>1, <2>2 DEF CalendarInv, DaysHold
  <2>4. \A d \in Day : days'[<<v, d>>] = days[<<v, d>>]
    <3>1. TAKE d \in Day
    <3>2. <<v, d>> \in Row /\ wrote[r][<<v, d>>] = "none"
      BY <2>3 DEF Edits, Wrote, Row
    <3>3. QED
      BY <3>2 DEF Persist
  <2>5. Ready(v)'
    BY <2>3, <2>4 DEF Ready
  <2>6. ASSUME NEW q \in Request, q # r PROVE ~Edits(q, v)'
    <3>1. Unmoved(q) /\ ~Edits(q, v)
      BY <1>1, <2>3, <2>6
    <3>2. QED
      BY <3>1 DEF Edits, Wrote, Unmoved
  <2>7. QED
    BY <1>1, <2>5, <2>6
<1>7. VersionsHold'
  <2>0. VersionsHold
    BY DEF CalendarInv
  <2>1. \A v \in Version : status'[v] # "NONE" => Follows(v)'
    <3>1. TAKE v \in Version
    <3>2. made[r] # Nothing => Follows(made[r])
      BY Before DEF Own
    <3>3. status'[v] # "NONE" => Follows(v)
      BY <1>1, <2>0, <3>2, VersionType DEF Fate, VersionsHold
    <3>4. QED
      BY <1>3, <3>3
  <2>2. pc[r] = "done" => Approved \subseteq gone[r]
    BY Before DEF Own
  <2>3. \A v, w \in Approved' : v = w
    <3>1. \A v \in Approved' : v \in Version /\ status'[v] = "APPROVED"
      BY DEF Approved
    <3>2. CASE pc[r] = "done"
      <4>1. \A v \in Approved' : v = target[r]
        BY <1>1, <2>2, <3>1, <3>2 DEF Fate, Approved
      <4>2. QED
        BY <4>1
    <3>3. CASE pc[r] # "done"
      <4>1. \A v \in Approved' : v \in Approved
        BY <1>1, <3>1, <3>3 DEF Fate, Approved
      <4>2. QED
        BY <2>0, <4>1 DEF VersionsHold
    <3>4. QED
      BY <3>2, <3>3
  <2>4. \A v \in Version : status'[v] \in {"APPROVED", "SUPERSEDED"} =>
          (\E w \in Version : w \in Approved') \/ torn'
    <3>1. TAKE v \in Version
    <3>2. HAVE status'[v] \in {"APPROVED", "SUPERSEDED"}
    <3>3. CASE pc[r] = "done"
      <4>1. PICK w \in Version : w = target[r]
        BY <3>3, Before DEF Own
      <4>2. status[w] = "DRAFT"
        BY <3>3, <4>1, Before DEF Locks
      <4>3. status'[w] = "APPROVED"
        BY <1>1, <3>3, <4>1, <4>2 DEF Fate
      <4>4. QED
        BY <4>3 DEF Approved
    <3>4. CASE pc[r] # "done" /\ gone[r] = {}
      <4>1. status[v] \in {"APPROVED", "SUPERSEDED"}
        BY <1>1, <3>2, <3>4 DEF Fate
      <4>2. (\E w \in Version : status[w] = "APPROVED") \/ torn
        BY <2>0, <4>1 DEF VersionsHold, Approved
      <4>3. \A w \in Version : status[w] = "APPROVED" => status'[w] = "APPROVED"
        BY <1>1, <3>4 DEF Fate
      <4>4. QED
        BY <4>2, <4>3 DEF Approved
    <3>5. QED
      BY <3>3, <3>4
  <2>5. DraftIsNewest'
    <3>1. SUFFICES ASSUME NEW v \in Version, NEW w \in Version, status'[v] = "DRAFT",
                          status'[w] # "NONE", w # v
                   PROVE  w < v \/ doubled'
      BY DEF DraftIsNewest
    <3>2. CASE v = made[r]
      <4>1. status[w] # "NONE"
        BY <1>1, <3>1, <3>2 DEF Fate
      <4>2. QED
        BY <3>2, <4>1, MadeIsNewest, VersionType
    <3>3. CASE v # made[r]
      <4>1. status[v] = "DRAFT"
        BY <1>1, <3>1, <3>3 DEF Fate
      <4>2. CASE w = made[r]
        <5>1. made[r] # Nothing
          BY <4>2, VersionType
        <5>2. r \in late
          BY <4>1, <5>1, Before DEF Alert
        <5>3. QED
          BY <1>1, <5>1, <5>2
      <4>3. CASE w # made[r]
        <5>1. status[w] # "NONE"
          BY <1>1, <3>1, <4>3 DEF Fate
        <5>2. w < v \/ doubled
          BY <2>0, <3>1, <4>1, <5>1 DEF VersionsHold, DraftIsNewest
        <5>3. QED
          BY <1>1, <5>2
      <4>4. QED
        BY <4>2, <4>3
    <3>4. QED
      BY <3>2, <3>3
  <2>6. QED
    BY <2>1, <2>3, <2>4, <2>5 DEF VersionsHold
<1>8. QED
  BY <1>1, <1>4, <1>5, <1>6, <1>7 DEF CalendarInv

-----------------------------------------------------------------------------
(* The invariant *)

LEMMA CalendarInit == Init => CalendarInv
<1> SUFFICES ASSUME Init PROVE CalendarInv
  OBVIOUS
<1>1. PICK first \in {"NONE", "DRAFT", "APPROVED"}, kinds \in [Day -> Kind \cup {"none"}] :
        /\ first = "NONE" <=> \A d \in Day : kinds[d] = "none"
        /\ first = "APPROVED" => \A d \in Day : kinds[d] # "approximate"
        /\ status = [v \in Version |-> IF v = 1 THEN first ELSE "NONE"]
        /\ days = [row \in Row |-> IF row[1] = 1 THEN kinds[row[2]] ELSE "none"]
  BY DEF Init
<1>2. Untouched \in [Row -> Kind \cup {"none"}] /\ << >> \in Seq(Entry)
  BY DEF Untouched
<1>3. Types
  <2>1. status \in [Version -> Status]
    BY <1>1 DEF Status
  <2>2. days \in [Row -> Kind \cup {"none"}]
    BY <1>1 DEF Row
  <2>3. QED
    BY <1>2, <2>1, <2>2 DEF Init, Types, Steps
<1>4. \A r \in Request : pc[r] = "free" /\ made[r] = Nothing /\ wrote[r] = Untouched
                         /\ gone[r] = {}
  BY DEF Init
<1>5. ASSUME NEW r \in Request
      PROVE  /\ Own(r) /\ Alert(r) /\ \A q \in Request : Apart(q, r)
             /\ \A v \in Version : ~Locks(r, v) /\ ~Edits(r, v)
  <2>1. \A row \in Row : wrote[r][row] = "none"
    BY <1>4 DEF Untouched
  <2>2. Own(r) /\ Alert(r) /\ \A q \in Request : Apart(q, r)
    BY <1>4, <2>1 DEF Own, Alert, Apart, Locks
  <2>3. \A v \in Version : ~Locks(r, v) /\ ~Edits(r, v)
    BY <1>4, <2>1 DEF Locks, Edits, Wrote, Row
  <2>4. QED
    BY <2>2, <2>3
<1>6. \A v \in Version : status[v] # "NONE" => v = 1 /\ status[v] = first
  BY <1>1
<1>7. DaysHold
  <2>1. SUFFICES ASSUME NEW v \in Version, Settled(v) PROVE Ready(v)
    BY <1>5 DEF DaysHold
  <2>2. v = 1 /\ first = "APPROVED"
    BY <1>5, <1>6, <2>1 DEF Settled
  <2>3. \A d \in Day : days[<<v, d>>] = kinds[d]
    BY <1>1, <2>2 DEF Row
  <2>4. QED
    BY <1>1, <2>2, <2>3 DEF Ready
<1>8. VersionsHold
  <2>1. \A v \in Version : status[v] # "NONE" => Follows(v)
    BY <1>6, VersionType DEF Follows, Version
  <2>2. \A v, w \in Approved : v = w
    BY <1>6 DEF Approved
  <2>3. \A v \in Version : status[v] \in {"APPROVED", "SUPERSEDED"} => v \in Approved
    BY <1>6 DEF Approved
  <2>4. DraftIsNewest
    BY <1>6 DEF DraftIsNewest
  <2>5. QED
    BY <2>1, <2>2, <2>3, <2>4 DEF VersionsHold
<1>9. QED
  BY <1>3, <1>5, <1>7, <1>8 DEF CalendarInv

LEMMA CalendarNext == CalendarInv /\ [Next]_vars => CalendarInv'
<1> SUFFICES ASSUME CalendarInv, [Next]_vars PROVE CalendarInv'
  OBVIOUS
<1>1. ASSUME UNCHANGED vars PROVE CalendarInv'
  <2>1. UNCHANGED <<status, days, pc, todo, target, made, wrote, found, gone, late, doubled,
                    crossed, torn>>
    BY <1>1 DEF vars, rowVars, requestVars, historyVars
  <2>2. Types' /\ DaysHold' /\ VersionsHold'
    <3>1. Types /\ DaysHold /\ VersionsHold
      BY DEF CalendarInv
    <3>2. Types'
      BY <2>1, <3>1 DEF Types
    <3>3. DaysHold'
      <4>1. SUFFICES ASSUME NEW v \in Version \ crossed, Settled(v)'
                     PROVE  Ready(v)' /\ \A r \in Request : ~Edits(r, v)'
        BY <2>1 DEF DaysHold
      <4>2. Settled(v)
        BY <2>1, <4>1 DEF Settled, Locks
      <4>3. Ready(v) /\ \A r \in Request : ~Edits(r, v)
        BY <3>1, <4>2 DEF DaysHold
      <4>4. Ready(v)'
        BY <2>1, <4>3 DEF Ready
      <4>5. ASSUME NEW r \in Request PROVE ~Edits(r, v)'
        BY <2>1, <4>3 DEF Edits, Wrote
      <4>6. QED
        BY <4>4, <4>5
    <3>4. VersionsHold'
      BY <2>1, <3>1 DEF VersionsHold, Follows, Approved, DraftIsNewest
    <3>5. QED
      BY <3>2, <3>3, <3>4
  <2>3. \A r \in Request : Own(r)' /\ Alert(r)'
    BY <2>1 DEF CalendarInv, Own, Alert, Follows, Locks, Approved
  <2>4. \A q, r \in Request : q # r => Apart(q, r)'
    BY <2>1 DEF CalendarInv, Apart, Locks
  <2>5. QED
    BY <2>2, <2>3, <2>4 DEF CalendarInv
<1>2. ASSUME NEW r \in Request, Commit(r) PROVE CalendarInv'
  <2>1. Persist(r) /\ crossed' = crossed /\ torn' = torn
    BY <1>2 DEF Commit
  <2>2. gone[r] # {} => pc[r] = "done"
    BY <1>2, Before DEF Commit, Own
  <2>3. torn' \in BOOLEAN
    BY <2>1, Before DEF Types
  <2>4. QED
    BY <2>1, <2>2, <2>3, PersistHolds
<1>3. ASSUME NEW r \in Request, Cut(r) PROVE CalendarInv'
  <2>1. Persist(r) /\ crossed' = crossed /\ torn' = (torn \/ gone[r] # {})
    BY <1>3 DEF Cut
  <2>2. torn' \in BOOLEAN /\ (torn => torn') /\ (gone[r] # {} => torn')
    BY <2>1
  <2>3. QED
    BY <2>1, <2>2, PersistHolds
<1>4. ASSUME NEW r \in Request, Lost(r) PROVE CalendarInv'
  BY <1>4, RollbackHolds DEF Lost, Rollback
<1>5. QED
  BY <1>1, <1>2, <1>3, <1>4, BeginHolds, LookHolds, NumberHolds, InsertHolds, WriteHolds,
     LockHolds, ApproveHolds
  DEF Next, Serve

LEMMA CalendarInvariant == Spec => []CalendarInv
<1>1. QED
  BY CalendarInit, CalendarNext, PTL DEF Spec

-----------------------------------------------------------------------------
(* The theorems *)

LEMMA TypeFollows == CalendarInv => TypeOK
<1> SUFFICES ASSUME CalendarInv PROVE TypeOK
  OBVIOUS
<1>1. ASSUME NEW r \in Request PROVE gone[r] \subseteq Approved /\ Cardinality(gone[r]) <= 1
  <2>1. gone[r] \subseteq Approved /\ \A v, w \in gone[r] : v = w
    BY DEF CalendarInv, Own, VersionsHold
  <2>2. CASE gone[r] = {}
    BY <2>1, <2>2, FS_EmptySet
  <2>3. CASE gone[r] # {}
    <3>1. PICK v : gone[r] = {v}
      BY <2>1, <2>3
    <3>2. Cardinality({v}) = 1
      BY FS_Singleton
    <3>3. QED
      BY <2>1, <3>1, <3>2
  <2>4. QED
    BY <2>2, <2>3
<1>2. \A r \in Request : made[r] # Nothing => status[made[r]] = "NONE"
  BY DEF CalendarInv, Own
<1>3. QED
  BY <1>1, <1>2 DEF CalendarInv, Types, Steps, Apart, TypeOK

\* The values of the state are of their types, and one transaction at a time
\* holds a version number, a day, a version and the place of the approved one.
THEOREM TypeCorrect == Spec => []TypeOK
<1>1. QED
  BY CalendarInvariant, TypeFollows, PTL

\* A calendar that was approved has its days, none of them approximate, unless
\* an edit overlapped with the approval.
THEOREM ApprovedIsConfirmedCorrect == Spec => []ApprovedIsConfirmed
<1>1. ASSUME CalendarInv PROVE ApprovedIsConfirmed
  <2>1. SUFFICES ASSUME NEW v \in Version \ crossed, status[v] \in {"APPROVED", "SUPERSEDED"}
                 PROVE  {days[<<v, d>>] : d \in Day} \in {{"exact"}, {"exact", "none"}}
    BY DEF ApprovedIsConfirmed
  <2>2. Ready(v)
    BY <1>1, <2>1 DEF CalendarInv, DaysHold, Settled
  <2>3. \A d \in Day : days[<<v, d>>] \in {"exact", "none"}
    <3>1. \A d \in Day : <<v, d>> \in Row
      BY DEF Row
    <3>2. \A d \in Day : days[<<v, d>>] \in Kind \cup {"none"}
      BY <1>1, <3>1 DEF CalendarInv, Types
    <3>3. QED
      BY <2>2, <3>2 DEF Ready, Kind
  <2>4. \E d \in Day : days[<<v, d>>] = "exact"
    BY <2>2, <2>3 DEF Ready
  <2>5. QED
    BY <2>3, <2>4
<1>2. QED
  BY <1>1, CalendarInvariant, PTL

\* Only an edit that overlapped with the approval changes a version afterwards.
THEOREM ApprovedIsFrozenCorrect == Spec => ApprovedIsFrozen
<1> DEFINE Frozen ==
      \A v \in Version, d \in Day :
        status[v] \in {"APPROVED", "SUPERSEDED"} /\ days'[<<v, d>>] # days[<<v, d>>]
        => v \in crossed
<1>1. CalendarInv /\ [Next]_vars => [Frozen]_vars
  <2>1. SUFFICES ASSUME CalendarInv, Next, NEW v \in Version, NEW d \in Day,
                        status[v] \in {"APPROVED", "SUPERSEDED"},
                        days'[<<v, d>>] # days[<<v, d>>]
                 PROVE  v \in crossed
    OBVIOUS
  <2>2. <<v, d>> \in Row
    BY DEF Row
  <2>3. ASSUME NEW r \in Request, Persist(r) PROVE v \in crossed
    <3>1. wrote[r][<<v, d>>] # "none"
      BY <2>1, <2>2, <2>3 DEF Persist
    <3>2. Edits(r, v)
      BY <3>1 DEF Edits, Wrote
    <3>3. QED
      BY <2>1, <3>2 DEF CalendarInv, DaysHold, Settled
  <2>4. \E r \in Request : Persist(r)
    BY <2>1
    DEF Next, Edit, Approve, Begin, Serve, Look, Number, InsertDraft, WriteDay,
        LockAndCount, Find, Supersede, Promote, Rollback, Lost, Commit, Cut, rowVars
  <2>5. QED
    BY <2>3, <2>4
<1>2. QED
  BY <1>1, CalendarInvariant, PTL DEF Spec, ApprovedIsFrozen

\* A year that has had an approved calendar has exactly one.
THEOREM CalendarStandsCorrect == Spec => []CalendarStands
<1>1. ASSUME CalendarInv PROVE CalendarStands
  <2>1. SUFFICES ASSUME NEW v \in Version, status[v] \in {"APPROVED", "SUPERSEDED"}, ~torn
                 PROVE  Cardinality(Approved) = 1
    BY DEF CalendarStands
  <2>2. PICK w : w \in Approved
    BY <1>1, <2>1 DEF CalendarInv, VersionsHold
  <2>3. Approved = {w}
    BY <1>1, <2>2 DEF CalendarInv, VersionsHold
  <2>4. Cardinality({w}) = 1
    BY FS_Singleton
  <2>5. QED
    BY <2>3, <2>4
<1>2. QED
  BY <1>1, CalendarInvariant, PTL

\* The draft is the newest version, unless two requests made one each.
THEOREM DraftIsNewestCorrect == Spec => []DraftIsNewest
<1>1. CalendarInv => DraftIsNewest
  BY DEF CalendarInv, VersionsHold
<1>2. QED
  BY <1>1, CalendarInvariant, PTL
=============================================================================
