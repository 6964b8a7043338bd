------------------------ MODULE PersonaManagerProofs ------------------------
(***************************************************************************)
(* What the persona managers of all pods keep, for every number of pods,   *)
(* personas and people, and for every number of faults.                    *)
(***************************************************************************)
EXTENDS PersonaManager, SliceProofs

Running == {i \in Personas : driver[i] = "running"}

\* Where a persona is in the life of its goroutine tells where it is known: a pod has
\* it from RegisterResponder to the last step of its goroutine, and its map has it from
\* the second step of startResponder until it is trimmed or leaves.
Placed(i) ==
  /\ driver[i] \in {"off", "lost"} <=> home[i] = None
  /\ driver[i] = "running" => i \in mapped
  /\ i \in mapped => driver[i] \in {"running", "cancelled", "unregistered"}

\* The room for the personas that a tick wants.
Room(p) ==
  /\ Cardinality(responders(p)) <= MaxResponders
  /\ tick[p] = "trimming" => count[p] <= MaxResponders
  /\ tick[p] = "starting" =>
       count[p] > 0 /\ Cardinality(responders(p)) + count[p] <= MaxResponders

\* Before the first fault one pod leads for good and has all the personas.
OneLeader ==
  /\ ending = {}
  /\ \A p \in Pods : lease # p => tick[p] = "idle"
  /\ \A i \in Personas : driver[i] # "lost" /\ home[i] \in {None, lease}

\* Its tick started without a driver that is on its way out, so that its personas are
\* the same when it counts them and when it subtracts them.
Counts(p) ==
  /\ tick[p] \in {"counting", "counted", "trimming"} =>
       \A i \in Personas : driver[i] \in {"off", "running"}
  /\ tick[p] = "idle" =>
       /\ Cardinality(Running) <= seen
       /\ \A i \in Personas : driver[i] # "registered"
  /\ tick[p] = "counted" => count[p] = seen + Cardinality(Running)
  /\ tick[p] = "trimming" => count[p] <= seen
  /\ tick[p] = "starting" =>
       /\ Cardinality(Running) + count[p] <= seen
       /\ \A i, j \in Personas : driver[i] = "registered" /\ driver[j] = "registered" => i = j

Faultless == OneLeader /\ (lease \in Pods => Counts(lease))

ManagerInv ==
  /\ TypeOK
  /\ \A i \in Personas : Placed(i)
  /\ \A p \in Pods : Room(p)
  /\ faults = 0 => Faultless

-----------------------------------------------------------------------------
(* Counting *)

\* The smaller and the larger of two numbers (min and the surplus of ensureResponders).
LEMMA TwoNumbers ==
  ASSUME NEW a \in Int, NEW b \in Int
  PROVE  /\ Min({a, b}) \in {a, b} /\ Min({a, b}) <= a /\ Min({a, b}) <= b
         /\ Max({a, b}) \in {a, b} /\ Max({a, b}) >= a /\ Max({a, b}) >= b
<1>1. \E x \in {a, b} : \A y \in {a, b} : x <= y
  OBVIOUS
<1>2. \E x \in {a, b} : \A y \in {a, b} : x >= y
  OBVIOUS
<1> QED BY <1>1, <1>2 DEF Min, Max

\* Sets of personas are finite.
LEMMA PersonaSets ==
  ASSUME NEW S \in SUBSET Personas
  PROVE  /\ IsFiniteSet(S) /\ Cardinality(S) \in Nat
         /\ \A T \in SUBSET S : /\ Cardinality(T) \in Nat /\ Cardinality(T) <= Cardinality(S)
                                /\ Cardinality(S \ T) = Cardinality(S) - Cardinality(T)
         /\ \A i \in Personas \ S : Cardinality(S \cup {i}) = Cardinality(S) + 1
<1>1. IsFiniteSet(S) /\ Cardinality(S) \in Nat
  BY FS_Subset, FS_CardinalityType, ManagerAssumption
<1>2. ASSUME NEW T \in SUBSET S
      PROVE  /\ Cardinality(T) \in Nat /\ Cardinality(T) <= Cardinality(S)
             /\ Cardinality(S \ T) = Cardinality(S) - Cardinality(T)
  <2>1. S \cap T = T
    OBVIOUS
  <2>2. IsFiniteSet(T) /\ Cardinality(T) <= Cardinality(S)
    BY <1>1, FS_Subset
  <2>3. Cardinality(T) \in Nat
    BY <2>2, FS_CardinalityType
  <2>4. Cardinality(S \ T) = Cardinality(S) - Cardinality(S \cap T)
    BY <1>1, FS_Difference
  <2> QED BY <2>1, <2>2, <2>3, <2>4
<1>3. ASSUME NEW i \in Personas \ S PROVE Cardinality(S \cup {i}) = Cardinality(S) + 1
  BY <1>1, FS_AddElement
<1> QED BY <1>1, <1>2, <1>3

\* What the invariant says of the pool at once.
LEMMA PoolFacts ==
  ASSUME ManagerInv
  PROVE  /\ TypeOK /\ None \notin Pods
         /\ \A p \in Pods : responders(p) \in SUBSET Personas
         /\ Running \in SUBSET Personas
         /\ \A i \in Personas :
              /\ driver[i] \in DriverStates /\ home[i] \in Pods \cup {None}
              /\ driver[i] \notin {"off", "lost"} => home[i] \in Pods
BY ManagerAssumption DEF ManagerInv, TypeOK, responders, Running, Placed

-----------------------------------------------------------------------------
(* Types and places *)

\* Going on to the next persona to start, or ending the tick, keeps their types.
LEMMA NextStartTypes ==
  ASSUME TypeOK, NEW p \in Pods, NextStart(p)
  PROVE  tick' \in [Pods -> TickStates] /\ count' \in [Pods -> Int]
BY DEF TypeOK, NextStart, Goto, TickStates

\* A fault is counted, within its bound.
LEMMA FaultTypes ==
  ASSUME TypeOK, Fault
  PROVE  faults' \in 0..MaxFaults /\ faults' # 0
BY ManagerAssumption DEF TypeOK, Fault

\* Cancelling personas keeps the shape of the drivers and touches no other one.
LEMMA CancelFacts ==
  ASSUME TypeOK, NEW D, driver' = Cancel(D)
  PROVE  /\ driver' \in [Personas -> DriverStates]
         /\ \A i \in Personas :
              driver'[i] = IF i \in D /\ driver[i] = "running" THEN "cancelled" ELSE driver[i]
BY DEF TypeOK, Cancel, DriverStates

\* Every action of the manager keeps the type invariant.
LEMMA TypesKept ==
  ASSUME ManagerInv, Next
  PROVE  TypeOK'
<1>1. TypeOK
  BY DEF ManagerInv
<1>2. ASSUME NEW p \in Pods, NEW st \in TickStates, NEW n \in Int, Goto(p, st, n)
      PROVE  tick' \in [Pods -> TickStates] /\ count' \in [Pods -> Int]
  BY <1>1, <1>2 DEF TypeOK, Goto
<1>3. "idle" \in TickStates /\ "counting" \in TickStates /\ "counted" \in TickStates
      /\ "trimming" \in TickStates /\ "starting" \in TickStates
  BY DEF TickStates
<1>4. \A p \in Pods : /\ Cardinality(responders(p)) \in Nat /\ count[p] \in Int
                      /\ responders(p) \in SUBSET Personas
  BY <1>1, PoolFacts, PersonaSets DEF TypeOK
<1>5. MaxResponders \in Int
  BY ManagerAssumption
<1>6. ASSUME NEW p \in Pods, TryPersonaLeader(p) PROVE TypeOK'
  <2>1. faults' \in 0..MaxFaults
    BY <1>1, <1>6, FaultTypes DEF TryPersonaLeader, TypeOK
  <2>2. driver' \in [Personas -> DriverStates]
    BY <1>1, <1>6, CancelFacts DEF TryPersonaLeader, TypeOK, reapAll
  <2>3. tick' \in [Pods -> TickStates] /\ count' \in [Pods -> Int]
    BY <1>1, <1>2, <1>3, <1>6 DEF TryPersonaLeader, TypeOK, tickVars
  <2> QED BY <1>1, <1>6, <2>1, <2>2, <2>3 DEF TryPersonaLeader, TypeOK
<1>7. ASSUME NEW p \in Pods, TryPersonaLeaderFails(p) PROVE TypeOK'
  BY <1>1, <1>7, FaultTypes, CancelFacts DEF TryPersonaLeaderFails, TypeOK, reapAll, tickVars
<1>8. ASSUME NEW p \in Pods, OnlineResponderCount(p) \/ OnlineResponderCountFails(p)
      PROVE  TypeOK'
  <2>1. Cardinality(Present) \in Nat /\ people \in Int
    <3>1. Present \in SUBSET Personas
      BY DEF Present
    <3> QED BY <1>1, <3>1, PersonaSets, ManagerAssumption DEF TypeOK
  <2>2. tick' \in [Pods -> TickStates] /\ count' \in [Pods -> Int]
    BY <1>2, <1>3, <1>8, <2>1 DEF OnlineResponderCount, OnlineResponderCountFails
  <2>3. seen' \in 0..MaxPeople /\ faults' \in 0..MaxFaults
    BY <1>1, <1>8, FaultTypes, ManagerAssumption
       DEF OnlineResponderCount, OnlineResponderCountFails, TypeOK
  <2> QED BY <1>1, <1>8, <2>2, <2>3
          DEF OnlineResponderCount, OnlineResponderCountFails, TypeOK, poolVars
<1>9. ASSUME NEW p \in Pods, countHumans(p) PROVE TypeOK'
  <2>1. Min({count[p] - Cardinality(responders(p)), MaxResponders}) \in Int
    <3>1. PICK h \in Int : h = count[p] - Cardinality(responders(p))
      BY <1>4
    <3>2. Min({h, MaxResponders}) \in Int
      BY <1>5, TwoNumbers
    <3> QED BY <3>1, <3>2
  <2>2. tick' \in [Pods -> TickStates] /\ count' \in [Pods -> Int]
    BY <1>2, <1>3, <1>9, <2>1 DEF countHumans
  <2>3. driver' \in [Personas -> DriverStates]
    BY <1>1, <1>9, CancelFacts DEF countHumans, TypeOK, reapAll
  <2> QED BY <1>1, <1>9, <2>2, <2>3 DEF countHumans, TypeOK
<1>10. ASSUME NEW p \in Pods, trimResponders(p) PROVE TypeOK'
  <2>1. tick' \in [Pods -> TickStates] /\ count' \in [Pods -> Int]
    BY <1>2, <1>3, <1>4, <1>10 DEF trimResponders
  <2>2. driver' \in [Personas -> DriverStates] /\ mapped' \in SUBSET Personas
    BY <1>1, <1>10, CancelFacts DEF trimResponders, TypeOK
  <2> QED BY <1>1, <1>10, <2>1, <2>2 DEF trimResponders, TypeOK
<1>11. ASSUME NEW p \in Pods, startResponder(p) PROVE TypeOK'
  <2>1. tick' \in [Pods -> TickStates] /\ count' \in [Pods -> Int]
    BY <1>1, <1>11, NextStartTypes DEF startResponder, TypeOK, tickVars
  <2>2. /\ driver' \in [Personas -> DriverStates] /\ mapped' \in SUBSET Personas
        /\ home' \in [Personas -> Pods \cup {None}]
    BY <1>1, <1>11, ZenonT(40) DEF startResponder, TypeOK, DriverStates
  <2> QED BY <1>1, <1>11, <2>1, <2>2 DEF startResponder, TypeOK
<1>12. ASSUME NEW p \in Pods, startResponderFails(p) PROVE TypeOK'
  BY <1>1, <1>12, NextStartTypes, FaultTypes DEF startResponderFails, TypeOK, poolVars
<1>13. ASSUME NEW p \in Pods, Terminate(p) PROVE TypeOK'
  BY <1>1, <1>13, FaultTypes DEF Terminate, TypeOK, poolVars, tickVars
<1>14. ASSUME NEW p \in Pods, Exit(p) PROVE TypeOK'
  <2>1. tick' \in [Pods -> TickStates] /\ count' \in [Pods -> Int]
    BY <1>2, <1>3, <1>14 DEF Exit
  <2>2. faults' \in 0..MaxFaults
    BY <1>1, <1>14, FaultTypes DEF Exit, TypeOK
  <2>3. /\ driver' \in [Personas -> DriverStates] /\ mapped' \in SUBSET Personas
        /\ home' \in [Personas -> Pods \cup {None}]
    BY <1>1, <1>14 DEF Exit, TypeOK, DriverStates
  <2>4. lease' \in Pods \cup {None, "old"} /\ ending' \in SUBSET Pods /\ UNCHANGED <<people, seen>>
    BY <1>1, <1>14 DEF Exit, TypeOK
  <2> QED BY <1>1, <2>1, <2>2, <2>3, <2>4 DEF TypeOK
<1>15. ASSUME NEW i \in Personas, unregister(i) \/ leaveMap(i) \/ PresenceExpires(i)
       PROVE  TypeOK'
  BY <1>1, <1>15 DEF unregister, leaveMap, PresenceExpires, TypeOK, DriverStates, tickVars
<1>16. CASE PeopleCome \/ PeopleGo
  BY <1>1, <1>16, ManagerAssumption DEF PeopleCome, PeopleGo, TypeOK, poolVars, tickVars
<1>17. CASE LeaseExpires
  BY <1>1, <1>17, FaultTypes DEF LeaseExpires, TypeOK, poolVars, tickVars
<1> QED BY <1>6, <1>7, <1>8, <1>9, <1>10, <1>11, <1>12, <1>13, <1>14, <1>15, <1>16, <1>17
        DEF Next, Tick

\* Every step keeps the places of the personas.
LEMMA PlacedKept ==
  ASSUME ManagerInv, Next, NEW i \in Personas
  PROVE  Placed(i)'
<1>1. TypeOK /\ Placed(i) /\ None \notin Pods /\ driver[i] \in DriverStates
  BY PoolFacts DEF ManagerInv
<1>2. ASSUME UNCHANGED poolVars PROVE Placed(i)'
  BY <1>1, <1>2 DEF poolVars, Placed
<1>3. ASSUME NEW D, NEW T, driver' = Cancel(D), UNCHANGED home, mapped' = mapped \ T, T \subseteq D
      PROVE  Placed(i)'
  <2>1. driver'[i] = IF i \in D /\ driver[i] = "running" THEN "cancelled" ELSE driver[i]
    BY <1>1, <1>3, CancelFacts
  <2> QED BY <1>1, <1>3, <2>1 DEF Placed
<1>4. ASSUME NEW p \in Pods, reapAll(p), UNCHANGED <<home, mapped>> PROVE Placed(i)'
  <2>1. mapped' = mapped \ {}
    BY <1>4
  <2> QED BY <1>3, <1>4, <2>1 DEF reapAll
<1>5. ASSUME NEW p \in Pods, trimResponders(p) PROVE Placed(i)'
  BY <1>3, <1>5 DEF trimResponders
<1>6. ASSUME NEW p \in Pods, startResponder(p) PROVE Placed(i)'
  <2>1. CASE \E f \in Personas : /\ driver[f] = "off" /\ UNCHANGED mapped
                                 /\ driver' = [driver EXCEPT ![f] = "registered"]
                                 /\ home' = [home EXCEPT ![f] = p]
    BY <1>1, <2>1 DEF Placed, TypeOK
  <2>2. CASE \E f \in Personas : /\ driver[f] = "registered" /\ UNCHANGED home
                                 /\ driver' = [driver EXCEPT ![f] = "running"]
                                 /\ mapped' = mapped \cup {f}
    BY <1>1, <2>2 DEF Placed, TypeOK
  <2> QED BY <1>6, <2>1, <2>2 DEF startResponder
<1>7. ASSUME NEW p \in Pods, Exit(p) PROVE Placed(i)'
  <2>1. CASE home[i] = p
    <3>1. driver'[i] \in {"lost", "off"} /\ home'[i] = None /\ i \notin mapped'
      BY <1>7, <2>1 DEF Exit
    <3> QED BY <3>1 DEF Placed
  <2>2. CASE home[i] # p
    <3>1. driver'[i] = driver[i] /\ home'[i] = home[i] /\ (i \in mapped' <=> i \in mapped)
      BY <1>7, <2>2 DEF Exit
    <3> QED BY <1>1, <3>1 DEF Placed
  <2> QED BY <2>1, <2>2
<1>8. ASSUME NEW x \in Personas, unregister(x) \/ leaveMap(x) \/ PresenceExpires(x)
      PROVE  Placed(i)'
  <2>1. CASE x = i
    BY <1>1, <1>8, <2>1 DEF unregister, leaveMap, PresenceExpires, Placed, TypeOK
  <2>2. CASE x # i
    BY <1>1, <1>8, <2>2 DEF unregister, leaveMap, PresenceExpires, Placed, TypeOK
  <2> QED BY <2>1, <2>2
<1>9. ASSUME NEW p \in Pods, TryPersonaLeader(p) \/ TryPersonaLeaderFails(p) \/ countHumans(p)
      PROVE  Placed(i)'
  BY <1>2, <1>4, <1>9 DEF TryPersonaLeader, TryPersonaLeaderFails, countHumans, poolVars
<1>10. ASSUME NEW p \in Pods, \/ OnlineResponderCount(p) \/ OnlineResponderCountFails(p)
                              \/ startResponderFails(p) \/ Terminate(p)
       PROVE  UNCHANGED poolVars
  BY <1>10 DEF OnlineResponderCount, OnlineResponderCountFails, startResponderFails, Terminate
<1>11. PeopleCome \/ PeopleGo \/ LeaseExpires => UNCHANGED poolVars
  BY DEF PeopleCome, PeopleGo, LeaseExpires
<1> QED BY <1>2, <1>5, <1>6, <1>7, <1>8, <1>9, <1>10, <1>11 DEF Next, Tick

-----------------------------------------------------------------------------
(* The room of a pod *)

\* A pod whose map does not grow keeps its room wherever its tick is.
LEMMA RoomShrinks ==
  ASSUME ManagerInv, NEW q \in Pods, mapped' \subseteq mapped,
         \A i \in mapped' : home'[i] = home[i],
         \/ tick'[q] = tick[q] /\ count'[q] = count[q]
         \/ tick'[q] \in {"idle", "counting", "counted"}
  PROVE  Room(q)'
<1>1. Room(q) /\ responders(q) \in SUBSET Personas /\ count[q] \in Int /\ MaxResponders \in Int
  BY PoolFacts, ManagerAssumption DEF ManagerInv, TypeOK
<1>2. responders(q)' \subseteq responders(q)
  BY DEF responders
<1>3. PICK new \in SUBSET responders(q) : new = responders(q)'
  BY <1>2
<1>4. Cardinality(new) \in Nat /\ Cardinality(new) <= Cardinality(responders(q))
      /\ Cardinality(responders(q)) \in Nat
  BY <1>1, <1>3, PersonaSets
<1>5. Cardinality(responders(q)') <= MaxResponders
  BY <1>1, <1>3, <1>4 DEF Room
<1>6. CASE tick'[q] \in {"idle", "counting", "counted"}
  BY <1>5, <1>6 DEF Room
<1>7. CASE tick'[q] = tick[q] /\ count'[q] = count[q]
  <2>1. tick[q] = "starting" =>
          count[q] > 0 /\ Cardinality(responders(q)') + count[q] <= MaxResponders
    BY <1>1, <1>3, <1>4 DEF Room
  <2> QED BY <1>1, <1>5, <1>7, <2>1 DEF Room
<1> QED BY <1>6, <1>7

\* The next start of a tick that still has some to make: one room less is wanted.
LEMMA NextStartRoom ==
  ASSUME TypeOK, NEW p \in Pods, NextStart(p), count[p] > 0,
         NEW n \in Int, n + count[p] <= MaxResponders + 1, n <= MaxResponders
  PROVE  tick'[p] = "idle" \/ (tick'[p] = "starting" /\ count'[p] > 0 /\ n + count'[p] <= MaxResponders)
<1>1. count[p] \in Int /\ MaxResponders \in Int
  BY ManagerAssumption DEF TypeOK
<1>2. CASE count[p] > 1
  <2>1. tick'[p] = "starting" /\ count'[p] = count[p] - 1
    BY <1>2 DEF NextStart, Goto, TypeOK
  <2> QED BY <1>1, <1>2, <2>1
<1>3. CASE ~(count[p] > 1)
  BY <1>3 DEF NextStart, Goto, TypeOK
<1> QED BY <1>2, <1>3

\* No pod has more than MaxResponders personas: ensureResponders starts one only
\* while there is room.
LEMMA RoomKept ==
  ASSUME ManagerInv, Next, NEW q \in Pods
  PROVE  Room(q)'
<1>1. /\ TypeOK /\ Room(q) /\ responders(q) \in SUBSET Personas /\ MaxResponders \in Int
      /\ Cardinality(responders(q)) \in Nat /\ \A i \in Personas : Placed(i)
  BY PoolFacts, PersonaSets, ManagerAssumption DEF ManagerInv
<1>2. ASSUME NEW p \in Pods, NEW st, NEW n, Goto(p, st, n)
      PROVE  /\ tick'[p] = st /\ count'[p] = n
             /\ q # p => tick'[q] = tick[q] /\ count'[q] = count[q]
  BY <1>1, <1>2 DEF Goto, TypeOK
<1>3. ASSUME NEW p \in Pods, NextStart(p), q # p
      PROVE  tick'[q] = tick[q] /\ count'[q] = count[q]
  BY <1>2, <1>3 DEF NextStart
<1>4. ASSUME UNCHANGED <<home, mapped>>,
             \/ tick'[q] = tick[q] /\ count'[q] = count[q]
             \/ tick'[q] \in {"idle", "counting", "counted"}
      PROVE  Room(q)'
  BY <1>4, RoomShrinks
<1>5. ASSUME NEW p \in Pods, TryPersonaLeader(p) \/ TryPersonaLeaderFails(p) PROVE Room(q)'
  BY <1>2, <1>4, <1>5 DEF TryPersonaLeader, TryPersonaLeaderFails, tickVars
<1>6. ASSUME NEW p \in Pods, OnlineResponderCount(p) \/ OnlineResponderCountFails(p)
      PROVE  Room(q)'
  BY <1>2, <1>4, <1>6 DEF OnlineResponderCount, OnlineResponderCountFails, poolVars
<1>7. ASSUME NEW p \in Pods, countHumans(p) PROVE Room(q)'
  <2>1. CASE q # p \/ tick'[q] = "idle"
    BY <1>2, <1>4, <1>7, <2>1 DEF countHumans
  <2>2. CASE q = p /\ tick'[q] # "idle"
    <3>1. PICK h \in Int : h = count[p] - Cardinality(responders(p))
      BY <1>1, <2>2 DEF TypeOK
    <3>2. Min({h, MaxResponders}) <= MaxResponders
      BY <1>1, TwoNumbers
    <3>3. tick'[q] = "trimming" /\ count'[q] <= MaxResponders
      BY <1>2, <1>7, <2>2, <3>1, <3>2 DEF countHumans
    <3>4. Cardinality(responders(q)') <= MaxResponders
      <4>1. responders(q)' = responders(q)
        BY <1>7 DEF countHumans, responders
      <4> QED BY <1>1, <4>1 DEF Room
    <3> QED BY <3>3, <3>4 DEF Room
  <2> QED BY <2>1, <2>2
<1>8. ASSUME NEW p \in Pods, trimResponders(p) PROVE Room(q)'
  <2>1. mapped' \subseteq mapped /\ UNCHANGED home
    BY <1>8 DEF trimResponders
  <2>2. CASE q # p \/ tick'[q] = "idle"
    BY <1>2, <1>8, <2>1, <2>2, RoomShrinks DEF trimResponders
  <2>3. CASE q = p /\ tick'[q] # "idle"
    <3>1. /\ Cardinality(responders(q)) < count[q] /\ tick'[q] = "starting"
          /\ count'[q] = count[q] - Cardinality(responders(q))
          /\ count[q] <= MaxResponders /\ count[q] \in Int
      BY <1>1, <1>2, <1>8, <2>3 DEF trimResponders, Room, TypeOK
    <3>2. PICK new \in SUBSET responders(q) : new = responders(q)'
      BY <2>1 DEF responders
    <3>3. Cardinality(new) \in Nat /\ Cardinality(new) <= Cardinality(responders(q))
      BY <1>1, <3>2, PersonaSets
    <3>4. /\ Cardinality(responders(q)') <= MaxResponders /\ count'[q] > 0
          /\ Cardinality(responders(q)') + count'[q] <= MaxResponders
      BY <1>1, <3>1, <3>2, <3>3
    <3> QED BY <3>1, <3>4 DEF Room
  <2> QED BY <2>2, <2>3
<1>9. ASSUME NEW p \in Pods, startResponder(p) PROVE Room(q)'
  <2>1. CASE \E f \in Personas : /\ driver[f] = "off" /\ UNCHANGED <<mapped, tickVars>>
                                 /\ home' = [home EXCEPT ![f] = p]
    <3>1. PICK f \in Personas : /\ driver[f] = "off" /\ UNCHANGED <<mapped, tickVars>>
                                /\ home' = [home EXCEPT ![f] = p]
      BY <2>1
    <3>2. f \notin mapped
      BY <1>1, <3>1 DEF Placed
    <3>3. \A i \in mapped' : home'[i] = home[i]
      BY <1>1, <3>1, <3>2 DEF TypeOK
    <3> QED BY <3>1, <3>3, RoomShrinks DEF tickVars
  <2>2. CASE \E f \in Personas : /\ driver[f] = "registered" /\ home[f] = p
                                 /\ mapped' = mapped \cup {f} /\ UNCHANGED home
                                 /\ NextStart(p)
    <3>1. PICK f \in Personas : /\ driver[f] = "registered" /\ home[f] = p
                                /\ mapped' = mapped \cup {f} /\ UNCHANGED home
                                /\ NextStart(p)
      BY <2>2
    <3>2. f \notin mapped
      BY <1>1, <3>1 DEF Placed
    <3>3. CASE q # p
      <4>1. responders(q)' = responders(q)
        BY <3>1, <3>3 DEF responders
      <4> QED BY <1>1, <1>3, <3>1, <3>3, <4>1 DEF Room
    <3>4. CASE q = p
      <4>1. responders(q)' = responders(q) \cup {f} /\ f \notin responders(q)
        BY <3>1, <3>2, <3>4 DEF responders
      <4>2. PICK n \in Int : n = Cardinality(responders(q)') /\ n = Cardinality(responders(q)) + 1
        BY <1>1, <4>1, PersonaSets
      <4>3. /\ count[q] > 0 /\ Cardinality(responders(q)) + count[q] <= MaxResponders
            /\ count[q] \in Int
        BY <1>1, <1>9, <3>4 DEF Room, startResponder, TypeOK
      <4>4. n + count[q] <= MaxResponders + 1 /\ n <= MaxResponders
        BY <1>1, <4>2, <4>3
      <4>5. tick'[q] = "idle" \/ (tick'[q] = "starting" /\ count'[q] > 0 /\ n + count'[q] <= MaxResponders)
        BY <1>1, <3>1, <3>4, <4>3, <4>4, NextStartRoom
      <4> QED BY <4>2, <4>4, <4>5 DEF Room
    <3> QED BY <3>3, <3>4
  <2> QED BY <1>9, <2>1, <2>2 DEF startResponder
<1>10. ASSUME NEW p \in Pods, startResponderFails(p) PROVE Room(q)'
  <2>1. NextStart(p) /\ UNCHANGED <<home, mapped>>
    BY <1>10 DEF startResponderFails, poolVars
  <2>2. CASE q # p
    BY <1>3, <1>4, <2>1, <2>2
  <2>3. CASE q = p
    <3>1. PICK n \in Int : n = Cardinality(responders(q))
      BY <1>1
    <3>2. count[q] > 0 /\ n + count[q] <= MaxResponders /\ count[q] \in Int
      BY <1>1, <1>10, <2>3, <3>1 DEF Room, startResponderFails, TypeOK
    <3>3. n + count[q] <= MaxResponders + 1 /\ n <= MaxResponders
      BY <1>1, <3>2
    <3>4. tick'[q] = "idle" \/ (tick'[q] = "starting" /\ count'[q] > 0 /\ n + count'[q] <= MaxResponders)
      BY <1>1, <2>1, <2>3, <3>2, <3>3, NextStartRoom
    <3>5. responders(q)' = responders(q)
      BY <2>1 DEF responders
    <3> QED BY <3>1, <3>3, <3>4, <3>5 DEF Room
  <2> QED BY <2>2, <2>3
<1>11. ASSUME NEW p \in Pods, Exit(p) PROVE Room(q)'
  <2>1. mapped' \subseteq mapped /\ Goto(p, "idle", 0)
    BY <1>11 DEF Exit
  <2>2. \A i \in mapped' : home'[i] = home[i]
    BY <1>1, <1>11 DEF Exit, TypeOK
  <2> QED BY <1>2, <2>1, <2>2, RoomShrinks
<1>12. ASSUME NEW i \in Personas, leaveMap(i) PROVE Room(q)'
  <2>1. mapped' \subseteq mapped /\ \A x \in mapped' : home'[x] = home[x]
    BY <1>1, <1>12 DEF leaveMap, TypeOK
  <2> QED BY <1>12, <2>1, RoomShrinks DEF leaveMap, tickVars
<1>13. ASSUME \/ \E i \in Personas : unregister(i) \/ PresenceExpires(i)
              \/ \E p \in Pods : Terminate(p)
              \/ PeopleCome \/ PeopleGo \/ LeaseExpires
       PROVE  Room(q)'
  <2>1. UNCHANGED <<home, mapped, tick, count>>
    BY <1>13 DEF unregister, PresenceExpires, Terminate, PeopleCome, PeopleGo, LeaseExpires,
         poolVars, tickVars
  <2> QED BY <1>4, <2>1
<1> QED BY <1>5, <1>6, <1>7, <1>8, <1>9, <1>10, <1>11, <1>12, <1>13 DEF Next, Tick

-----------------------------------------------------------------------------
(* Before the first fault *)

\* A step without a fault was preceded by none.
LEMMA FaultsGrow ==
  ASSUME ManagerInv, Next, faults' = 0
  PROVE  faults = 0 /\ ~Fault /\ Faultless
<1>1. TypeOK /\ faults \in Nat
  BY ManagerAssumption DEF ManagerInv, TypeOK
<1>2. ~Fault
  BY <1>1, FaultTypes
<1>3. UNCHANGED faults
  BY <1>2 DEF Next, Tick, TryPersonaLeader, TryPersonaLeaderFails, OnlineResponderCount,
       OnlineResponderCountFails, countHumans, trimResponders, startResponder,
       startResponderFails, Terminate, Exit, unregister, leaveMap, PresenceExpires, PeopleCome,
       PeopleGo, LeaseExpires
<1> QED BY <1>2, <1>3 DEF ManagerInv

\* What is known while one pod leads and nothing has failed.
LEMMA LeaderFacts ==
  ASSUME ManagerInv, Faultless
  PROVE  /\ TypeOK /\ None \notin Pods /\ ending = {} /\ Cardinality(Running) \in Nat /\ seen \in Int
         /\ \A p \in Pods : /\ tick[p] # "idle" => lease = p
                            /\ lease = p => Counts(p)
                            /\ count[p] \in Int
                            /\ lease # p => responders(p) = {}
         /\ \A i \in Personas : /\ Placed(i) /\ driver[i] # "lost"
                                /\ driver[i] \in DriverStates
                                /\ driver[i] # "off" <=> (home[i] = lease /\ lease \in Pods)
<1>1. /\ TypeOK /\ None \notin Pods /\ ending = {} /\ OneLeader
      /\ \A i \in Personas : Placed(i)
      /\ \A p \in Pods : lease = p => Counts(p)
  BY PoolFacts DEF ManagerInv, Faultless, OneLeader
<1>2. Cardinality(Running) \in Nat
  <2>1. Running \in SUBSET Personas
    BY DEF Running
  <2> QED BY <2>1, PersonaSets
<1>3. seen \in Int /\ \A p \in Pods : count[p] \in Int
  BY <1>1, ManagerAssumption DEF TypeOK
<1>4. ASSUME NEW i \in Personas
      PROVE  /\ driver[i] # "lost" /\ driver[i] \in DriverStates
             /\ driver[i] # "off" <=> (home[i] = lease /\ lease \in Pods)
  BY <1>1 DEF OneLeader, Placed, TypeOK
<1>5. ASSUME NEW p \in Pods, lease # p PROVE responders(p) = {}
  BY <1>1, <1>5 DEF responders, OneLeader, TypeOK
<1> QED BY <1>1, <1>2, <1>3, <1>4, <1>5 DEF OneLeader

\* The parts of Faultless after a step in which the lease stays and at most the tick of
\* the leader moves.
LEMMA LeaderKept ==
  ASSUME ManagerInv, Faultless, UNCHANGED <<lease, ending>>,
         \A i \in Personas : driver'[i] # "lost" /\ home'[i] \in {None, lease},
         \A q \in Pods : lease # q => tick'[q] = tick[q],
         \A p \in Pods : lease = p => Counts(p)'
  PROVE  Faultless'
<1>1. OneLeader'
  BY DEF Faultless, OneLeader
<1> QED BY <1>1 DEF Faultless, Counts, Running

\* Drivers that move without starting or stopping to answer.
LEMMA RunningSame ==
  ASSUME \A i \in Personas : driver'[i] = "running" <=> driver[i] = "running"
  PROVE  Running' = Running
BY DEF Running

\* The personas of the leader are those of its map while no driver is on its way out.
LEMMA RunningMapped ==
  ASSUME ManagerInv, Faultless, NEW p \in Pods, lease = p,
         tick[p] \in {"counting", "counted", "trimming"}
  PROVE  Running = responders(p) /\ Running = Present
<1>1. \A i \in Personas : driver[i] \in {"off", "running"}
  BY LeaderFacts DEF Counts
<1>2. mapped \subseteq Personas /\ \A i \in Personas : Placed(i)
  BY LeaderFacts DEF TypeOK
<1>3. \A i \in Personas : driver[i] = "running" <=> i \in mapped /\ home[i] = p
  BY <1>1, <1>2, LeaderFacts DEF Placed
<1> QED BY <1>1, <1>2, <1>3 DEF Running, responders, Present

\* Before the first fault one process leads at a time, and its counts are those of
\* the people and the personas that are present.
LEMMA FaultlessKept ==
  ASSUME ManagerInv, Next, faults' = 0
  PROVE  Faultless'
<1>1. faults = 0 /\ ~Fault /\ Faultless
  BY FaultsGrow
<1>2. /\ TypeOK /\ None \notin Pods /\ ending = {} /\ Cardinality(Running) \in Nat /\ seen \in Int
      /\ \A p \in Pods : /\ tick[p] # "idle" => lease = p
                         /\ lease = p => Counts(p)
                         /\ count[p] \in Int
                         /\ lease # p => responders(p) = {}
      /\ \A i \in Personas : /\ Placed(i) /\ driver[i] # "lost"
                             /\ driver[i] \in DriverStates
                             /\ driver[i] # "off" <=> (home[i] = lease /\ lease \in Pods)
  BY <1>1, LeaderFacts
<1>3. \A i \in Personas : driver[i] # "lost" /\ home[i] \in {None, lease}
  BY <1>1 DEF Faultless, OneLeader
<1>4. ASSUME NEW p \in Pods, NEW st, NEW n, Goto(p, st, n)
      PROVE  /\ tick'[p] = st /\ count'[p] = n
             /\ \A q \in Pods : q # p => tick'[q] = tick[q] /\ count'[q] = count[q]
  BY <1>2, <1>4 DEF Goto, TypeOK
<1>5. ASSUME UNCHANGED <<lease, seen, driver, home, tick, count, ending>> PROVE Faultless'
  BY <1>1, <1>5 DEF Faultless, OneLeader, Counts, Running
<1>6. ASSUME NEW p \in Pods, TryPersonaLeader(p) PROVE Faultless'
  <2>1. Unwinding(p) = {} /\ tick[p] = "idle" /\ UNCHANGED <<seen, home, mapped, ending>>
    BY <1>1, <1>6 DEF TryPersonaLeader
  <2>2. CASE lease \in {None, p}
    <3>1. lease' = p /\ UNCHANGED driver /\ tick'[p] = "counting"
          /\ \A q \in Pods : q # p => tick'[q] = tick[q]
      BY <1>4, <1>6, <2>2 DEF TryPersonaLeader
    <3>2. OneLeader'
      <4>1. \A q \in Pods : q # p => tick[q] = "idle"
        BY <1>2, <2>2
      <4>2. \A i \in Personas : home[i] \in {None, p}
        BY <1>3, <2>2
      <4> QED BY <1>2, <1>3, <2>1, <3>1, <4>1, <4>2 DEF OneLeader
    <3>3. ASSUME NEW i \in Personas PROVE driver[i] \in {"off", "running"}
      <4>1. CASE lease = None
        BY <1>2, <4>1
      <4>2. CASE lease = p
        <5>1. driver[i] # "registered" /\ driver[i] # "lost"
          BY <1>2, <2>1, <4>2 DEF Counts
        <5>2. driver[i] # "off" => driver[i] \notin {"cancelled", "unregistered"}
          BY <1>2, <2>1, <4>2 DEF Unwinding
        <5> QED BY <1>2, <5>1, <5>2 DEF DriverStates
      <4> QED BY <2>2, <4>1, <4>2
    <3>4. Counts(p)'
      BY <3>1, <3>3 DEF Counts
    <3> QED BY <3>1, <3>2, <3>4 DEF Faultless, Counts, Running
  <2>3. CASE lease \notin {None, p}
    <3>1. reapAll(p) /\ UNCHANGED <<lease, tickVars>> /\ responders(p) = {}
      BY <1>2, <1>6, <2>3 DEF TryPersonaLeader
    <3>2. driver' = driver
      <4>1. driver' = [i \in Personas |-> driver[i]]
        BY <3>1 DEF reapAll, Cancel
      <4> QED BY <1>2, <4>1 DEF TypeOK
    <3> QED BY <1>5, <2>1, <3>1, <3>2 DEF tickVars
  <2> QED BY <2>2, <2>3
<1>7. ASSUME NEW p \in Pods, OnlineResponderCount(p) PROVE Faultless'
  <2>1. lease = p /\ tick[p] = "counting" /\ Counts(p)
    BY <1>2, <1>7 DEF OnlineResponderCount
  <2>2. Present = Running
    BY <1>1, <2>1, RunningMapped
  <2>3. /\ UNCHANGED <<lease, ending, driver, home>> /\ seen' = people /\ tick'[p] = "counted"
        /\ count'[p] = people + Cardinality(Running)
        /\ \A q \in Pods : q # p => tick'[q] = tick[q]
    BY <1>1, <1>4, <1>7, <2>2 DEF OnlineResponderCount, poolVars
  <2>4. Counts(p)'
    BY <2>1, <2>3 DEF Counts, Running
  <2> QED BY <1>1, <1>3, <2>1, <2>3, <2>4, LeaderKept
<1>8. ASSUME NEW p \in Pods, countHumans(p) PROVE Faultless'
  <2>1. lease = p /\ tick[p] = "counted" /\ Counts(p)
    BY <1>2, <1>8 DEF countHumans
  <2>2. Running = responders(p)
    BY <1>1, <2>1, RunningMapped
  <2>3. count[p] - Cardinality(responders(p)) = seen
    BY <1>2, <2>1, <2>2 DEF Counts
  <2>4. UNCHANGED <<lease, seen, ending, home>>
    BY <1>8 DEF countHumans
  <2>5. CASE seen < 1
    <3>1. reapAll(p) /\ Goto(p, "idle", 0)
      BY <1>8, <2>3, <2>5 DEF countHumans
    <3>2. \A i \in Personas :
            driver'[i] = IF i \in Running /\ driver[i] = "running" THEN "cancelled" ELSE driver[i]
      BY <1>2, <2>2, <3>1, CancelFacts DEF reapAll
    <3>3. Running' = {} /\ \A i \in Personas : driver'[i] \notin {"lost", "registered"}
      <4>1. \A i \in Personas : driver[i] \in {"off", "running"}
        BY <2>1 DEF Counts
      <4> QED BY <3>2, <4>1 DEF Running
    <3>4. 0 <= seen
      BY <1>2, ManagerAssumption DEF TypeOK
    <3>5. Cardinality(Running') <= seen
      BY <3>3, <3>4, FS_EmptySet
    <3>6. tick'[p] = "idle" /\ \A q \in Pods : q # p => tick'[q] = tick[q]
      BY <1>4, <3>1
    <3>7. Counts(p)'
      BY <2>4, <3>3, <3>5, <3>6 DEF Counts
    <3> QED BY <1>1, <1>3, <2>1, <2>4, <3>3, <3>6, <3>7, LeaderKept
  <2>6. CASE ~(seen < 1)
    <3>1. UNCHANGED driver /\ Goto(p, "trimming", Min({seen, MaxResponders}))
      BY <1>8, <2>3, <2>6 DEF countHumans
    <3>2. Min({seen, MaxResponders}) <= seen
      <4>1. seen \in Int /\ MaxResponders \in Int
        BY <1>2, ManagerAssumption
      <4> QED BY <4>1, TwoNumbers
    <3>3. /\ tick'[p] = "trimming" /\ count'[p] <= seen
          /\ \A q \in Pods : q # p => tick'[q] = tick[q]
      BY <1>4, <3>1, <3>2
    <3>4. Counts(p)'
      BY <2>1, <2>4, <3>1, <3>3 DEF Counts
    <3> QED BY <1>1, <1>3, <2>1, <2>4, <3>1, <3>3, <3>4, LeaderKept
  <2> QED BY <2>5, <2>6
<1>9. ASSUME NEW p \in Pods, trimResponders(p) PROVE Faultless'
  <2>1. lease = p /\ tick[p] = "trimming" /\ Counts(p)
    BY <1>2, <1>9 DEF trimResponders
  <2>2. Running = responders(p) /\ Running \in SUBSET Personas
        /\ \A i \in Personas : driver[i] \in {"off", "running"}
    BY <1>1, <2>1, RunningMapped DEF Running, Counts
  <2>3. PICK trim \in SUBSET Running :
          /\ Cardinality(trim) = Max({Cardinality(Running) - count[p], 0})
          /\ driver' = Cancel(trim)
    BY <1>9, <2>2 DEF trimResponders
  <2>4. UNCHANGED <<lease, seen, ending, home>>
    BY <1>9 DEF trimResponders
  <2>5. \A i \in Personas :
          driver'[i] = IF i \in trim /\ driver[i] = "running" THEN "cancelled" ELSE driver[i]
    BY <1>2, <2>3, CancelFacts
  <2>6. Running' = Running \ trim /\ \A i \in Personas : driver'[i] \notin {"lost", "registered"}
    BY <2>2, <2>5 DEF Running
  <2>7. /\ Cardinality(Running \ trim) = Cardinality(Running) - Cardinality(trim)
        /\ Cardinality(trim) \in Nat
    BY <2>2, <2>3, PersonaSets
  <2>8. Cardinality(trim) >= Cardinality(Running) - count[p]
    <3>1. PICK d \in Int : d = Cardinality(Running) - count[p]
      BY <1>2
    <3>2. Max({d, 0}) >= d
      BY TwoNumbers
    <3> QED BY <2>3, <3>1, <3>2
  <2>9. count[p] <= seen /\ count[p] \in Int
    BY <1>2, <2>1 DEF Counts
  <2>10. Cardinality(Running') <= seen
    BY <1>2, <2>6, <2>7, <2>8, <2>9
  <2>11. CASE Cardinality(Running) < count[p]
    <3>1. Goto(p, "starting", count[p] - Cardinality(Running))
      BY <1>9, <2>2, <2>11 DEF trimResponders
    <3>2. /\ tick'[p] = "starting" /\ count'[p] = count[p] - Cardinality(Running)
          /\ \A q \in Pods : q # p => tick'[q] = tick[q]
      BY <1>4, <3>1
    <3>3. Cardinality(Running') + count'[p] <= seen
      BY <1>2, <2>6, <2>7, <2>9, <3>2
    <3>4. Counts(p)'
      BY <2>4, <2>6, <3>2, <3>3 DEF Counts
    <3> QED BY <1>1, <1>3, <2>1, <2>4, <2>6, <3>2, <3>4, LeaderKept
  <2>12. CASE ~(Cardinality(Running) < count[p])
    <3>1. Goto(p, "idle", 0)
      BY <1>9, <2>2, <2>12 DEF trimResponders
    <3>2. tick'[p] = "idle" /\ \A q \in Pods : q # p => tick'[q] = tick[q]
      BY <1>4, <3>1
    <3>3. Counts(p)'
      BY <2>4, <2>6, <2>10, <3>2 DEF Counts
    <3> QED BY <1>1, <1>3, <2>1, <2>4, <2>6, <3>2, <3>3, LeaderKept
  <2> QED BY <2>11, <2>12
<1>10. ASSUME NEW p \in Pods, startResponder(p) PROVE Faultless'
  <2>1. /\ lease = p /\ tick[p] = "starting" /\ Cardinality(Running) + count[p] <= seen
        /\ UNCHANGED <<lease, seen, ending>> /\ count[p] > 0
    BY <1>2, <1>10 DEF startResponder, Counts, ManagerInv, Room
  <2>2. CASE /\ {i \in Personas : driver[i] = "registered" /\ home[i] = p} = {}
             /\ \E f \in Personas : /\ driver[f] = "off" /\ UNCHANGED tickVars
                                    /\ driver' = [driver EXCEPT ![f] = "registered"]
                                    /\ home' = [home EXCEPT ![f] = p]
    <3>1. /\ \A i \in Personas : driver'[i] = "running" <=> driver[i] = "running"
          /\ \A i \in Personas : driver'[i] # "lost" /\ home'[i] \in {None, lease}
      BY <1>2, <1>3, <2>1, <2>2 DEF TypeOK
    <3>2. Running' = Running
      BY <3>1, RunningSame
    <3>3. \A i \in Personas : driver[i] # "registered"
      BY <1>2, <2>1, <2>2
    <3>4. \A i, j \in Personas : driver'[i] = "registered" /\ driver'[j] = "registered" => i = j
      BY <1>2, <2>2, <3>3 DEF TypeOK
    <3>5. Counts(p)'
      BY <2>1, <2>2, <3>2, <3>4 DEF Counts, tickVars
    <3> QED BY <1>1, <2>1, <2>2, <3>1, <3>5, LeaderKept DEF tickVars
  <2>3. CASE \E f \in Personas : /\ driver[f] = "registered" /\ UNCHANGED home
                                 /\ driver' = [driver EXCEPT ![f] = "running"]
                                 /\ NextStart(p)
    <3>1. PICK f \in Personas : /\ driver[f] = "registered" /\ UNCHANGED home
                                /\ driver' = [driver EXCEPT ![f] = "running"]
                                /\ NextStart(p)
      BY <2>3
    <3>2. driver'[f] = "running" /\ \A i \in Personas : i # f => driver'[i] = driver[i]
      BY <1>2, <3>1 DEF TypeOK
    <3>3. Running' = Running \cup {f} /\ f \notin Running /\ Running \in SUBSET Personas
      BY <3>1, <3>2 DEF Running
    <3>4. Cardinality(Running') = Cardinality(Running) + 1
      BY <3>3, PersonaSets
    <3>5. \A i \in Personas : driver[i] = "registered" => i = f
      BY <1>2, <2>1, <3>1 DEF Counts
    <3>6. \A i \in Personas : driver'[i] # "registered" /\ driver'[i] # "lost"
      BY <1>2, <3>2, <3>5
    <3>7. \A q \in Pods : q # p => tick'[q] = tick[q]
      BY <1>4, <3>1 DEF NextStart
    <3>8. Counts(p)'
      <4>1. CASE count[p] > 1
        <5>1. tick'[p] = "starting" /\ count'[p] = count[p] - 1
          BY <1>4, <3>1, <4>1 DEF NextStart
        <5>2. Cardinality(Running') + count'[p] <= seen
          BY <1>2, <2>1, <3>4, <5>1
        <5> QED BY <2>1, <3>6, <5>1, <5>2 DEF Counts
      <4>2. CASE ~(count[p] > 1)
        <5>1. tick'[p] = "idle"
          BY <1>4, <3>1, <4>2 DEF NextStart
        <5>2. Cardinality(Running') <= seen
          BY <1>2, <2>1, <3>4
        <5> QED BY <2>1, <3>6, <5>1, <5>2 DEF Counts
      <4> QED BY <4>1, <4>2
    <3> QED BY <1>1, <1>3, <2>1, <3>1, <3>6, <3>7, <3>8, LeaderKept
  <2> QED BY <1>10, <2>2, <2>3 DEF startResponder
<1>11. ASSUME NEW x \in Personas, unregister(x) \/ leaveMap(x) PROVE Faultless'
  <2>1. /\ driver[x] \in {"cancelled", "unregistered"} /\ UNCHANGED <<lease, seen, ending, tickVars>>
        /\ \E st \in {"unregistered", "off"} : driver' = [driver EXCEPT ![x] = st]
        /\ home' = home \/ home' = [home EXCEPT ![x] = None]
    BY <1>2, <1>11 DEF unregister, leaveMap
  <2>2. /\ \A i \in Personas : driver'[i] = "running" <=> driver[i] = "running"
        /\ \A i \in Personas : driver'[i] = "registered" <=> driver[i] = "registered"
        /\ \A i \in Personas : driver'[i] # "lost" /\ home'[i] \in {None, lease}
    BY <1>2, <1>3, <2>1 DEF TypeOK
  <2>3. Running' = Running
    BY <2>2, RunningSame
  <2>4. ASSUME NEW p \in Pods, lease = p PROVE Counts(p)'
    <3>1. Counts(p) /\ tick[p] \notin {"counting", "counted", "trimming"}
      BY <1>2, <2>1, <2>4 DEF Counts
    <3> QED BY <2>1, <2>2, <2>3, <3>1 DEF Counts, tickVars
  <2> QED BY <1>1, <2>1, <2>2, <2>4, LeaderKept DEF tickVars
<1>12. ASSUME NEW x \in Personas, PresenceExpires(x) PROVE FALSE
  BY <1>2, <1>12 DEF PresenceExpires
<1>13. CASE PeopleCome \/ PeopleGo
  BY <1>5, <1>13 DEF PeopleCome, PeopleGo, poolVars, tickVars
<1>14. CASE LeaseExpires
  <2>1. lease \notin Pods /\ lease' = None /\ UNCHANGED <<seen, driver, home, tick, count, ending>>
    BY <1>1, <1>14 DEF LeaseExpires, poolVars, tickVars
  <2>2. \A i \in Personas : home[i] = None
    BY <1>2, <1>3, <2>1 DEF TypeOK
  <2>3. OneLeader'
    BY <1>2, <2>1, <2>2 DEF OneLeader
  <2> QED BY <1>2, <2>1, <2>3 DEF Faultless
<1>15. ASSUME NEW p \in Pods, \/ TryPersonaLeaderFails(p) \/ OnlineResponderCountFails(p)
                              \/ startResponderFails(p) \/ Terminate(p) \/ Exit(p)
       PROVE  FALSE
  BY <1>1, <1>2, <1>15 DEF TryPersonaLeaderFails, OnlineResponderCountFails, startResponderFails,
       Terminate, Exit
<1> QED BY <1>6, <1>7, <1>8, <1>9, <1>10, <1>11, <1>12, <1>13, <1>14, <1>15 DEF Next, Tick

-----------------------------------------------------------------------------
(* The theorems *)

\* The invariant of the managers is inductive.
LEMMA ManagerKept == ManagerInv /\ [Next]_vars => ManagerInv'
<1>1. ASSUME ManagerInv, UNCHANGED vars PROVE ManagerInv'
  BY <1>1 DEF ManagerInv, vars, poolVars, tickVars, TypeOK, Placed, Room, responders, Faultless,
       OneLeader, Counts, Running
<1>2. ASSUME ManagerInv, Next PROVE ManagerInv'
  BY <1>2, TypesKept, PlacedKept, RoomKept, FaultlessKept DEF ManagerInv
<1> QED BY <1>1, <1>2

\* The invariant of the managers, with their types.
THEOREM ManagerInvariance == Spec => []ManagerInv
<1>1. Init => ManagerInv
  <2> SUFFICES ASSUME Init PROVE ManagerInv
    OBVIOUS
  <2>1. TypeOK
    BY ManagerAssumption DEF Init, TypeOK, DriverStates, TickStates
  <2>2. \A i \in Personas : Placed(i)
    BY DEF Init, Placed
  <2>3. \A p \in Pods : responders(p) = {}
    BY DEF Init, responders
  <2>4. \A p \in Pods : Room(p)
    BY <2>3, FS_EmptySet, ManagerAssumption DEF Init, Room
  <2>5. Faultless
    BY ManagerAssumption DEF Init, Faultless, OneLeader
  <2> QED BY <2>1, <2>2, <2>4, <2>5 DEF ManagerInv
<1> QED BY <1>1, ManagerKept, PTL DEF Spec

\* A persona that answers is in the map of its pod, where reapAll and trimming find it,
\* and no map passes MaxResponders.
THEOREM NoOrphanHolds == Spec => []NoOrphan
<1>1. ManagerInv => NoOrphan
  BY PoolFacts DEF ManagerInv, NoOrphan, Placed, Room
<1> QED BY <1>1, ManagerInvariance, PTL

\* Until something fails, a tick leaves no more personas running than there were people
\* when it counted (countHumans, ensureResponders).
THEOREM CountCorrectHolds == Spec => []CountCorrect
<1>1. ManagerInv => CountCorrect
  <2> SUFFICES ASSUME ManagerInv, faults = 0, NEW p \in Pods, lease = p, tick[p] = "idle"
               PROVE  Cardinality(Running) <= seen
    BY DEF CountCorrect, Running
  <2> QED BY DEF ManagerInv, Faultless, Counts
<1> QED BY <1>1, ManagerInvariance, PTL
=============================================================================
