--------------------------- MODULE PersonaManager ---------------------------
(***************************************************************************)
(* The manager of the AI personas, backend/internal/persona/manager.go, on *)
(* every pod, with the lease of pgredis/persona.go that elects the leader: *)
(* how many personas run and where.  The questions that the end of a tick  *)
(* may post, and what a persona says to the backend, are module            *)
(* PersonaWork.                                                            *)
(*                                                                         *)
(* A tick makes several calls of the backend and takes the manager's mutex *)
(* more than once; each is a step, and drivers, the other pods, people who *)
(* come and go, crashes and the lease's clock act in between.              *)
(* OnlineResponderCount counts people and personas alike, so a tick infers *)
(* the number of people.  Presence of a persona lasts while its driver is  *)
(* registered, and after a crash until presenceTTL has passed; a late      *)
(* heartbeat of a live pod is left to module PgRedis.                      *)
(***************************************************************************)
EXTENDS Integers, FiniteSets, FiniteSetsExt

CONSTANTS
  Pods,            \* instances of the server
  Personas,        \* persona sessions; an id is used again once it is gone
  MaxPeople,       \* bound on the people that are online
  MaxResponders,   \* cfg.MaxResponders
  MaxFaults,       \* bound on ends of processes, errors, and delays past a deadline
  None             \* no pod

ASSUME ManagerAssumption ==
  /\ IsFiniteSet(Pods) /\ IsFiniteSet(Personas) /\ None \notin Pods
  /\ MaxPeople \in Nat /\ MaxFaults \in Nat
  /\ MaxResponders \in Nat \ {0}
  \* enough sessions for every pod, so that no tick waits for one
  /\ Cardinality(Personas) >= MaxResponders * Cardinality(Pods)

VARIABLES
  lease,    \* the leader key: a pod, None, or "old" for a process that is gone
  people,   \* the number of people online
  seen,     \* history: the people online when a tick last counted, before any fault
  driver,   \* persona -> what its goroutine runResponder is doing
  home,     \* persona -> the pod it runs on
  mapped,   \* the keys of m.responders, of all pods
  tick,     \* pod -> where its tick is
  count,    \* pod -> the number the tick has at hand: online, want, left to start
  ending,   \* pods that have got SIGTERM
  faults    \* the faults so far

poolVars == <<driver, home, mapped>>
tickVars == <<tick, count>>
vars == <<lease, people, seen, poolVars, tickVars, ending, faults>>

\* "registered" before it is in the map, "unregistered" before it leaves the map,
\* "lost" when its pod has died and its presence has not expired.
DriverStates == {"off", "registered", "running", "cancelled", "unregistered", "lost"}
TickStates == {"idle", "counting", "counted", "trimming", "starting"}

Present == {i \in Personas : driver[i] \in {"registered", "running", "cancelled", "lost"}}
responders(p) == {i \in mapped : home[i] = p}

Init ==
  /\ lease = None
  /\ people = 0
  /\ seen = 0
  /\ driver = [i \in Personas |-> "off"]
  /\ home = [i \in Personas |-> None]
  /\ mapped = {}
  /\ tick = [p \in Pods |-> "idle"]
  /\ count = [p \in Pods |-> 0]
  /\ ending = {}
  /\ faults = 0

Goto(p, state, n) ==
  /\ tick' = [tick EXCEPT ![p] = state]
  /\ count' = [count EXCEPT ![p] = n]

Fault == faults < MaxFaults /\ faults' = faults + 1

\* Cancelling a driver that is on its way out already changes nothing.
Cancel(drivers) ==
  [i \in Personas |-> IF i \in drivers /\ driver[i] = "running" THEN "cancelled"
                                                                ELSE driver[i]]

reapAll(p) == driver' = Cancel(responders(p))

-----------------------------------------------------------------------------
(* tick *)

\* A cancelled driver is gone before the next tick, which is PollInterval later,
\* unless a call of the backend hangs.
Unwinding(p) == {i \in Personas : home[i] = p /\ driver[i] \in {"cancelled", "unregistered"}}

\* personaLeaseScript: the key is free or already held by this pod.  Others reap.
TryPersonaLeaderKeeping(p) ==
  /\ tick[p] = "idle"
  /\ p \notin ending
  /\ lease \in {None, p}
  /\ lease' = p
  /\ Goto(p, "counting", 0)
  /\ UNCHANGED <<people, seen, poolVars, ending, faults>>
TryPersonaLeader(p) ==
  /\ tick[p] = "idle"
  /\ p \notin ending
  /\ IF Unwinding(p) = {} THEN UNCHANGED faults ELSE Fault
  /\ IF lease \in {None, p}
       THEN /\ lease' = p
            /\ Goto(p, "counting", 0)
            /\ UNCHANGED driver
       ELSE /\ reapAll(p)
            /\ UNCHANGED <<lease, tickVars>>
  /\ UNCHANGED <<people, seen, home, mapped, ending>>

\* An error of Redis is a refusal.
TryPersonaLeaderFails(p) ==
  /\ tick[p] = "idle"
  /\ p \notin ending
  /\ Fault
  /\ reapAll(p)
  /\ UNCHANGED <<lease, people, seen, home, mapped, tickVars, ending>>

OnlineResponderCount(p) ==
  /\ tick[p] = "counting"
  /\ Goto(p, "counted", people + Cardinality(Present))
  /\ seen' = IF faults = 0 THEN people ELSE 0
  /\ UNCHANGED <<lease, people, poolVars, ending, faults>>

\* The read of Redis fails and counts nobody.
OnlineResponderCountFails(p) ==
  /\ tick[p] = "counting"
  /\ Fault
  /\ Goto(p, "counted", 0)
  /\ UNCHANGED <<lease, people, seen, poolVars, ending>>

\* Everyone online less this pod's personas, a second read.
countEveryone(p) ==
  /\ tick[p] = "counted"
  /\ IF count[p] < 1
       THEN reapAll(p) /\ Goto(p, "idle", 0)
       ELSE Goto(p, "trimming", Min({count[p], MaxResponders})) /\ UNCHANGED driver
  /\ UNCHANGED <<lease, people, seen, home, mapped, ending, faults>>
countHumansWithoutReaping(p) ==
  LET humans == count[p] - Cardinality(responders(p))
  IN /\ tick[p] = "counted"
     /\ IF humans < 1 THEN Goto(p, "idle", 0)
                      ELSE Goto(p, "trimming", Min({humans, MaxResponders}))
     /\ UNCHANGED <<lease, people, seen, poolVars, ending, faults>>
countHumans(p) ==
  LET humans == count[p] - Cardinality(responders(p))
  IN /\ tick[p] = "counted"
     /\ IF humans < 1
          THEN reapAll(p) /\ Goto(p, "idle", 0)
          ELSE /\ Goto(p, "trimming", Min({humans, MaxResponders}))
               /\ UNCHANGED driver
     /\ UNCHANGED <<lease, people, seen, home, mapped, ending, faults>>

\* The surplus leaves the map before its drivers have unwound.
trimWithoutCancel(p) ==
  LET have == Cardinality(responders(p))
      want == count[p]
  IN /\ tick[p] = "trimming"
     /\ \E trim \in SUBSET responders(p) :
          /\ Cardinality(trim) = Max({have - want, 0})
          /\ mapped' = mapped \ trim
     /\ IF have < want THEN Goto(p, "starting", want - have) ELSE Goto(p, "idle", 0)
     /\ UNCHANGED <<lease, people, seen, driver, home, ending, faults>>
trimResponders(p) ==
  LET have == Cardinality(responders(p))
      want == count[p]
  IN /\ tick[p] = "trimming"
     /\ \E trim \in SUBSET responders(p) :
          /\ Cardinality(trim) = Max({have - want, 0})
          /\ mapped' = mapped \ trim
          /\ driver' = Cancel(trim)
     /\ IF have < want THEN Goto(p, "starting", want - have) ELSE Goto(p, "idle", 0)
     /\ UNCHANGED <<lease, people, seen, home, ending, faults>>

NextStart(p) ==
  IF count[p] > 1 THEN Goto(p, "starting", count[p] - 1) ELSE Goto(p, "idle", 0)

\* startResponder: RegisterResponder of a new session, then its entry in the map
\* and its goroutine.
startResponder(p) ==
  LET fresh == CHOOSE i \in Personas : driver[i] = "off"
      own == {i \in Personas : driver[i] = "registered" /\ home[i] = p}
  IN /\ tick[p] = "starting"
     /\ \/ /\ own = {}
           /\ \E i \in Personas : driver[i] = "off"
           /\ driver' = [driver EXCEPT ![fresh] = "registered"]
           /\ home' = [home EXCEPT ![fresh] = p]
           /\ UNCHANGED <<mapped, tickVars>>
        \/ \E i \in own :
             /\ mapped' = mapped \cup {i}
             /\ driver' = [driver EXCEPT ![i] = "running"]
             /\ UNCHANGED home
             /\ NextStart(p)
     /\ UNCHANGED <<lease, people, seen, ending, faults>>

startResponderFails(p) ==
  /\ tick[p] = "starting"
  /\ \A i \in Personas : driver[i] = "registered" => home[i] # p
  /\ Fault
  /\ NextStart(p)
  /\ UNCHANGED <<lease, people, seen, poolVars, ending>>

-----------------------------------------------------------------------------
(* The goroutines of the manager *)

\* Any end of a driver: its context is cancelled, by the tick or by the process.
unregister(i) ==
  /\ \/ driver[i] = "cancelled"
     \/ driver[i] = "running" /\ home[i] \in ending
  /\ driver' = [driver EXCEPT ![i] = "unregistered"]
  /\ UNCHANGED <<lease, people, seen, home, mapped, tickVars, ending, faults>>

leaveMap(i) ==
  /\ driver[i] = "unregistered"
  /\ driver' = [driver EXCEPT ![i] = "off"]
  /\ home' = [home EXCEPT ![i] = None]
  /\ mapped' = mapped \ {i}
  /\ UNCHANGED <<lease, people, seen, tickVars, ending, faults>>

-----------------------------------------------------------------------------
(* People, processes and clocks *)

PeopleCome ==
  /\ people < MaxPeople
  /\ people' = people + 1
  /\ UNCHANGED <<lease, seen, poolVars, tickVars, ending, faults>>

PeopleGo ==
  /\ people > 0
  /\ people' = people - 1
  /\ UNCHANGED <<lease, seen, poolVars, tickVars, ending, faults>>

\* SIGTERM cancels the context of Run; a tick that is under way goes on.
Terminate(p) ==
  /\ p \notin ending
  /\ Fault
  /\ ending' = ending \cup {p}
  /\ UNCHANGED <<lease, people, seen, poolVars, tickVars>>

\* A process ends and is replaced by one with a new podID.  main does not wait for
\* the drivers: those it has not unregistered are online until presenceTTL.
Exit(p) ==
  /\ IF p \in ending THEN UNCHANGED faults
                     ELSE Fault
  /\ ending' = ending \ {p}
  /\ lease' = IF lease = p THEN "old" ELSE lease
  /\ LET own == {i \in Personas : home[i] = p}
     IN /\ driver' = [i \in Personas |-> IF i \notin own THEN driver[i]
                                         ELSE IF i \in Present THEN "lost" ELSE "off"]
        /\ home' = [i \in Personas |-> IF i \in own THEN None ELSE home[i]]
        /\ mapped' = mapped \ own
  /\ Goto(p, "idle", 0)
  /\ UNCHANGED <<people, seen>>

PresenceExpires(i) ==
  /\ driver[i] = "lost"
  /\ driver' = [driver EXCEPT ![i] = "off"]
  /\ UNCHANGED <<lease, people, seen, home, mapped, tickVars, ending, faults>>

\* The lease of a live pod that is late to renew it runs out as well.
LeaseExpires ==
  /\ lease # None
  /\ lease' = None
  /\ IF lease \in Pods THEN Fault
                       ELSE UNCHANGED faults
  /\ UNCHANGED <<people, seen, poolVars, tickVars, ending>>

-----------------------------------------------------------------------------
Tick(p) ==
  \/ TryPersonaLeader(p) \/ OnlineResponderCount(p) \/ countHumans(p)
  \/ trimResponders(p) \/ startResponder(p)

Next ==
  \/ \E p \in Pods :
       \/ Tick(p) \/ TryPersonaLeaderFails(p)
       \/ OnlineResponderCountFails(p) \/ startResponderFails(p)
       \/ Terminate(p) \/ Exit(p)
  \/ \E i \in Personas : unregister(i) \/ leaveMap(i) \/ PresenceExpires(i)
  \/ PeopleCome \/ PeopleGo \/ LeaseExpires

Spec == Init /\ [][Next]_vars

\* A process that is up goes on ticking, its drivers run, one that was
\* told to end does, and presence and leases that nobody renews expire.
Fairness ==
  /\ \A p \in Pods : WF_vars(Tick(p)) /\ WF_vars(p \in ending /\ Exit(p))
  /\ \A i \in Personas : WF_vars(unregister(i) \/ leaveMap(i) \/ PresenceExpires(i))
  /\ WF_vars(lease = "old" /\ LeaseExpires)

FairSpec == Spec /\ Fairness

-----------------------------------------------------------------------------
(* Properties *)

\* The shapes of the variables.
TypeOK ==
  /\ lease \in Pods \cup {None, "old"}
  /\ people \in 0..MaxPeople
  /\ seen \in 0..MaxPeople
  /\ driver \in [Personas -> DriverStates]
  /\ home \in [Personas -> Pods \cup {None}]
  /\ mapped \in SUBSET Personas
  /\ tick \in [Pods -> TickStates]
  /\ count \in [Pods -> Int]
  /\ ending \in SUBSET Pods
  /\ faults \in 0..MaxFaults

\* A persona that answers can be stopped: its cancel function is in the map of its
\* pod (reapAll and trimming know no other), and the map never passes the
\* configured number, whatever leaves it between two reads of a tick.
NoOrphan ==
  /\ \A i \in Personas : driver[i] = "running" => i \in mapped /\ home[i] \in Pods
  /\ \A p \in Pods : Cardinality(responders(p)) <= MaxResponders

\* "scaled to (and never exceeding) the human pool": while nothing fails, the
\* personas that a tick leaves running are no more than the people who were online
\* when it counted, although it counts people and personas together and its own
\* personas later ("Correct on a single pod").
CountCorrect ==
  faults = 0 =>
    \A p \in Pods :
      lease = p /\ tick[p] = "idle" =>
        Cardinality({i \in Personas : driver[i] = "running"}) <= seen

\* "nobody real is around; don't fabricate activity": once people stay away every
\* persona leaves for good, on whichever pod it runs and however leadership moved,
\* although lingering personas were counted as people ("it self-heals").
EmptyHouse ==
  <>[](people = 0) => <>[](Present = {})

\* "exactly one instance runs personas": a pod that is not the leader any more
\* loses its personas, unless it becomes the leader again.
DemotedReaps ==
  \A p \in Pods :
    <>[](lease # p) => <>[](\A i \in Present : home[i] # p)
=============================================================================
