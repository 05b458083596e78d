------------------------- MODULE JailLifecycleProofs --------------------------
(***************************************************************************)
(* Theorems about JailLifecycle, for any number of peers, session ids,     *)
(* runs of jaild and rules.                                                *)
(*                                                                         *)
(* NoUnlimitedGuest is not inductive: a fork is safe because the task that *)
(* does it has seen the jail created and every rule added, and nothing     *)
(* else touches a name between these steps.  TaskOK says so.               *)
(***************************************************************************)
EXTENDS JailLifecycle, FiniteSetTheorems, TLAPS

(* What the host holds for a session while its task builds it. *)
TaskOK ==
    \A s \in Sids :
        /\ task[s] \in {"clone", "jail"} => jail[s] = "none" /\ rules[s] = 0
        /\ task[s] \in {"limit", "fork"} => jail[s] = "alive"
        /\ task[s] = "fork" => rules[s] = Limits

IInv == TypeOK /\ TaskOK /\ NoUnlimitedGuest

-----------------------------------------------------------------------------
(* The initial state: no session, nothing on the host. *)
LEMMA InitIInv == Init => IInv
  <1> SUFFICES ASSUME Init PROVE IInv
    OBVIOUS
  <1>1. TypeOK
    <2>1. run \in 0 .. MaxRuns /\ next \in 1 .. MaxSid + 1
      BY LifecycleAssumption DEF Init, Steps, Sids
    <2>2. phase \in {"down", "sweep", "up"} /\ todo \subseteq Sids
      BY LifecycleAssumption DEF Init, Steps, Sids
    <2>3. table \in [Sids -> Ips \cup {None}]
      BY LifecycleAssumption DEF Init, Steps, Sids
    <2>4. task \in [Sids -> Steps]
      BY LifecycleAssumption DEF Init, Steps, Sids
    <2>5. dataset \in [Sids -> BOOLEAN] /\ guest \in [Sids -> BOOLEAN]
      BY LifecycleAssumption DEF Init, Steps, Sids
    <2>6. jail \in [Sids -> {"none", "alive", "dying"}]
      BY LifecycleAssumption DEF Init, Steps, Sids
    <2>7. rules \in [Sids -> 0 .. Limits]
      BY LifecycleAssumption DEF Init, Steps, Sids
    <2>8. failed \in BOOLEAN
      BY LifecycleAssumption DEF Init, Steps, Sids
    <2> QED BY <2>1, <2>2, <2>3, <2>4, <2>5, <2>6, <2>7, <2>8 DEF TypeOK
  <1>2. TaskOK /\ NoUnlimitedGuest
    BY DEF Init, TaskOK, NoUnlimitedGuest
  <1> QED BY <1>1, <1>2 DEF IInv

(* Every step of jaild, of the kernel and of the world keeps the types. *)
LEMMA NextType == TypeOK /\ [Next]_vars => TypeOK'
  <1> SUFFICES ASSUME TypeOK, [Next]_vars PROVE TypeOK'
    OBVIOUS
  <1> USE LifecycleAssumption DEF TypeOK, Sids, Steps
  <1>1. ASSUME NEW ip \in Ips, Create(ip) PROVE TypeOK'
    <2>1. run' \in 0 .. MaxRuns /\ next' \in 1 .. MaxSid + 1
      BY <1>1 DEF Create, To, hostVars, histVars
    <2>2. phase' \in {"down", "sweep", "up"} /\ todo' \subseteq Sids
      BY <1>1 DEF Create, To, hostVars, histVars
    <2>3. table' \in [Sids -> Ips \cup {None}]
      BY <1>1 DEF Create, To, hostVars, histVars
    <2>4. task' \in [Sids -> Steps]
      BY <1>1 DEF Create, To, hostVars, histVars
    <2>5. dataset' \in [Sids -> BOOLEAN] /\ guest' \in [Sids -> BOOLEAN]
      BY <1>1 DEF Create, To, hostVars, histVars
    <2>6. jail' \in [Sids -> {"none", "alive", "dying"}]
      BY <1>1 DEF Create, To, hostVars, histVars
    <2>7. rules' \in [Sids -> 0 .. Limits]
      BY <1>1 DEF Create, To, hostVars, histVars
    <2>8. failed' \in BOOLEAN
      BY <1>1 DEF Create, To, hostVars, histVars
    <2> QED BY <2>1, <2>2, <2>3, <2>4, <2>5, <2>6, <2>7, <2>8
  <1>2. ASSUME NEW s \in Sids, Spawn(s) PROVE TypeOK'
    <2>1. CASE Sync(s)
      BY <2>1 DEF Sync, Leave, To, hostVars, histVars
    <2>2. CASE Preflight(s)
      <3>1. run' \in 0 .. MaxRuns /\ next' \in 1 .. MaxSid + 1
        BY <2>2 DEF Preflight, Leave, To, histVars
      <3>2. phase' \in {"down", "sweep", "up"} /\ todo' \subseteq Sids
        BY <2>2 DEF Preflight, Leave, To, histVars
      <3>3. table' \in [Sids -> Ips \cup {None}]
        BY <2>2 DEF Preflight, Leave, To, histVars
      <3>4. task' \in [Sids -> Steps]
        BY <2>2 DEF Preflight, Leave, To, histVars
      <3>5. dataset' \in [Sids -> BOOLEAN] /\ guest' \in [Sids -> BOOLEAN]
        BY <2>2 DEF Preflight, Leave, To, histVars
      <3>6. jail' \in [Sids -> {"none", "alive", "dying"}]
        BY <2>2 DEF Preflight, Leave, To, histVars
      <3>7. rules' \in [Sids -> 0 .. Limits]
        BY <2>2 DEF Preflight, Leave, To, histVars
      <3>8. failed' \in BOOLEAN
        BY <2>2 DEF Preflight, Leave, To, histVars
      <3> QED BY <3>1, <3>2, <3>3, <3>4, <3>5, <3>6, <3>7, <3>8
    <2>3. CASE Clone(s)
      BY <2>3 DEF Clone, To, histVars
    <2>4. CASE CreateJail(s)
      BY <2>4 DEF CreateJail, To, histVars
    <2>5. CASE AddRule(s)
      BY <2>5, SMTT(30) DEF AddRule, To, histVars
    <2>6. CASE Fork(s)
      BY <2>6 DEF Fork, To, histVars
    <2> QED BY <1>2, <2>1, <2>2, <2>3, <2>4, <2>5, <2>6 DEF Spawn
  <1>3. ASSUME NEW s \in Sids, End(s) PROVE TypeOK'
    BY <1>3 DEF End, To, hostVars, histVars
  <1>4. ASSUME NEW s \in Sids, CleanUp(s) PROVE TypeOK'
    <2>1. CASE RemoveJail(s)
      BY <2>1 DEF RemoveJail, Fails, To, histVars
    <2>2. CASE RemoveRules(s)
      <3>1. run' \in 0 .. MaxRuns /\ next' \in 1 .. MaxSid + 1
        BY <2>2 DEF RemoveRules, Fails, To, histVars
      <3>2. phase' \in {"down", "sweep", "up"} /\ todo' \subseteq Sids
        BY <2>2 DEF RemoveRules, Fails, To, histVars
      <3>3. table' \in [Sids -> Ips \cup {None}]
        BY <2>2 DEF RemoveRules, Fails, To, histVars
      <3>4. task' \in [Sids -> Steps]
        BY <2>2 DEF RemoveRules, Fails, To, histVars
      <3>5. dataset' \in [Sids -> BOOLEAN] /\ guest' \in [Sids -> BOOLEAN]
        BY <2>2 DEF RemoveRules, Fails, To, histVars
      <3>6. jail' \in [Sids -> {"none", "alive", "dying"}]
        BY <2>2 DEF RemoveRules, Fails, To, histVars
      <3>7. rules' \in [Sids -> 0 .. Limits]
        BY <2>2 DEF RemoveRules, Fails, To, histVars
      <3>8. failed' \in BOOLEAN
        BY <2>2 DEF RemoveRules, Fails, To, histVars
      <3> QED BY <3>1, <3>2, <3>3, <3>4, <3>5, <3>6, <3>7, <3>8
    <2>3. CASE Destroy(s)
      BY <2>3 DEF Destroy, Fails, To, histVars
    <2>4. CASE Released(s)
      BY <2>4 DEF Released, Leave, To, hostVars, histVars
    <2> QED BY <1>4, <2>1, <2>2, <2>3, <2>4 DEF CleanUp
  <1>5. ASSUME NEW s \in Sids, SweepDataset(s) PROVE TypeOK'
    BY <1>5 DEF SweepDataset, To, hostVars, histVars
  <1>6. ASSUME NEW s \in Sids, JailGone(s) PROVE TypeOK'
    BY <1>6 DEF JailGone, memVars, histVars
  <1>7. CASE Start
    <2>1. run' \in 0 .. MaxRuns /\ next' \in 1 .. MaxSid + 1
      BY <1>7 DEF Start, hostVars
    <2>2. phase' \in {"down", "sweep", "up"} /\ todo' \subseteq Sids
      BY <1>7 DEF Start, hostVars
    <2>3. table' \in [Sids -> Ips \cup {None}]
      BY <1>7 DEF Start, hostVars
    <2>4. task' \in [Sids -> Steps]
      BY <1>7 DEF Start, hostVars
    <2>5. dataset' \in [Sids -> BOOLEAN] /\ guest' \in [Sids -> BOOLEAN]
      BY <1>7 DEF Start, hostVars
    <2>6. jail' \in [Sids -> {"none", "alive", "dying"}]
      BY <1>7 DEF Start, hostVars
    <2>7. rules' \in [Sids -> 0 .. Limits]
      BY <1>7 DEF Start, hostVars
    <2>8. failed' \in BOOLEAN
      BY <1>7 DEF Start, hostVars
    <2> QED BY <2>1, <2>2, <2>3, <2>4, <2>5, <2>6, <2>7, <2>8
  <1>8. CASE SweepRules
    <2>1. run' \in 0 .. MaxRuns /\ next' \in 1 .. MaxSid + 1
      BY <1>8 DEF SweepRules, Fails, histVars
    <2>2. phase' \in {"down", "sweep", "up"} /\ todo' \subseteq Sids
      BY <1>8 DEF SweepRules, Fails, histVars
    <2>3. table' \in [Sids -> Ips \cup {None}]
      BY <1>8 DEF SweepRules, Fails, histVars
    <2>4. task' \in [Sids -> Steps]
      BY <1>8 DEF SweepRules, Fails, histVars
    <2>5. dataset' \in [Sids -> BOOLEAN] /\ guest' \in [Sids -> BOOLEAN]
      BY <1>8 DEF SweepRules, Fails, histVars
    <2>6. jail' \in [Sids -> {"none", "alive", "dying"}]
      BY <1>8 DEF SweepRules, Fails, histVars
    <2>7. rules' \in [Sids -> 0 .. Limits]
      BY <1>8 DEF SweepRules, Fails, histVars
    <2>8. failed' \in BOOLEAN
      BY <1>8 DEF SweepRules, Fails, histVars
    <2> QED BY <2>1, <2>2, <2>3, <2>4, <2>5, <2>6, <2>7, <2>8
  <1>9. CASE Crash
    BY <1>9 DEF Crash, hostVars, histVars
  <1>10. CASE UNCHANGED vars
    BY <1>10 DEF vars, memVars, hostVars, histVars
  <1> QED BY <1>1, <1>2, <1>3, <1>4, <1>5, <1>6, <1>7, <1>8, <1>9, <1>10 DEF Next

(* Every step keeps what a building task relies on, and the limits. *)
LEMMA NextTask == IInv /\ [Next]_vars => TaskOK' /\ NoUnlimitedGuest'
  <1> SUFFICES ASSUME IInv, [Next]_vars PROVE TaskOK' /\ NoUnlimitedGuest'
    OBVIOUS
  <1> USE LifecycleAssumption DEF IInv, TypeOK, TaskOK, NoUnlimitedGuest
  <1>1. ASSUME NEW ip \in Ips, Create(ip) PROVE TaskOK' /\ NoUnlimitedGuest'
    BY <1>1 DEF Create, To, hostVars
  <1>2. ASSUME NEW s \in Sids, Spawn(s) PROVE TaskOK' /\ NoUnlimitedGuest'
    <2>1. CASE Sync(s)
      BY <2>1 DEF Sync, Leave, To, hostVars
    <2>2. CASE Preflight(s)
      BY <2>2 DEF Preflight, Leave, To
    <2>3. CASE Clone(s)
      BY <2>3 DEF Clone, To
    <2>4. CASE CreateJail(s)
      BY <2>4 DEF CreateJail, To
    <2>5. CASE AddRule(s)
      BY <2>5 DEF AddRule, To
    <2>6. CASE Fork(s)
      BY <2>6 DEF Fork, To
    <2> QED BY <1>2, <2>1, <2>2, <2>3, <2>4, <2>5, <2>6 DEF Spawn
  <1>3. ASSUME NEW s \in Sids, End(s) PROVE TaskOK' /\ NoUnlimitedGuest'
    BY <1>3 DEF End, To, hostVars
  <1>4. ASSUME NEW s \in Sids, CleanUp(s) PROVE TaskOK' /\ NoUnlimitedGuest'
    <2>1. CASE RemoveJail(s)
      BY <2>1 DEF RemoveJail, To
    <2>2. CASE RemoveRules(s)
      BY <2>2 DEF RemoveRules, To
    <2>3. CASE Destroy(s)
      BY <2>3 DEF Destroy, To
    <2>4. CASE Released(s)
      BY <2>4 DEF Released, Leave, To, hostVars
    <2> QED BY <1>4, <2>1, <2>2, <2>3, <2>4 DEF CleanUp
  <1>5. ASSUME NEW s \in Sids, SweepDataset(s) PROVE TaskOK' /\ NoUnlimitedGuest'
    BY <1>5 DEF SweepDataset, To, hostVars
  <1>6. ASSUME NEW s \in Sids, JailGone(s) PROVE TaskOK' /\ NoUnlimitedGuest'
    BY <1>6 DEF JailGone, memVars
  <1>7. CASE Start
    BY <1>7 DEF Start, hostVars
  <1>8. CASE SweepRules
    BY <1>8 DEF SweepRules, Idle, Orphans
  <1>9. CASE Crash
    BY <1>9 DEF Crash, hostVars
  <1>10. CASE UNCHANGED vars
    BY <1>10 DEF vars, memVars, hostVars
  <1> QED BY <1>1, <1>2, <1>3, <1>4, <1>5, <1>6, <1>7, <1>8, <1>9, <1>10 DEF Next

(* The invariant holds in every reachable state. *)
LEMMA Inductive == Spec => []IInv
  <1>1. IInv /\ [Next]_vars => IInv'
    BY NextType, NextTask DEF IInv
  <1> QED BY InitIInv, <1>1, PTL DEF Spec

-----------------------------------------------------------------------------
(* The types: in particular no name ever has more rules than Limits. *)
THEOREM TypeCorrect == Spec => []TypeOK
  <1>1. IInv => TypeOK
    BY DEF IInv
  <1> QED BY Inductive, <1>1, PTL

(* No guest process ever runs without all the rules of its jail, whichever *)
(* commands fail and whenever jaild is killed (jail.rs: fail-closed, and   *)
(* rules removed only when the jail is gone).                              *)
THEOREM LimitsAlwaysHold == Spec => []NoUnlimitedGuest
  <1>1. IInv => NoUnlimitedGuest
    BY DEF IInv
  <1> QED BY Inductive, <1>1, PTL

(* A jail never starts with rules an earlier session of the same id left   *)
(* (jail.rs, spawn_sync's preflight).                                      *)
THEOREM AccountingIsFresh == Spec => FreshAccounting
  <1> DEFINE Fresh == \A s \in Sids : jail[s] = "none" /\ jail'[s] = "alive" => rules[s] = 0
  <1>1. IInv /\ [Next]_vars => [Fresh]_vars
    <2> SUFFICES ASSUME IInv, Next, NEW t \in Sids, jail[t] = "none", jail'[t] = "alive"
                 PROVE rules[t] = 0
      OBVIOUS
    <2> USE DEF IInv, TypeOK
    <2>1. ASSUME NEW s \in Sids, CreateJail(s) PROVE rules[t] = 0
      BY <2>1 DEF CreateJail, TaskOK
    <2>2. ASSUME NEW s \in Sids, RemoveJail(s) PROVE rules[t] = 0
      BY <2>2 DEF RemoveJail
    <2>3. ASSUME NEW s \in Sids, JailGone(s) PROVE rules[t] = 0
      BY <2>3 DEF JailGone
    <2>4. ASSUME jail' = jail PROVE rules[t] = 0
      BY <2>4
    <2>5. \/ jail' = jail
          \/ \E s \in Sids : CreateJail(s) \/ RemoveJail(s) \/ JailGone(s)
      BY DEF Next, Create, Spawn, Sync, Preflight, Clone, AddRule, Fork, End, CleanUp,
             RemoveRules, Destroy, Released, SweepDataset, Start, SweepRules, Crash, hostVars
    <2> QED BY <2>1, <2>2, <2>3, <2>4, <2>5
  <1> QED BY Inductive, <1>1, PTL DEF Spec, FreshAccounting

-----------------------------------------------------------------------------
(* The quota and the datasets.  A slot is taken exactly as long as a task   *)
(* works on the session, and as long as no removal fails a task that gives  *)
(* its slot back leaves neither an alive jail nor a dataset.                *)
Removing == {"remove", "unlimit", "destroy", "leave"}

SlotTask ==
    /\ phase # "up" => \A s \in Sids : task[s] \in Removing \cup {"none"} /\ table[s] = None
    /\ phase = "up" => \A s \in Sids : task[s] # "none" => table[s] # None
    /\ phase = "up" => \A s \in Sids : s >= next => task[s] = "none"

SlotsOK == Cardinality(Occupied) <= MaxTotal

CleanOK ==
    ~failed =>
        \A s \in Sids :
            /\ jail[s] = "alive" => dataset[s]
            /\ task[s] \in {"jail", "limit", "fork", "running"} => dataset[s]
            /\ task[s] \in {"unlimit", "destroy", "leave"} => jail[s] # "alive"
            /\ task[s] \in {"sync", "preflight", "clone", "leave"} => ~dataset[s]
            /\ phase = "up" /\ task[s] = "none" => ~dataset[s]
            /\ phase = "sweep" /\ task[s] = "none" /\ dataset[s] => s \in todo

(* Every step keeps a slot for every task, and none without one. *)
LEMMA NextSlotTask == TypeOK /\ SlotTask /\ [Next]_vars => SlotTask'
  <1> SUFFICES ASSUME TypeOK, SlotTask, [Next]_vars PROVE SlotTask'
    OBVIOUS
  <1> USE LifecycleAssumption DEF TypeOK, SlotTask, Removing, Sids
  <1>1. ASSUME NEW ip \in Ips, Create(ip) PROVE SlotTask'
    BY <1>1 DEF Create, To, hostVars, histVars
  <1>2. ASSUME NEW s \in Sids, Spawn(s) PROVE SlotTask'
    <2>1. CASE Sync(s)
      BY <2>1 DEF Sync, Leave, To, hostVars, histVars
    <2>2. CASE Preflight(s)
      BY <2>2 DEF Preflight, Leave, To, histVars
    <2>3. CASE Clone(s)
      BY <2>3 DEF Clone, To, histVars
    <2>4. CASE CreateJail(s)
      BY <2>4 DEF CreateJail, To, histVars
    <2>5. CASE AddRule(s)
      BY <2>5 DEF AddRule, To, histVars
    <2>6. CASE Fork(s)
      BY <2>6 DEF Fork, To, histVars
    <2> QED BY <1>2, <2>1, <2>2, <2>3, <2>4, <2>5, <2>6 DEF Spawn
  <1>3. ASSUME NEW s \in Sids, End(s) PROVE SlotTask'
    BY <1>3 DEF End, To, hostVars, histVars
  <1>4. ASSUME NEW s \in Sids, CleanUp(s) PROVE SlotTask'
    <2>1. CASE RemoveJail(s)
      BY <2>1 DEF RemoveJail, Fails, To, histVars
    <2>2. CASE RemoveRules(s)
      BY <2>2 DEF RemoveRules, Fails, To, histVars
    <2>3. CASE Destroy(s)
      BY <2>3 DEF Destroy, Fails, To, histVars
    <2>4. CASE Released(s)
      BY <2>4 DEF Released, Leave, To, hostVars, histVars
    <2> QED BY <1>4, <2>1, <2>2, <2>3, <2>4 DEF CleanUp
  <1>5. ASSUME NEW s \in Sids, SweepDataset(s) PROVE SlotTask'
    BY <1>5 DEF SweepDataset, To, hostVars, histVars
  <1>6. ASSUME NEW s \in Sids, JailGone(s) PROVE SlotTask'
    BY <1>6 DEF JailGone, memVars, histVars
  <1>7. CASE Start
    BY <1>7 DEF Start, hostVars
  <1>8. CASE SweepRules
    BY <1>8 DEF SweepRules, Idle, Fails, histVars
  <1>9. CASE Crash
    BY <1>9 DEF Crash, hostVars, histVars
  <1>10. CASE UNCHANGED vars
    BY <1>10 DEF vars, memVars, hostVars, histVars
  <1> QED BY <1>1, <1>2, <1>3, <1>4, <1>5, <1>6, <1>7, <1>8, <1>9, <1>10 DEF Next

(* Sets of session ids are finite; a smaller one has no more elements. *)
LEMMA SidsFinite ==
    ASSUME NEW T, T \subseteq Sids, NEW U, U \subseteq T
    PROVE  /\ IsFiniteSet(T) /\ IsFiniteSet(U)
           /\ Cardinality(T) \in Nat /\ Cardinality(U) \in Nat
           /\ Cardinality(U) <= Cardinality(T)
  <1>1. IsFiniteSet(Sids)
    BY LifecycleAssumption, FS_Interval DEF Sids
  <1>2. IsFiniteSet(T)
    BY <1>1, FS_Subset
  <1> QED BY <1>2, FS_Subset, FS_CardinalityType

(* No step takes a slot beyond the quota. *)
LEMMA NextSlots ==
    TypeOK /\ SlotTask /\ Cardinality(Occupied) <= MaxTotal /\ [Next]_vars
        => Cardinality(Occupied') <= MaxTotal
  <1> SUFFICES ASSUME TypeOK, SlotTask, Cardinality(Occupied) <= MaxTotal, [Next]_vars
               PROVE Cardinality(Occupied') <= MaxTotal
    OBVIOUS
  <1>1. ASSUME Occupied' \subseteq Occupied PROVE Cardinality(Occupied') <= MaxTotal
    <2>1. Occupied \subseteq Sids
      BY DEF Occupied
    <2> QED BY <1>1, <2>1, SidsFinite, LifecycleAssumption
  <1>2. ASSUME table' = table PROVE Cardinality(Occupied') <= MaxTotal
    <2>1. Occupied' = Occupied
      BY <1>2 DEF Occupied
    <2> QED BY <2>1
  <1>3. ASSUME NEW s \in Sids, table' = [table EXCEPT ![s] = None]
        PROVE Cardinality(Occupied') <= MaxTotal
    <2>1. Occupied' \subseteq Occupied
      BY <1>3 DEF Occupied, TypeOK
    <2> QED BY <1>1, <2>1
  <1>4. ASSUME table' = [s \in Sids |-> None] PROVE Cardinality(Occupied') <= MaxTotal
    <2>1. Occupied' \subseteq Occupied
      BY <1>4 DEF Occupied
    <2> QED BY <1>1, <2>1
  <1>5. ASSUME NEW ip \in Ips, next \in Sids, HasQuota(ip), table' = [table EXCEPT ![next] = ip]
        PROVE Cardinality(Occupied') <= MaxTotal
    <2>1. Occupied' = Occupied \cup {next}
      BY <1>5, LifecycleAssumption DEF Occupied, TypeOK
    <2>2. IsFiniteSet(Occupied) /\ Cardinality(Occupied) \in Nat
      BY SidsFinite DEF Occupied
    <2>3. next \in Occupied => Occupied \cup {next} = Occupied
      OBVIOUS
    <2>4. Cardinality(Occupied) < MaxTotal
      BY <1>5 DEF HasQuota
    <2>5. next \notin Occupied => Cardinality(Occupied \cup {next}) = Cardinality(Occupied) + 1
      BY <2>2, FS_AddElement
    <2>6. CASE next \in Occupied
      BY <2>1, <2>3, <2>6
    <2>7. CASE next \notin Occupied
      <3>1. Cardinality(Occupied') = Cardinality(Occupied) + 1
        BY <2>1, <2>5, <2>7
      <3>2. Cardinality(Occupied) + 1 <= MaxTotal
        BY <2>2, <2>4, LifecycleAssumption
      <3> QED BY <3>1, <3>2
    <2> QED BY <2>6, <2>7
  <1>6. \/ table' = table
        \/ \E s \in Sids : table' = [table EXCEPT ![s] = None]
        \/ table' = [s \in Sids |-> None]
        \/ \E ip \in Ips : next \in Sids /\ HasQuota(ip) /\ table' = [table EXCEPT ![next] = ip]
    BY DEF Next, vars, memVars, Create, Spawn, Sync, Preflight, Clone, CreateJail, AddRule, Fork, End,
           CleanUp, RemoveJail, RemoveRules, Destroy, Released, Leave, SweepDataset, JailGone,
           Start, SweepRules, Crash
  <1> QED BY <1>2, <1>3, <1>4, <1>5, <1>6

(* The next session id is one no task works on. *)
LEMMA NextIsFresh == TypeOK /\ SlotTask /\ phase = "up" /\ next \in Sids => task[next] = "none"
  <1> SUFFICES ASSUME SlotTask, phase = "up", next \in Sids PROVE task[next] = "none"
    OBVIOUS
  <1>1. next >= next
    BY LifecycleAssumption DEF Sids
  <1>2. \A s \in Sids : s >= next => task[s] = "none"
    BY DEF SlotTask
  <1> QED BY <1>1, <1>2

(* As long as no removal fails, every step keeps the host clean. *)
LEMMA NextClean == TypeOK /\ SlotTask /\ CleanOK /\ [Next]_vars => CleanOK'
  <1> SUFFICES ASSUME TypeOK, SlotTask, CleanOK, [Next]_vars PROVE CleanOK'
    OBVIOUS
  <1> USE LifecycleAssumption DEF TypeOK, SlotTask, CleanOK, Removing, Sids
  <1>1. ASSUME NEW ip \in Ips, Create(ip) PROVE CleanOK'
    <2>1. CASE task' = task
      BY <1>1, <2>1 DEF Create, hostVars, histVars
    <2>2. CASE task' = [task EXCEPT ![next] = "sync"]
      <3>1. next \in Sids /\ task[next] = "none"
        BY <1>1, NextIsFresh DEF Create
      <3>2. ~failed => ~dataset[next]
        BY <1>1, <3>1 DEF Create
      <3> QED BY <1>1, <2>2, <3>1, <3>2 DEF Create, hostVars, histVars
    <2> QED BY <1>1, <2>1, <2>2 DEF Create, To
  <1>2. ASSUME NEW s \in Sids, Spawn(s) PROVE CleanOK'
    <2>1. CASE Sync(s)
      BY <2>1 DEF Sync, Leave, To, hostVars, histVars
    <2>2. CASE Preflight(s)
      BY <2>2 DEF Preflight, Leave, To, histVars
    <2>3. CASE Clone(s)
      BY <2>3 DEF Clone, To, histVars
    <2>4. CASE CreateJail(s)
      BY <2>4 DEF CreateJail, To, histVars
    <2>5. CASE AddRule(s)
      BY <2>5 DEF AddRule, To, histVars
    <2>6. CASE Fork(s)
      BY <2>6 DEF Fork, To, histVars
    <2> QED BY <1>2, <2>1, <2>2, <2>3, <2>4, <2>5, <2>6 DEF Spawn
  <1>3. ASSUME NEW s \in Sids, End(s) PROVE CleanOK'
    BY <1>3 DEF End, To, hostVars, histVars
  <1>4. ASSUME NEW s \in Sids, CleanUp(s) PROVE CleanOK'
    <2>1. CASE RemoveJail(s)
      BY <2>1 DEF RemoveJail, Fails, To, histVars
    <2>2. CASE RemoveRules(s)
      BY <2>2 DEF RemoveRules, Fails, To, histVars
    <2>3. CASE Destroy(s)
      BY <2>3 DEF Destroy, Fails, To, histVars
    <2>4. CASE Released(s)
      BY <2>4 DEF Released, Leave, To, hostVars, histVars
    <2> QED BY <1>4, <2>1, <2>2, <2>3, <2>4 DEF CleanUp
  <1>5. ASSUME NEW s \in Sids, SweepDataset(s) PROVE CleanOK'
    BY <1>5 DEF SweepDataset, To, hostVars, histVars
  <1>6. ASSUME NEW s \in Sids, JailGone(s) PROVE CleanOK'
    BY <1>6 DEF JailGone, memVars, histVars
  <1>7. CASE Start
    <2>1. CASE todo' = {s \in Sids : dataset[s]} /\ failed' = failed
      <3> SUFFICES ASSUME ~failed, NEW t \in Sids
                   PROVE /\ (task[t] = "none" /\ dataset[t] => t \in todo')
                         /\ (jail[t] = "alive" => dataset[t])
                         /\ (task[t] \in {"jail", "limit", "fork", "running"} => dataset[t])
                         /\ (task[t] \in {"unlimit", "destroy", "leave"} => jail[t] # "alive")
                         /\ (task[t] \in {"sync", "preflight", "clone", "leave"} => ~dataset[t])
        BY <1>7, <2>1 DEF Start, hostVars
      <3> QED BY <2>1
    <2>2. CASE failed' = TRUE
      BY <2>2
    <2> QED BY <1>7, <2>1, <2>2 DEF Start
  <1>8. CASE SweepRules
    BY <1>8 DEF SweepRules, Idle, Fails, histVars
  <1>9. CASE Crash
    BY <1>9 DEF Crash, hostVars, histVars
  <1>10. CASE UNCHANGED vars
    BY <1>10 DEF vars, memVars, hostVars, histVars
  <1> QED BY <1>1, <1>2, <1>3, <1>4, <1>5, <1>6, <1>7, <1>8, <1>9, <1>10 DEF Next

(* While jaild accepts sessions, an alive jail has a slot of its own.       *)
LEMMA UpWithinQuota == SlotTask /\ SlotsOK /\ CleanOK /\ phase = "up" => JailsWithinQuota
  <1> SUFFICES ASSUME SlotTask, SlotsOK, CleanOK, phase = "up", ~failed
               PROVE Cardinality({s \in Sids : jail[s] = "alive"}) <= MaxTotal
    BY DEF JailsWithinQuota
  <1>1. {s \in Sids : jail[s] = "alive"} \subseteq Occupied
    BY DEF SlotTask, CleanOK, Occupied
  <1>2. Occupied \subseteq Sids
    BY DEF Occupied
  <1> QED BY <1>1, <1>2, SidsFinite, LifecycleAssumption DEF SlotsOK

(* Only a task that builds a session adds an alive jail. *)
LEMMA NextQuota ==
    /\ TypeOK /\ SlotTask /\ JailsWithinQuota /\ [Next]_vars
    /\ SlotTask' /\ SlotsOK' /\ CleanOK'
    => JailsWithinQuota'
  <1> SUFFICES ASSUME TypeOK, SlotTask, JailsWithinQuota, [Next]_vars,
                      SlotTask', SlotsOK', CleanOK', ~failed'
               PROVE JailsWithinQuota'
    BY DEF JailsWithinQuota
  <1> DEFINE Alive == {s \in Sids : jail[s] = "alive"}
  <1>1. CASE phase' = "up"
    <2>1. (SlotTask /\ SlotsOK /\ CleanOK /\ phase = "up" => JailsWithinQuota)'
      BY UpWithinQuota, PTL
    <2> QED BY <1>1, <2>1
  <1>2. CASE phase' # "up"
    <2>1. ~failed
      BY DEF Next, vars, histVars, Create, Spawn, Sync, Preflight, Clone, CreateJail, AddRule, Fork,
             End, CleanUp, RemoveJail, RemoveRules, Destroy, Released, SweepDataset, JailGone,
             Start, SweepRules, Crash, Fails
    <2>2. \/ jail' = jail
          \/ \E s \in Sids : CreateJail(s) \/ RemoveJail(s) \/ JailGone(s)
      BY DEF Next, vars, Create, Spawn, Sync, Preflight, Clone, AddRule, Fork, End, CleanUp,
             RemoveRules, Destroy, Released, SweepDataset, Start, SweepRules, Crash, hostVars
    <2>3. ASSUME NEW s \in Sids, CreateJail(s) PROVE FALSE
      BY <1>2, <2>3 DEF CreateJail, SlotTask, Removing
    <2>4. Alive' \subseteq Alive
      <3>1. CASE jail' = jail
        BY <3>1
      <3>2. ASSUME NEW s \in Sids, RemoveJail(s) \/ JailGone(s) PROVE Alive' \subseteq Alive
        BY <3>2 DEF RemoveJail, JailGone, TypeOK
      <3> QED BY <2>2, <2>3, <3>1, <3>2
    <2>5. Cardinality(Alive) <= MaxTotal
      BY <2>1 DEF JailsWithinQuota
    <2>6. Alive \subseteq Sids
      OBVIOUS
    <2>7. Cardinality(Alive') <= MaxTotal
      <3> HIDE DEF Alive
      <3> QED BY <2>4, <2>5, <2>6, SidsFinite, LifecycleAssumption
    <2> QED BY <2>7 DEF JailsWithinQuota
  <1> QED BY <1>1, <1>2

HInv == IInv /\ SlotTask /\ SlotsOK /\ CleanOK /\ JailsWithinQuota

(* Nothing is on the host and no slot is taken at first. *)
LEMMA InitHInv == Init => HInv
  <1> SUFFICES ASSUME Init PROVE HInv
    OBVIOUS
  <1>1. SlotTask /\ CleanOK
    BY DEF Init, SlotTask, CleanOK, Removing
  <1>2. Occupied = {} /\ {s \in Sids : jail[s] = "alive"} = {}
    BY DEF Init, Occupied
  <1>3. SlotsOK /\ JailsWithinQuota
    BY <1>2, FS_EmptySet, LifecycleAssumption DEF SlotsOK, JailsWithinQuota
  <1> QED BY <1>1, <1>3, InitIInv DEF HInv

(* HInv is inductive. *)
LEMMA HostInductive == Spec => []HInv
  <1>1. HInv /\ [Next]_vars => HInv'
    <2> SUFFICES ASSUME HInv, [Next]_vars PROVE HInv'
      OBVIOUS
    <2>1. IInv'
      BY NextType, NextTask DEF HInv, IInv
    <2>2. SlotTask' /\ SlotsOK' /\ CleanOK'
      BY NextSlotTask, NextSlots, NextClean DEF HInv, IInv, SlotsOK
    <2>3. JailsWithinQuota'
      BY <2>2, NextQuota DEF HInv, IInv
    <2> QED BY <2>1, <2>2, <2>3 DEF HInv
  <1> QED BY InitHInv, <1>1, PTL DEF Spec

(* Unless a removal failed, no more than max_total jails are alive, however *)
(* sessions, kills and restarts of jaild interleave.                        *)
THEOREM QuotaBoundsJails == Spec => []JailsWithinQuota
  <1>1. HInv => JailsWithinQuota
    BY DEF HInv
  <1> QED BY HostInductive, <1>1, PTL

(* Unless a removal failed, no dataset outlives its session or the sweep.   *)
THEOREM DatasetsAreReclaimed == Spec => []DatasetsReclaimed
  <1>1. HInv => DatasetsReclaimed
    BY DEF HInv, CleanOK, DatasetsReclaimed
  <1> QED BY HostInductive, <1>1, PTL
=============================================================================
