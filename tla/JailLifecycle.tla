---------------------------- MODULE JailLifecycle -----------------------------
(***************************************************************************)
(* The resources of the sessions on the host: a ZFS clone, a jail and its  *)
(* rctl rules each, created and removed by commands any of which may fail, *)
(* and found again by jaild after it was killed.                           *)
(*                                                                         *)
(*   crates/servers/jaild/src/main.rs     main                             *)
(*   crates/servers/jaild/src/session.rs  SessionManager::create, the end  *)
(*                                        of pump                          *)
(*   crates/servers/jaild/src/jail.rs     sweep, spawn, spawn_sync,        *)
(*       spawn_inner, cleanup_sync, clear_rctl_rules,                      *)
(*       wait_for_jail_removal, cleanup_orphaned_session_rctl_rules        *)
(*                                                                         *)
(* Session ids are counted from 1 in every run of jaild, so the name of a  *)
(* jail, its dataset and its rules may be left over from an earlier run.   *)
(* What is prepared inside the jail between the rules and the fork is one  *)
(* step that may fail; mount points and retired templates are left out.    *)
(***************************************************************************)
EXTENDS Naturals, FiniteSets

CONSTANTS Ips,         \* peers
          MaxSid,      \* bound: sessions per run of jaild
          MaxRuns,     \* bound: runs of jaild
          Limits,      \* rctl rules of a jail (4)
          MaxTotal,    \* quota.max_total
          MaxPerIp,    \* quota.max_per_ip
          None

ASSUME LifecycleAssumption ==
    /\ MaxSid \in Nat /\ MaxRuns \in Nat /\ Limits \in Nat \ {0}
    /\ MaxTotal \in Nat /\ MaxPerIp \in Nat
    /\ None \notin Ips

Sids == 1 .. MaxSid

VARIABLES
    run,      \* runs of jaild so far
    phase,    \* "down", "sweep" or "up"
    next,     \* NEXT_SID
    table,    \* the peer of each session that takes a quota slot, or None
    task,     \* the step of the task that works on a session
    todo,     \* datasets the sweep has yet to reclaim
    \* on the host:
    dataset,  \* the clone exists
    jail,     \* "none", "alive" or "dying"
    rules,    \* rctl rules for the name
    guest,    \* processes run in the jail
    failed    \* history: a command that removes a resource failed, in any run

memVars  == <<run, phase, next, table, task, todo>>
hostVars == <<dataset, jail, rules, guest>>
histVars == <<failed>>
vars == <<memVars, hostVars, histVars>>

To(s, step) == task' = [task EXCEPT ![s] = step]

(* A removing command fails and is only logged. *)
Fails == failed' = TRUE

-----------------------------------------------------------------------------
(* SessionManager::create: the slot is taken before the jail is built. *)

Occupied == {s \in Sids : table[s] # None}
OccupiedBy(ip) == {s \in Sids : table[s] = ip}

HasQuota(ip) ==
    /\ Cardinality(Occupied) < MaxTotal
    /\ Cardinality(OccupiedBy(ip)) < MaxPerIp

Create(ip) ==
    /\ phase = "up"
    /\ next \in Sids
    /\ next' = next + 1
    /\ IF HasQuota(ip)
       THEN /\ table' = [table EXCEPT ![next] = ip]
            /\ To(next, "sync")
       ELSE UNCHANGED <<table, task>>
    /\ UNCHANGED <<run, phase, todo, hostVars, histVars>>

(* create's error path and the end of pump: the slot is given back. *)
Leave(s) ==
    /\ table' = [table EXCEPT ![s] = None]
    /\ To(s, "none")

-----------------------------------------------------------------------------
(* spawn: the first comments sync, then spawn_sync's checks, which refuse   *)
(* the session without touching anything.                                   *)

Sync(s) ==
    /\ task[s] = "sync"
    /\ \/ To(s, "preflight") /\ UNCHANGED table
       \/ Leave(s)
    /\ UNCHANGED <<run, phase, next, todo, hostVars, histVars>>

(* Mutant: stale rules are kept. *)
PreflightKeepsRules(s) ==
    /\ task[s] = "preflight"
    /\ jail[s] = "none" /\ To(s, "clone") /\ UNCHANGED <<table, rules>>
    /\ UNCHANGED <<run, phase, next, todo, dataset, jail, guest, histVars>>

Preflight(s) ==
    /\ task[s] = "preflight"
    /\ \/ jail[s] = "none" /\ rules' = [rules EXCEPT ![s] = 0]
          /\ To(s, "clone") /\ UNCHANGED table
       \/ Leave(s) /\ UNCHANGED rules      \* a live jail, or jls or rctl failed
    /\ UNCHANGED <<run, phase, next, todo, dataset, jail, guest, histVars>>

(* Mutant: a clone that cannot be set up is not cleaned up. *)
CloneLeaks(s) ==
    /\ task[s] = "clone"
    /\ ~dataset[s] /\ dataset' = [dataset EXCEPT ![s] = TRUE]
    /\ To(s, "jail") \/ To(s, "leave")
    /\ UNCHANGED <<run, phase, next, table, todo, jail, rules, guest, histVars>>

(* Any failure from here on goes to cleanup_sync. *)
Clone(s) ==
    /\ task[s] = "clone"
    /\ \/ ~dataset[s] /\ dataset' = [dataset EXCEPT ![s] = TRUE]
          /\ \/ To(s, "jail")
             \/ To(s, "remove")            \* readonly, quota, mountpoint
       \/ UNCHANGED dataset /\ To(s, "remove")
    /\ UNCHANGED <<run, phase, next, table, todo, jail, rules, guest, histVars>>

CreateJail(s) ==
    /\ task[s] = "jail"
    /\ \/ jail' = [jail EXCEPT ![s] = "alive"] /\ \/ To(s, "limit")
                                                  \/ To(s, "remove")   \* no jid
       \/ UNCHANGED jail /\ To(s, "remove")
    /\ UNCHANGED <<run, phase, next, table, todo, dataset, rules, guest, histVars>>

(* Mutant: off by one. *)
AddRuleExtra(s) ==
    /\ task[s] = "limit"
    /\ IF rules[s] <= Limits THEN rules' = [rules EXCEPT ![s] = @ + 1] /\ UNCHANGED task
       ELSE To(s, "fork") /\ UNCHANGED rules
    /\ UNCHANGED <<run, phase, next, table, todo, dataset, jail, guest, histVars>>

(* One rctl -a after the other. *)
AddRule(s) ==
    /\ task[s] = "limit"
    /\ \/ /\ rules[s] < Limits
          /\ rules' = [rules EXCEPT ![s] = @ + 1]
          /\ UNCHANGED task
       \/ rules[s] = Limits /\ To(s, "fork") /\ UNCHANGED rules
       \/ To(s, "remove") /\ UNCHANGED rules
    /\ UNCHANGED <<run, phase, next, table, todo, dataset, jail, guest, histVars>>

(* Manifests, snapshots and FIFOs, then the shell. *)
Fork(s) ==
    /\ task[s] = "fork"
    /\ \/ To(s, "running") /\ guest' = [guest EXCEPT ![s] = TRUE]
       \/ To(s, "remove") /\ UNCHANGED guest
    /\ UNCHANGED <<run, phase, next, table, todo, dataset, jail, rules, histVars>>

-----------------------------------------------------------------------------
(* Mutant: the slot is given back when the shell is gone. *)
EndReleases(s) ==
    /\ task[s] = "running"
    /\ table' = [table EXCEPT ![s] = None]
    /\ To(s, "remove")
    /\ UNCHANGED <<run, phase, next, todo, hostVars, histVars>>

(* The end of pump, after the shell was reaped.  Other processes of the     *)
(* jail may be left.                                                        *)
End(s) ==
    /\ task[s] = "running"
    /\ To(s, "remove")
    /\ UNCHANGED <<run, phase, next, table, todo, hostVars, histVars>>

(* cleanup_sync, called by spawn_sync, pump and sweep. *)

RemoveJail(s) ==
    /\ task[s] = "remove"
    /\ To(s, "unlimit")
    /\ \/ /\ jail' = [jail EXCEPT ![s] = IF @ = "none" THEN "none" ELSE "dying"]
          /\ UNCHANGED histVars
       \/ jail[s] = "alive" /\ UNCHANGED jail /\ Fails
    /\ UNCHANGED <<run, phase, next, table, todo, dataset, rules, guest>>

(* Mutant: the rules go whether or not the jail is gone. *)
RemoveRulesAnyway(s) ==
    /\ task[s] = "unlimit"
    /\ To(s, "destroy")
    /\ rules' = [rules EXCEPT ![s] = 0]
    /\ UNCHANGED <<run, phase, next, table, todo, dataset, jail, guest, histVars>>

(* wait_for_jail_removal has a bound: then the rules stay.                  *)
RemoveRules(s) ==
    /\ task[s] = "unlimit"
    /\ To(s, "destroy")
    /\ \/ /\ jail[s] = "none"
          /\ rules' = [rules EXCEPT ![s] = 0] /\ UNCHANGED histVars
       \/ jail[s] # "none" /\ UNCHANGED <<rules, histVars>>
       \/ Fails /\ UNCHANGED rules
    /\ UNCHANGED <<run, phase, next, table, todo, dataset, jail, guest>>

Destroy(s) ==
    /\ task[s] = "destroy"
    /\ To(s, "leave")
    /\ \/ dataset' = [dataset EXCEPT ![s] = FALSE] /\ UNCHANGED histVars
       \/ dataset[s] /\ UNCHANGED dataset /\ Fails
    /\ UNCHANGED <<run, phase, next, table, todo, jail, rules, guest>>

(* The slot is given back; in the sweep, the next dataset follows. *)
Released(s) ==
    /\ task[s] = "leave"
    /\ Leave(s)
    /\ UNCHANGED <<run, phase, next, todo, hostVars, histVars>>

-----------------------------------------------------------------------------
(* jaild is killed: its memory is gone, the host keeps the rest. *)
Crash ==
    /\ phase # "down"
    /\ phase' = "down"
    /\ table' = [s \in Sids |-> None]
    /\ task' = [s \in Sids |-> "none"]
    /\ todo' = {}
    /\ UNCHANGED <<run, next, hostVars, histVars>>

(* main: sweep lists the datasets; without zfs there is nothing to list. *)
Start ==
    /\ phase = "down"
    /\ run < MaxRuns
    /\ run' = run + 1
    /\ next' = 1
    /\ phase' = "sweep"
    /\ \/ todo' = {s \in Sids : dataset[s]} /\ UNCHANGED failed
       \/ todo' = {} /\ failed' = TRUE
    /\ UNCHANGED <<table, task, hostVars>>

Idle == \A s \in Sids : task[s] = "none"

SweepDataset(s) ==
    /\ phase = "sweep"
    /\ Idle
    /\ s \in todo
    /\ todo' = todo \ {s}
    /\ To(s, "remove")
    /\ UNCHANGED <<run, phase, next, table, hostVars, histVars>>

(* cleanup_orphaned_session_rctl_rules: the rules of a name go only if no   *)
(* jail has it; a command that fails leaves some.                           *)
Orphans == {s \in Sids : rules[s] > 0 /\ jail[s] = "none"}

SweepRules ==
    /\ phase = "sweep"
    /\ Idle
    /\ todo = {}
    /\ \E S \in SUBSET Orphans :
          /\ rules' = [s \in Sids |-> IF s \in S THEN 0 ELSE rules[s]]
          /\ IF S = Orphans THEN UNCHANGED histVars ELSE Fails
    /\ phase' = "up"
    /\ UNCHANGED <<run, next, table, task, todo, dataset, jail, guest>>

(* A dying jail's processes exit; then it is gone. *)
JailGone(s) ==
    /\ jail[s] = "dying"
    /\ jail' = [jail EXCEPT ![s] = "none"]
    /\ guest' = [guest EXCEPT ![s] = FALSE]
    /\ UNCHANGED <<memVars, dataset, rules, histVars>>

-----------------------------------------------------------------------------
Init ==
    /\ run = 0 /\ phase = "down" /\ next = 1 /\ todo = {}
    /\ table = [s \in Sids |-> None] /\ task = [s \in Sids |-> "none"]
    /\ dataset = [s \in Sids |-> FALSE] /\ jail = [s \in Sids |-> "none"]
    /\ rules = [s \in Sids |-> 0] /\ guest = [s \in Sids |-> FALSE]
    /\ failed = FALSE

Spawn(s) == Sync(s) \/ Preflight(s) \/ Clone(s) \/ CreateJail(s) \/ AddRule(s) \/ Fork(s)

CleanUp(s) == RemoveJail(s) \/ RemoveRules(s) \/ Destroy(s) \/ Released(s)

Next ==
    \/ \E ip \in Ips : Create(ip)
    \/ \E s \in Sids : Spawn(s) \/ End(s) \/ CleanUp(s) \/ SweepDataset(s) \/ JailGone(s)
    \/ Start \/ SweepRules \/ Crash

Spec == Init /\ [][Next]_vars
-----------------------------------------------------------------------------
Steps == {"none", "sync", "preflight", "clone", "jail", "limit", "fork", "running",
          "remove", "unlimit", "destroy", "leave"}

(* Every variable has its type; no name ever has more rules than Limits,    *)
(* so what an earlier session left never adds to a new one's.               *)
TypeOK ==
    /\ run \in 0 .. MaxRuns /\ phase \in {"down", "sweep", "up"}
    /\ next \in 1 .. MaxSid + 1 /\ todo \subseteq Sids
    /\ table \in [Sids -> Ips \cup {None}] /\ task \in [Sids -> Steps]
    /\ dataset \in [Sids -> BOOLEAN] /\ jail \in [Sids -> {"none", "alive", "dying"}]
    /\ rules \in [Sids -> 0 .. Limits] /\ guest \in [Sids -> BOOLEAN]
    /\ failed \in BOOLEAN

(* "Rather no session than a jail without limits": no process ever runs in  *)
(* a jail without all of its rules, whichever commands fail, whenever jaild *)
(* is killed, and however long the jail takes to die.                       *)
NoUnlimitedGuest == \A s \in Sids : guest[s] => jail[s] # "none" /\ rules[s] = Limits

(* The quota is one of jails, not of table entries: unless a removal        *)
(* failed, no more than max_total jails are alive, across restarts.         *)
JailsWithinQuota ==
    ~failed => Cardinality({s \in Sids : jail[s] = "alive"}) <= MaxTotal

(* A jail that is created finds no rules of its name: the accounting of an  *)
(* earlier session with the same id, of this run of jaild or another, is    *)
(* never carried into it.                                                   *)
FreshAccounting ==
    [][\A s \in Sids : jail[s] = "none" /\ jail'[s] = "alive" => rules[s] = 0]_vars

(* Unless a removal failed, once jaild accepts sessions every dataset is    *)
(* one that a session still works on.                                       *)
DatasetsReclaimed ==
    ~failed /\ phase = "up" => \A s \in Sids : dataset[s] => task[s] # "none"
=============================================================================
