----------------------------- MODULE CommentLog ------------------------------
(***************************************************************************)
(* What commentd promises its callers, without files, memory, handlers or  *)
(* failures: one growing list of comments.  Comments are added at its end, *)
(* a pending one is decided once, and acknowledgements speak of what is in *)
(* the list.  What was never acknowledged may disappear again.             *)
(***************************************************************************)
EXTENDS Naturals, Sequences

CONSTANTS Targets, Ips, Texts, Clock, MaxId

VARIABLES
    log,       \* the comments, in the order of their ids
    acked,     \* those whose submitter was told so
    decided    \* <<id, status>> of the decisions their moderator was told of

vars == <<log, acked, decided>>

Statuses == {"Pending", "Approved", "Deleted"}

Comments == [id : 1 .. MaxId, target : Targets, text : Texts, ip : Ips, at : Clock,
             reply : 0 .. MaxId, status : Statuses]

SameComment(c, d) == [c EXCEPT !.status = "Pending"] = [d EXCEPT !.status = "Pending"]

Has(cs, c) == \E i \in DOMAIN cs : SameComment(cs[i], c)
Decision(cs, e) == \E i \in DOMAIN cs : cs[i].id = e[1] /\ cs[i].status = e[2]

Init == log = <<>> /\ acked = {} /\ decided = {}

(* A comment comes after all others; a reply names an approved comment of   *)
(* the same target.                                                         *)
Add(c) ==
    /\ c.status = "Pending"
    /\ \A i \in DOMAIN log : log[i].id < c.id
    /\ c.reply # 0 => \E i \in DOMAIN log :
          log[i].id = c.reply /\ log[i].target = c.target /\ log[i].status = "Approved"
    /\ log' = Append(log, c)
    /\ UNCHANGED <<acked, decided>>

(* Some pending comments are decided, all alike. *)
Decide(status) ==
    /\ DOMAIN log' = DOMAIN log
    /\ \A i \in DOMAIN log :
          \/ log'[i] = log[i]
          \/ log[i].status = "Pending" /\ log'[i] = [log[i] EXCEPT !.status = status]
    /\ UNCHANGED <<acked, decided>>

(* Only what is in the list is acknowledged. *)
Acknowledge ==
    /\ acked \subseteq acked' /\ decided \subseteq decided'
    /\ \A c \in acked' : Has(log, c)
    /\ \A e \in decided' : Decision(log, e)
    /\ UNCHANGED log

(* The list falls back to an earlier state that lacks nothing acknowledged. *)
Forget ==
    /\ Len(log') <= Len(log)
    /\ \A i \in DOMAIN log' :
          SameComment(log'[i], log[i]) /\ log'[i].status \in {"Pending", log[i].status}
    /\ \A c \in acked : Has(log', c)
    /\ \A e \in decided : Decision(log', e)
    /\ UNCHANGED <<acked, decided>>

Next ==
    \/ \E c \in Comments : Add(c)
    \/ \E status \in {"Approved", "Deleted"} : Decide(status)
    \/ Acknowledge
    \/ Forget

Spec == Init /\ [][Next]_vars
=============================================================================
