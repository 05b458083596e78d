---------------------------- MODULE CommentStore -----------------------------
(***************************************************************************)
(* commentd, the only writer of the comment database: one JSONL file that  *)
(* is replaced as a whole by every change (temporary file, fsync, rename,  *)
(* fsync of the directory), one request per connection, one lock.          *)
(*                                                                         *)
(*   crates/servers/commentd/src/store.rs    Store                         *)
(*   crates/servers/commentd/src/server.rs   handle                        *)
(*   crates/servers/commentd/src/client.rs   Client::all                   *)
(*   crates/servers/jaild/src/session.rs     comment_worker, the submitter *)
(*                                                                         *)
(* The contents of the file are a sequence of comments; a revision is the  *)
(* hash of the contents, here the contents themselves.  A submitted line   *)
(* is what normalize_line makes of it: nothing (rejected), or a text and   *)
(* the public number it replies to.  Authors, wording and control          *)
(* characters are left out.  The wall clock may step in both directions.   *)
(***************************************************************************)
EXTENDS Naturals, Sequences, FiniteSets

CONSTANTS Targets,     \* comment targets (directories)
          Ips,         \* submitters, by ip_hash
          Texts,       \* comment bodies
          Handlers,    \* connection handlers of the server
          Readers,     \* clients that page through Client::all(PRIVATE_SYNC)
          None,
          MaxId,       \* u64::MAX
          Clock,       \* wall-clock readings, a set of naturals
          RateLimit,   \* 10
          RateWindow,  \* 3600 s
          DupWindow,   \* 300 s
          PageLimit,   \* MAX_LIMIT
          MaxTries     \* the 5 rounds of Client::all

ASSUME ConstAssumption ==
    /\ None \notin Handlers
    /\ MaxId \in Nat
    /\ Clock \subseteq Nat
    /\ RateLimit \in Nat /\ RateWindow \in Nat /\ DupWindow \in Nat
    /\ PageLimit \in Nat \ {0}
    /\ MaxTries \in Nat \ {0}

VARIABLES
    (* The file system. *)
    laid,      \* how many of salt, data and marker files exist
    initing,   \* Store::init is at work
    file,      \* contents of comments.jsonl as the running system sees them
    disks,     \* contents a power loss may leave, until the directory is synced
    (* The server process. *)
    up, mem, poisoned,
    hpc,       \* a handler: "idle", "commit" (has the lock), "reply" or "check"
    cand,      \* the candidate it commits
    resp,      \* its response
    reader,    \* the state of each reader
    (* History. *)
    acked,     \* comments whose submission was acknowledged
    decided    \* <<id, status>> of acknowledged moderations

diskVars  == <<laid, initing, file, disks>>
serverVars == <<up, mem, poisoned, hpc, cand, resp>>
histVars  == <<acked, decided>>
vars == <<diskVars, serverVars, reader, histVars>>

Statuses == {"Pending", "Approved", "Deleted"}

(* reply 0 stands for reply_to_id = None. *)
Comments == [id : 1 .. MaxId, target : Targets, text : Texts, ip : Ips, at : Clock,
             reply : 0 .. MaxId, status : Statuses]

(* No revision is not a revision. *)
ASSUME NoneAssumption == None \notin Seq(Comments)

NoResp == [kind |-> "none"]

Responses ==
    [kind : {"none", "error", "reject", "view"}]
        \cup [kind : {"submitted"}, comment : Comments]
        \cup [kind : {"moderated"}, ids : SUBSET (1 .. MaxId), status : Statuses]

-----------------------------------------------------------------------------
(* What the store computes from its contents. *)

ApprovedIn(cs, t) == {i \in DOMAIN cs : cs[i].status = "Approved" /\ cs[i].target = t}

(* Mutant: pending comments have public numbers, too. *)
ResolveUndeleted(cs, t, n) ==
    LET open(i) == cs[i].status # "Deleted" /\ cs[i].target = t
    IN  {i \in DOMAIN cs : open(i) /\ Cardinality({j \in 1 .. i : open(j)}) = n}

(* resolve_reply_id: the index of the n-th approved comment of a target. *)
resolve_reply_id(cs, t, n) ==
    {i \in ApprovedIn(cs, t) : Cardinality({j \in ApprovedIn(cs, t) : j <= i}) = n}

(* validate_stored and the order test of open, and validate_relations. *)
IdsIncrease(cs) ==
    \A i \in DOMAIN cs : cs[i].id > 0 /\ (i > 1 => cs[i - 1].id < cs[i].id)

RelationsHold(cs) ==
    \A i \in DOMAIN cs : cs[i].reply # 0 =>
        \E j \in DOMAIN cs : /\ j < i
                             /\ cs[j].id = cs[i].reply
                             /\ cs[j].target = cs[i].target
                             /\ cs[j].status = "Approved"

Valid(cs) == IdsIncrease(cs) /\ RelationsHold(cs)

(* filter: the comments at the indexes keep, in order. *)
Filter(cs, keep) ==
    LET F[i \in 0 .. Len(cs)] ==
            IF i = 0 THEN <<>>
            ELSE IF i \in keep THEN Append(F[i - 1], cs[i]) ELSE F[i - 1]
    IN  F[Len(cs)]

(* What public_query hands to visible_comments ... *)
ApprovedOf(cs, t) == Filter(cs, ApprovedIn(cs, t))

(* ... which fails unless ids increase and parents come before replies ... *)
Visible(cs) ==
    /\ IdsIncrease(cs)
    /\ \A i \in DOMAIN cs : cs[i].reply # 0 =>
          \E j \in 1 .. i - 1 : cs[j].id = cs[i].reply /\ cs[j].target = cs[i].target

(* ... and numbers the comments of each target. *)
VisibleNumber(cs, i) == Cardinality({j \in 1 .. i : cs[j].target = cs[i].target})

(* |now - created_at| as signed_duration_since sees it: a comment from the  *)
(* future is recent.                                                        *)
Recent(c, now, window) == now <= c.at + window

RecentOf(cs, ip, now) ==
    {i \in DOMAIN cs : cs[i].ip = ip /\ Recent(cs[i], now, RateWindow)}

(* Mutant: deleted comments are not counted. *)
BelowRateLimitLive(cs, ip, now) ==
    Cardinality({i \in RecentOf(cs, ip, now) : cs[i].status # "Deleted"}) < RateLimit

BelowRateLimit(cs, ip, now) == Cardinality(RecentOf(cs, ip, now)) < RateLimit

Duplicate(cs, t, x, ip, r, now) ==
    \E i \in DOMAIN cs : /\ cs[i].ip = ip /\ cs[i].target = t /\ cs[i].text = x
                         /\ cs[i].reply = r /\ Recent(cs[i], now, DupWindow)

(* Mutant: the next id is not checked for overflow. *)
HasNextIdUnchecked(cs) == TRUE

(* The id after the last one, unless checked_add overflows. *)
NextId(cs) == IF cs = <<>> THEN 1 ELSE cs[Len(cs)].id + 1

HasNextId(cs) == NextId(cs) <= MaxId

(* Mutant: a decision may be taken again. *)
ModeratedAgain(cs, ids, status) ==
    [i \in DOMAIN cs |-> IF cs[i].id \in ids THEN [cs[i] EXCEPT !.status = status] ELSE cs[i]]

(* moderate: only pending comments are decided. *)
Moderated(cs, ids, status) ==
    [i \in DOMAIN cs |-> IF cs[i].status = "Pending" /\ cs[i].id \in ids
                         THEN [cs[i] EXCEPT !.status = status] ELSE cs[i]]

-----------------------------------------------------------------------------
(* The lock is held across a commit only: every other operation is one step.*)
LockFree == \A h \in Handlers : hpc[h] # "commit"

Ready(h) == up /\ hpc[h] = "idle" /\ LockFree

Answer(h, r) ==
    /\ hpc' = [hpc EXCEPT ![h] = "reply"]
    /\ resp' = [resp EXCEPT ![h] = r]

(* commit up to the rename: encode, create and write the temporary file,    *)
(* fsync it and rename it over the data file.  Any step before the rename   *)
(* may fail, which leaves everything as it was.                             *)
Commit(h, c, r) ==
    \/ /\ Answer(h, [kind |-> "error"])
       /\ UNCHANGED <<diskVars, cand>>
    \/ /\ file' = c
       /\ disks' = disks \cup {c}
       /\ cand' = [cand EXCEPT ![h] = c]
       /\ hpc' = [hpc EXCEPT ![h] = "commit"]
       /\ resp' = [resp EXCEPT ![h] = r]
       /\ UNCHANGED <<laid, initing>>

(* The directory is synced: memory takes over the candidate ... *)
CommitSynced(h) ==
    /\ up /\ hpc[h] = "commit"
    /\ disks' = {file}
    /\ mem' = cand[h]
    /\ hpc' = [hpc EXCEPT ![h] = "reply"]
    /\ cand' = [cand EXCEPT ![h] = <<>>]
    /\ UNCHANGED <<laid, initing, file, up, poisoned, resp, reader, histVars>>

(* Mutant: a failed sync of the directory is answered and forgotten. *)
CommitForgotten(h) ==
    /\ up /\ hpc[h] = "commit"
    /\ Answer(h, [kind |-> "error"])
    /\ cand' = [cand EXCEPT ![h] = <<>>]
    /\ UNCHANGED <<diskVars, up, mem, poisoned, reader, histVars>>

(* ... or it cannot be: the rename has happened, the memory is old, and the *)
(* store is poisoned.                                                       *)
CommitPoisons(h) ==
    /\ up /\ hpc[h] = "commit"
    /\ poisoned' = TRUE
    /\ Answer(h, [kind |-> "error"])
    /\ cand' = [cand EXCEPT ![h] = <<>>]
    /\ UNCHANGED <<diskVars, up, mem, reader, histVars>>

(* Store::submit.  n = 0: the line has no reply prefix. *)
SubmitReject(h) ==
    /\ Ready(h)
    /\ Answer(h, [kind |-> "reject"])
    /\ UNCHANGED <<diskVars, up, mem, poisoned, cand, reader, histVars>>

(* resolve_reply_id finds a parent, the source is below its rate limit, the *)
(* comment is no duplicate and an id is left.                               *)
Accepts(cs, t, x, ip, n, r, now) ==
    /\ \/ n = 0 /\ r = 0
       \/ n # 0 /\ \E i \in resolve_reply_id(cs, t, n) : r = cs[i].id
    /\ BelowRateLimit(cs, ip, now)
    /\ ~Duplicate(cs, t, x, ip, r, now)
    /\ HasNextId(cs)

submit(h, t, x, ip, n, r, now) ==
    /\ Ready(h)
    /\ ~poisoned
    /\ Accepts(mem, t, x, ip, n, r, now)
    /\ LET c == [id |-> NextId(mem), target |-> t, text |-> x, ip |-> ip, at |-> now,
                 reply |-> r, status |-> "Pending"]
       IN  Commit(h, Append(mem, c), [kind |-> "submitted", comment |-> c])
    /\ UNCHANGED <<up, mem, poisoned, reader, histVars>>

(* Store::moderate; nothing is written when nothing changes. *)
moderate(h, ids, status) ==
    /\ Ready(h)
    /\ ~poisoned
    /\ LET changed == {i \in DOMAIN mem : mem[i].status = "Pending" /\ mem[i].id \in ids}
           r == [kind |-> "moderated", ids |-> {mem[i].id : i \in changed}, status |-> status]
       IN  IF changed = {} THEN Answer(h, r) /\ UNCHANGED <<diskVars, cand>>
                           ELSE Commit(h, Moderated(mem, ids, status), r)
    /\ UNCHANGED <<up, mem, poisoned, reader, histVars>>

(* submit and moderate refuse to work once the store is poisoned. *)
RefusePoisoned(h) ==
    /\ Ready(h)
    /\ poisoned
    /\ Answer(h, [kind |-> "error"])
    /\ UNCHANGED <<diskVars, up, mem, poisoned, cand, reader, histVars>>

(* public_query: answered from memory; it does not look at poisoned. *)
public_query(h) ==
    /\ Ready(h)
    /\ Answer(h, [kind |-> "view"])
    /\ UNCHANGED <<diskVars, up, mem, poisoned, cand, reader, histVars>>

-----------------------------------------------------------------------------
(* handle: link.send delivers the response ... *)
Reply(h) ==
    /\ up /\ hpc[h] = "reply"
    /\ hpc' = [hpc EXCEPT ![h] = "check"]
    /\ resp' = [resp EXCEPT ![h] = NoResp]
    /\ acked' = IF resp[h].kind = "submitted" THEN acked \cup {resp[h].comment} ELSE acked
    /\ decided' = IF resp[h].kind = "moderated"
                  THEN decided \cup (resp[h].ids \X {resp[h].status}) ELSE decided
    /\ UNCHANGED <<diskVars, up, mem, poisoned, cand, reader>>

(* The process is gone.  A submitter that has no response yet hears         *)
(* "Comment not submitted: comments service temporarily unavailable".       *)
ProcessEnds ==
    /\ up' = FALSE
    /\ mem' = <<>>
    /\ poisoned' = FALSE
    /\ hpc' = [h \in Handlers |-> "idle"]
    /\ cand' = [h \in Handlers |-> <<>>]
    /\ resp' = [h \in Handlers |-> NoResp]

(* Mutant: the handler of a poisoned store ends itself, not the process. *)
CheckReturns(h) ==
    /\ up /\ hpc[h] = "check" /\ LockFree /\ ~poisoned
    /\ hpc' = [hpc EXCEPT ![h] = "idle"]
    /\ UNCHANGED <<diskVars, up, mem, poisoned, cand, resp, reader, histVars>>

(* ... and then exits the process if the store is poisoned. *)
CheckPoisoned(h) ==
    /\ up /\ hpc[h] = "check" /\ LockFree
    /\ IF poisoned
       THEN ProcessEnds
       ELSE /\ hpc' = [hpc EXCEPT ![h] = "idle"]
            /\ UNCHANGED <<up, mem, poisoned, cand, resp>>
    /\ UNCHANGED <<diskVars, reader, histVars>>

-----------------------------------------------------------------------------
(* Client::all: pages of at most PageLimit approved comments, all of one    *)
(* revision; a page of another revision starts the round again.             *)

Fresh(st, n) == [st |-> st, out |-> <<>>, rev |-> None, after |-> 0, tries |-> n]

ReaderIdle == Fresh("idle", 0)

AllStart(q) ==
    /\ reader[q].st \in {"idle", "done"}
    /\ reader' = [reader EXCEPT ![q] = Fresh("paging", 0)]
    /\ UNCHANGED <<diskVars, serverVars, histVars>>

(* The ids Store::page(after, approved) finds, in order. *)
ApprovedAfter(cs, after) ==
    Filter(cs, {i \in DOMAIN cs : cs[i].status = "Approved" /\ cs[i].id > after})

(* Mutant: the page does not compare revisions. *)
NeverStale(rev) == FALSE

(* Store::page: the revision the client pins is not the current one. *)
Stale(rev) == rev # None /\ rev # mem

(* One page; a stale round is given up and the next one begun, if any. *)
NextRound(tries) ==
    IF tries + 1 < MaxTries THEN Fresh("paging", tries + 1) ELSE ReaderIdle

AllPage(h, q) ==
    /\ Ready(h)
    /\ reader[q].st = "paging"
    /\ hpc' = [hpc EXCEPT ![h] = "check"]
    /\ LET r == reader[q]
           rest == ApprovedAfter(mem, r.after)
           more == Len(rest) > PageLimit
           page == IF more THEN SubSeq(rest, 1, PageLimit) ELSE rest
       IN
       reader' = [reader EXCEPT ![q] =
           IF Stale(r.rev) THEN NextRound(r.tries)
           ELSE [st |-> IF more THEN "paging" ELSE "done",
                 out |-> r.out \o page,
                 rev |-> IF r.rev = None THEN mem ELSE r.rev,
                 after |-> IF more THEN page[Len(page)].id ELSE r.after,
                 tries |-> r.tries]]
    /\ UNCHANGED <<diskVars, up, mem, poisoned, cand, resp, acked, decided>>

(* The server is away: request() fails and so does all(). *)
AllFails(q) ==
    /\ reader[q].st = "paging"
    /\ ~up
    /\ reader' = [reader EXCEPT ![q] = ReaderIdle]
    /\ UNCHANGED <<diskVars, serverVars, histVars>>

-----------------------------------------------------------------------------
(* Store::init, one file after the other, each synced.  It refuses a        *)
(* directory with anything in it, its own unfinished work included.         *)
init ==
    /\ \/ laid = 0
       \/ initing
    /\ laid' = laid + 1
    /\ initing' = (laid + 1 < 3)
    /\ UNCHANGED <<file, disks, serverVars, reader, histVars>>

(* Store::open: the three files exist and the contents are valid. *)
open ==
    /\ ~up
    /\ laid = 3
    /\ Valid(file)
    /\ up' = TRUE
    /\ mem' = file
    /\ UNCHANGED <<diskVars, poisoned, hpc, cand, resp, reader, histVars>>

(* The process is killed; the file system is not affected. *)
Crash ==
    /\ up
    /\ ProcessEnds
    /\ UNCHANGED <<diskVars, reader, histVars>>

(* The machine goes down: what was not synced may be lost. *)
PowerLoss ==
    /\ IF up THEN ProcessEnds ELSE UNCHANGED serverVars
    /\ \E d \in disks : file' = d /\ disks' = {d}
    /\ initing' = FALSE
    /\ UNCHANGED <<laid, reader, histVars>>

-----------------------------------------------------------------------------
Init ==
    /\ laid = 0 /\ initing = FALSE
    /\ file = <<>> /\ disks = {<<>>}
    /\ up = FALSE /\ mem = <<>> /\ poisoned = FALSE
    /\ hpc = [h \in Handlers |-> "idle"]
    /\ cand = [h \in Handlers |-> <<>>]
    /\ resp = [h \in Handlers |-> NoResp]
    /\ reader = [q \in Readers |-> ReaderIdle]
    /\ acked = {} /\ decided = {}

Handle(h) ==
    \/ \E t \in Targets, x \in Texts, ip \in Ips, n, r \in 0 .. MaxId, now \in Clock :
            submit(h, t, x, ip, n, r, now)
    \/ \E ids \in SUBSET (1 .. MaxId), status \in {"Approved", "Deleted"} :
            ids # {} /\ moderate(h, ids, status)
    \/ SubmitReject(h) \/ RefusePoisoned(h) \/ public_query(h)
    \/ \E q \in Readers : AllPage(h, q)
    \/ CommitSynced(h) \/ CommitPoisons(h) \/ Reply(h) \/ CheckPoisoned(h)

Next ==
    \/ \E h \in Handlers : Handle(h)
    \/ \E q \in Readers : AllStart(q) \/ AllFails(q)
    \/ init \/ open \/ Crash \/ PowerLoss

Spec == Init /\ [][Next]_vars

(* A handler that has begun finishes: its file operations and its send      *)
(* return, and it comes back for the lock.                                  *)
FairSpec ==
    /\ Spec
    /\ \A h \in Handlers : /\ WF_vars(CommitSynced(h) \/ CommitPoisons(h))
                           /\ WF_vars(Reply(h))
                           /\ WF_vars(CheckPoisoned(h))
-----------------------------------------------------------------------------
(* Every variable has its type. *)
TypeOK ==
    /\ laid \in 0 .. 3
    /\ file \in Seq(Comments) /\ mem \in Seq(Comments)
    /\ disks \subseteq Seq(Comments)
    /\ initing \in BOOLEAN /\ up \in BOOLEAN /\ poisoned \in BOOLEAN
    /\ hpc \in [Handlers -> {"idle", "commit", "reply", "check"}]
    /\ cand \in [Handlers -> Seq(Comments)]
    /\ resp \in [Handlers -> Responses]
    /\ acked \subseteq Comments
    /\ decided \subseteq (1 .. MaxId) \X Statuses

(* Whatever a crash or a power loss leaves behind, Store::open accepts it:  *)
(* ids increase, and the parent of every reply is an earlier comment of the *)
(* same target that is approved, although parents, replies and decisions    *)
(* are made by different requests at different times.                       *)
OpenSucceeds == \A d \in disks \cup {file} : Valid(d)

(* The public list can always be computed (never "comment data              *)
(* unavailable"): the parents of the replies it shows are shown before      *)
(* them, and the number it shows for a comment is the number under which    *)
(* submit would find that comment as a parent.                              *)
PublicListIsSound ==
    \A t \in Targets :
        LET list == ApprovedOf(mem, t) IN
        /\ Visible(list)
        /\ \A i \in DOMAIN list : \E k \in resolve_reply_id(mem, t, VisibleNumber(list, i)) :
              mem[k].id = list[i].id

(* No source gets more than RateLimit comments into a window, whatever the  *)
(* moderator does in between and however often the server restarts.         *)
RateLimited ==
    \A d \in disks : \A i \in DOMAIN d :
        Cardinality(RecentOf(SubSeq(d, 1, i), d[i].ip, d[i].at)) <= RateLimit

(* What Client::all returns is the approved part of one version of the      *)
(* store, however many pages it took and whatever was committed meanwhile.  *)
SnapshotIsOneRevision ==
    \A q \in Readers :
        reader[q].st = "done" => reader[q].out = ApprovedAfter(reader[q].rev, 0)

Log == INSTANCE CommentLog WITH log <- file

(* commentd implements the list of CommentLog: seen through its data file,  *)
(* handlers that commit one after the other from a copy in memory, failed   *)
(* syncs, crashes and power losses only ever append, decide once, or drop   *)
(* what nobody was told of; a change is never made to an outdated copy.     *)
RefinesLog == Log!Spec

(* A poisoned store stops: the process exits. *)
FailStop == poisoned ~> ~up
=============================================================================
