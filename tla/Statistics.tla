------------------------------ MODULE Statistics -------------------------------
(***************************************************************************)
(* How a read becomes a number: kqueue watchers in jaild and the request   *)
(* middleware of the web server collect article reads, one worker each     *)
(* sends them in batches to statd, and a new session is shown a snapshot.  *)
(*                                                                         *)
(*   crates/servers/jaild/src/watcher.rs  one-shot NOTE_READ per article   *)
(*   crates/servers/jaild/src/session.rs  article_stats_worker, pump       *)
(*   crates/servers/jaild/src/jail.rs     prepare_session, the snapshot    *)
(*   crates/servers/web/src/stats.rs      Recorder, route_reloader,        *)
(*                                        batch_worker                     *)
(*   crates/servers/statd/src             store.rs, server.rs, client.rs   *)
(*                                                                         *)
(* An article is a model value in a directory, its target; an address is a *)
(* value that Canon reduces to its canonical form.  The HMAC of a visitor  *)
(* is the pair it is computed from.  Sending is best effort: a batch whose *)
(* request fails or is late is dropped, and statd may commit it all the    *)
(* same.                                                                   *)
(***************************************************************************)
EXTENDS Naturals, Sequences, FiniteSets, FiniteSetsExt, SequencesExt

CONSTANTS Sessions,     \* sessions jaild prepares, each once
          Articles,
          Target,       \* the directory scope of each article
          Templates,    \* what a session's template may hold, over all deployments
          Peer,         \* the address jaild was given for each session
          Clients,      \* addresses of static requests
          Canon,        \* canonical_ip: the canonical form of each address
          Web,          \* the web server's worker
          Broken,       \* a file that cannot be read or parsed
          QueueCap,     \* QUEUE_CAPACITY of the web server
          ReadsCap,     \* MAX_BATCH_EVENTS * 2 of a session
          MaxBatch,     \* MAX_BATCH_EVENTS
          MaxCount,     \* i64::MAX
          MaxGets,      \* bound: static requests
          MaxCrashes,   \* bound: crashes of statd
          MaxPublish    \* bound: rewrites of the article index or the manifest

Targets   == {Target[a] : a \in Articles}
Workers   == Sessions \cup {Web}
Addresses == {Peer[s] : s \in Sessions} \cup Clients
Sources   == {"terminal", "static"}

\* The manifest of a template configures targets, and its index lists articles there.
ASSUME TemplatesAssumption ==
    \A p \in Templates :
       /\ p.targets \subseteq Targets
       /\ p.articles \subseteq {a \in Articles : Target[a] \in p.targets}

ASSUME StatisticsAssumption ==
    /\ IsFiniteSet(Sessions) /\ IsFiniteSet(Articles)
    /\ DOMAIN Target = Articles /\ DOMAIN Peer = Sessions
    /\ Addresses \subseteq DOMAIN Canon
    /\ \A x \in DOMAIN Canon : Canon[x] \in DOMAIN Canon /\ Canon[Canon[x]] = Canon[x]
    /\ Web \notin Sessions /\ "free" \notin Sessions
    /\ {QueueCap, ReadsCap, MaxBatch, MaxCount} \subseteq Nat \ {0}
    /\ {MaxGets, MaxCrashes, MaxPublish} \subseteq Nat

\* RecordEvent; its target follows from the article.
Event == [source : Sources, article : Articles, ip : Addresses]

VARIABLES
    phase,      \* each session: "new", "asking", "on", "stopping" or "closed"
    template,   \* the template each session was prepared from, or Unset
    armed,      \* articles whose NOTE_READ registration has not fired
    pending,    \* events kqueue holds for the session's watcher
    watching,   \* the watcher's thread runs
    reads,      \* the session's channel of ArticleRead
    index,      \* article-index.json: the articles it lists
    scopes,     \* comment-targets.tsv: the targets it configures
    routes,     \* the articles the web server counts
    queue,      \* the web server's channel of RecordEvent
    worker,     \* each worker: "recv", "delay", "request" or "gone"
    batch,      \* what it is sending
    sent,       \* requests it made
    up,         \* statd runs
    inbox,      \* requests on statd's sockets
    replies,    \* answers that wait for their worker
    lock,       \* the session whose snapshot holds the store, or "free"
    totals,     \* table target_totals
    articles,   \* table article_totals
    visitors,   \* table target_visitors
    snap,       \* the snapshot each session is shown
    seen,       \* history: articles the guest of a session really read
    gets,       \* history: successful requests for the page of an article
    acked,      \* history: events statd acknowledged
    crashes, published

watchVars == <<phase, template, armed, pending, watching, snap>>
webVars   == <<index, scopes, routes, published>>
workVars  == <<reads, queue, worker, batch, sent>>
dbVars    == <<totals, articles, visitors>>
statdVars == <<up, inbox, replies, lock, dbVars, crashes>>
history   == <<seen, gets, acked>>
vars == <<watchVars, webVars, workVars, statdVars, history>>

Unset == [targets |-> {}, articles |-> {}]

\* stats_status unavailable: no numbers, rather than zeros.
Unavailable == [ok |-> FALSE, totals |-> <<>>, articles |-> <<>>]

-----------------------------------------------------------------------------
(* The store.                                                               *)

\* How many events of the sequence have the source and an article in A.
Count(ev, src, A) ==
    Cardinality({i \in DOMAIN ev : ev[i].source = src /\ ev[i].article \in A})

InTarget(t) == {a \in Articles : Target[a] = t}

TotalsPlus(ev) ==
    [t \in Targets |-> [src \in Sources |->
        totals[t][src] + Count(ev, src, InTarget(t))]]

ArticlesPlus(ev) ==
    [a \in Articles |-> [src \in Sources |->
        articles[a][src] + Count(ev, src, {a})]]

\* visitor_hash covers the target and the canonical address.
VisitorHash(e) == <<Target[e.article], Canon[e.ip]>>

VisitorsPlus(ev) == visitors \cup {VisitorHash(ev[i]) : i \in DOMAIN ev}

\* Mutant: the counters wrap.
OverflowsNever(ev) == FALSE

\* checked_add: the first counter that overflows fails the batch.
Overflows(ev) ==
    \/ \E t \in Targets, src \in Sources : TotalsPlus(ev)[t][src] > MaxCount
    \/ \E a \in Articles, src \in Sources : ArticlesPlus(ev)[a][src] > MaxCount

Commit(ev) ==
    /\ totals' = TotalsPlus(ev)
    /\ articles' = ArticlesPlus(ev)
    /\ visitors' = VisitorsPlus(ev)

\* Mutant: no transaction; increment_article fails after increment_target.
RollbackHalf(ev) == totals' = TotalsPlus(ev) /\ UNCHANGED <<articles, visitors>>

\* A statement fails (a full disk, an overflow): the transaction is dropped.
Rollback(ev) == UNCHANGED dbVars

-----------------------------------------------------------------------------
(* statd.  record_batch and snapshot run under the mutex of the store.      *)

\* Mutant: a snapshot is taken without the mutex.
StoreShared(s) == TRUE

StoreFree(s) == lock = "free"

\* The answer reaches only a worker that still waits for this request.
Answer(r, ok) ==
    replies' = IF worker[r.from] = "request" /\ sent[r.from] = r.no
                  THEN replies \cup {[from |-> r.from, ok |-> ok]}
                  ELSE replies

HandleBatch(r) ==
    /\ up /\ StoreFree(r.from)
    /\ inbox' = inbox \ {r}
    /\ \/ ~Overflows(r.events) /\ Commit(r.events) /\ Answer(r, TRUE)
       \/ Rollback(r.events) /\ Answer(r, FALSE)
    /\ UNCHANGED <<watchVars, webVars, workVars, up, lock, crashes, history>>

\* SQLite keeps what was committed (synchronous=FULL); the links are lost.
Crash ==
    /\ up /\ crashes < MaxCrashes
    /\ up' = FALSE
    /\ crashes' = crashes + 1
    /\ inbox' = {}
    /\ replies' = {}
    /\ lock' = "free"
    /\ snap' = [s \in Sessions |-> IF lock = s THEN Unavailable ELSE snap[s]]
    /\ phase' = [s \in Sessions |-> IF lock = s THEN "on" ELSE phase[s]]
    /\ UNCHANGED <<template, armed, pending, watching, webVars, workVars, dbVars, history>>

Restart ==
    /\ ~up
    /\ up' = TRUE
    /\ UNCHANGED <<watchVars, webVars, workVars, inbox, replies, lock, dbVars,
                   crashes, history>>

-----------------------------------------------------------------------------
(* jaild prepares a session: watchers before the fork, then one snapshot.   *)

\* The template that is current is cloned; its articles are watched, or none: one
\* cannot be pinned, or kqueue refuses one.
Prepare(s) ==
    /\ phase[s] = "new"
    /\ phase' = [phase EXCEPT ![s] = "asking"]
    /\ \E p \in Templates, all \in BOOLEAN :
          LET A == IF all THEN p.articles ELSE {} IN
          /\ template' = [template EXCEPT ![s] = p]
          /\ armed' = [armed EXCEPT ![s] = A]
          /\ watching' = [watching EXCEPT ![s] = A # {}]
    /\ UNCHANGED <<pending, snap, webVars, workVars, statdVars, history>>

\* The totals of the template's targets are read first, in the transaction of the
\* snapshot,
SnapshotTotals(s) ==
    /\ phase[s] = "asking" /\ up /\ StoreFree(s)
    /\ lock' = s
    /\ snap' = [snap EXCEPT ![s] =
                  [ok |-> FALSE, totals |-> [t \in template[s].targets |-> totals[t]],
                   articles |-> <<>>]]
    /\ UNCHANGED <<phase, template, armed, pending, watching, webVars, workVars, up, inbox,
                   replies, dbVars, crashes, history>>

\* then the rows of the articles it lists.  Rows of articles that were removed or
\* moved since stay in the tables and are not asked for.
SnapshotArticles(s) ==
    /\ lock = s
    /\ lock' = "free"
    /\ \/ snap' = [snap EXCEPT ![s].ok = TRUE,
                               ![s].articles = [a \in template[s].articles |-> articles[a]]]
       \/ snap' = [snap EXCEPT ![s] = Unavailable]    \* the answer is late
    /\ phase' = [phase EXCEPT ![s] = "on"]
    /\ UNCHANGED <<template, armed, pending, watching, webVars, workVars, up, inbox, replies,
                   dbVars, crashes, history>>

\* statd is away or slow: the session goes on without numbers.
SnapshotFails(s) ==
    /\ phase[s] = "asking" /\ lock # s
    /\ phase' = [phase EXCEPT ![s] = "on"]
    /\ snap' = [snap EXCEPT ![s] = Unavailable]
    /\ UNCHANGED <<template, armed, pending, watching, webVars, workVars, statdVars, history>>

-----------------------------------------------------------------------------
(* The watcher of a session.                                                *)

\* A read of the inode fires the registration once (EV_ONESHOT).
GuestReads(s, a) ==
    /\ phase[s] \in {"on", "stopping"}
    /\ <<s, a>> \notin seen \/ a \in armed[s]
    /\ seen' = seen \cup {<<s, a>>}
    /\ pending' = [pending EXCEPT ![s] = IF a \in armed[s] THEN @ \cup {a} ELSE @]
    /\ armed' = [armed EXCEPT ![s] = @ \ {a}]
    /\ UNCHANGED <<phase, template, watching, snap, webVars, workVars, statdVars, gets, acked>>

\* try_send: an event that finds the channel full is dropped.
TrySend(q, e, cap) == IF Len(q) < cap THEN Append(q, e) ELSE q

WatcherTakes(s, a) ==
    /\ phase[s] \in {"on", "stopping"} /\ watching[s]
    /\ a \in pending[s]
    /\ pending' = [pending EXCEPT ![s] = @ \ {a}]
    /\ reads' = [reads EXCEPT ![s] = TrySend(@, a, ReadsCap)]
    /\ UNCHANGED <<phase, template, armed, watching, snap, webVars, queue, worker, batch, sent,
                   statdVars, history>>

\* A loop that does not look at the flag, while no call fails.
WatcherEndsAtLast(s) ==
    /\ phase[s] \in {"on", "stopping"} /\ watching[s]
    /\ armed[s] = {} /\ pending[s] = {}
    /\ watching' = [watching EXCEPT ![s] = FALSE]
    /\ UNCHANGED <<phase, template, armed, pending, snap, webVars, workVars, statdVars, history>>

\* Nothing remains, shutdown is set, or kevent failed.  The channel closes.
WatcherEnds(s) ==
    /\ phase[s] \in {"on", "stopping"} /\ watching[s]
    /\ watching' = [watching EXCEPT ![s] = FALSE]
    /\ armed' = [armed EXCEPT ![s] = {}]
    /\ pending' = [pending EXCEPT ![s] = {}]
    /\ UNCHANGED <<phase, template, snap, webVars, workVars, statdVars, history>>

-----------------------------------------------------------------------------
(* The workers.  A request is one connection; its number tells a late       *)
(* answer from the one the worker waits for.                                *)

TerminalEvent(s, a) == [source |-> "terminal", article |-> a, ip |-> Peer[s]]

\* client.request: connect, send, then wait.  What fails is not tried again.
Request(w, ev) ==
    \/ /\ up
       /\ worker' = [worker EXCEPT ![w] = "request"]
       /\ batch' = [batch EXCEPT ![w] = ev]
       /\ sent' = [sent EXCEPT ![w] = @ + 1]
       /\ inbox' = inbox \cup {[from |-> w, no |-> sent[w] + 1, events |-> ev]}
    \/ /\ worker' = [worker EXCEPT ![w] = "recv"]
       /\ batch' = [batch EXCEPT ![w] = <<>>]
       /\ UNCHANGED <<sent, inbox>>

\* article_stats_worker takes what is there, up to a batch.
SessionSends(s) ==
    /\ worker[s] = "recv" /\ reads[s] # <<>>
    /\ LET n == Min({Len(reads[s]), MaxBatch}) IN
          /\ reads' = [reads EXCEPT ![s] = SubSeq(@, n + 1, Len(@))]
          /\ Request(s, [i \in 1 .. n |-> TerminalEvent(s, reads[s][i])])
    /\ UNCHANGED <<watchVars, webVars, queue, up, replies, lock, dbVars, crashes, history>>

\* batch_worker takes the first event and sleeps for BATCH_DELAY,
WebTakes ==
    /\ worker[Web] = "recv" /\ queue # <<>>
    /\ batch' = [batch EXCEPT ![Web] = <<Head(queue)>>]
    /\ queue' = Tail(queue)
    /\ worker' = [worker EXCEPT ![Web] = "delay"]
    /\ UNCHANGED <<watchVars, webVars, reads, sent, statdVars, history>>

\* then takes what came meanwhile.
WebSends ==
    /\ worker[Web] = "delay"
    /\ LET n == Min({Len(queue), MaxBatch - 1}) IN
          /\ queue' = SubSeq(queue, n + 1, Len(queue))
          /\ Request(Web, batch[Web] \o SubSeq(queue, 1, n))
    /\ UNCHANGED <<watchVars, webVars, reads, up, replies, lock, dbVars, crashes, history>>

Acknowledge(ev) ==
    acked' = [a \in Articles |-> [src \in Sources |-> acked[a][src] + Count(ev, src, {a})]]

\* The answer arrives.
Receive(r) ==
    /\ worker[r.from] = "request"
    /\ replies' = replies \ {r}
    /\ IF r.ok THEN Acknowledge(batch[r.from]) ELSE UNCHANGED acked
    /\ worker' = [worker EXCEPT ![r.from] = "recv"]
    /\ batch' = [batch EXCEPT ![r.from] = <<>>]
    /\ UNCHANGED <<watchVars, webVars, reads, queue, sent, up, inbox, lock, dbVars,
                   crashes, seen, gets>>

\* A worker that tries again what may have been done.
GiveUpRetries(w) ==
    /\ worker[w] = "request"
    /\ replies' = {r \in replies : r.from # w}
    /\ Request(w, batch[w])
    /\ UNCHANGED <<watchVars, webVars, reads, queue, up, lock, dbVars, crashes, history>>

\* The request timed out, or the link broke: the batch is dropped.
GiveUp(w) ==
    /\ worker[w] = "request"
    /\ worker' = [worker EXCEPT ![w] = "recv"]
    /\ batch' = [batch EXCEPT ![w] = <<>>]
    /\ replies' = {r \in replies : r.from # w}
    /\ UNCHANGED <<watchVars, webVars, reads, queue, sent, up, inbox, lock, dbVars,
                   crashes, history>>

-----------------------------------------------------------------------------
(* The end of a session: shutdown is set and the watcher awaited, then the  *)
(* worker is aborted wherever it is.                                        *)

Stop(s) ==
    /\ phase[s] = "on"
    /\ phase' = [phase EXCEPT ![s] = "stopping"]
    /\ UNCHANGED <<template, armed, pending, watching, snap, webVars, workVars, statdVars, history>>

Abort(s) ==
    /\ phase[s] = "stopping" /\ ~watching[s]
    /\ phase' = [phase EXCEPT ![s] = "closed"]
    /\ worker' = [worker EXCEPT ![s] = "gone"]
    /\ batch' = [batch EXCEPT ![s] = <<>>]
    /\ reads' = [reads EXCEPT ![s] = <<>>]
    /\ replies' = {r \in replies : r.from # s}
    /\ UNCHANGED <<template, armed, pending, watching, snap, webVars, queue, sent, up, inbox, lock,
                   dbVars, crashes, history>>

-----------------------------------------------------------------------------
(* The web server.                                                          *)

\* load_routes: the listed articles whose directory the manifest configures.
LoadRoutes == {a \in index : Target[a] \in scopes}

\* A file is rewritten, or cannot be read for a while.
Publish ==
    /\ published < MaxPublish
    /\ published' = published + 1
    /\ \/ index' \in (SUBSET Articles) \cup {Broken} /\ UNCHANGED scopes
       \/ scopes' \in (SUBSET Targets) \cup {Broken} /\ UNCHANGED index
    /\ UNCHANGED <<watchVars, routes, workVars, statdVars, history>>

Readable == index # Broken /\ scopes # Broken

\* A reload that only adds.
ReloadAdds ==
    /\ Readable
    /\ routes' = routes \cup LoadRoutes
    /\ routes' # routes
    /\ UNCHANGED <<watchVars, index, scopes, published, workVars, statdVars, history>>

\* route_reloader, every second; an error keeps the previous map.
Reload ==
    /\ Readable
    /\ routes # LoadRoutes
    /\ routes' = LoadRoutes
    /\ UNCHANGED <<watchVars, index, scopes, published, workVars, statdVars, history>>

\* A page is asked for; track_request records a GET answered 200 or 304.
Get(a, ip) ==
    /\ MapThenSumSet(LAMBDA b : gets[b], Articles) < MaxGets
    /\ gets' = [gets EXCEPT ![a] = @ + 1]
    /\ queue' = IF a \in routes
                   THEN TrySend(queue, [source |-> "static", article |-> a, ip |-> ip], QueueCap)
                   ELSE queue
    /\ UNCHANGED <<watchVars, webVars, reads, worker, batch, sent, statdVars, seen, acked>>

-----------------------------------------------------------------------------
Zero == [src \in Sources |-> 0]

Init ==
    /\ phase = [s \in Sessions |-> "new"]
    /\ template = [s \in Sessions |-> Unset]
    /\ armed = [s \in Sessions |-> {}]
    /\ pending = [s \in Sessions |-> {}]
    /\ watching = [s \in Sessions |-> FALSE]
    /\ snap = [s \in Sessions |-> Unavailable]
    /\ index = Articles /\ scopes = Targets /\ routes = LoadRoutes /\ published = 0
    /\ reads = [s \in Sessions |-> <<>>]
    /\ queue = <<>>
    /\ worker = [w \in Workers |-> "recv"]
    /\ batch = [w \in Workers |-> <<>>]
    /\ sent = [w \in Workers |-> 0]
    /\ up = TRUE /\ inbox = {} /\ replies = {} /\ lock = "free" /\ crashes = 0
    /\ totals = [t \in Targets |-> Zero]
    /\ articles = [a \in Articles |-> Zero]
    /\ visitors = {}
    /\ seen = {}
    /\ gets = [a \in Articles |-> 0]
    /\ acked = [a \in Articles |-> Zero]

Watcher(s) == WatcherEnds(s) \/ \E a \in Articles : WatcherTakes(s, a)

Next ==
    \/ \E r \in inbox : HandleBatch(r)
    \/ Crash
    \/ Restart
    \/ \E s \in Sessions :
          \/ Prepare(s)
          \/ SnapshotTotals(s)
          \/ SnapshotArticles(s)
          \/ SnapshotFails(s)
          \/ \E a \in Articles : GuestReads(s, a)
          \/ Watcher(s)
          \/ SessionSends(s)
          \/ Stop(s)
          \/ Abort(s)
    \/ WebTakes
    \/ WebSends
    \/ \E r \in replies : Receive(r)
    \/ \E w \in Workers : GiveUp(w)
    \/ Publish
    \/ Reload
    \/ \E a \in Articles, ip \in Clients : Get(a, ip)

Spec == Init /\ [][Next]_vars

\* The watcher's thread looks at the flag at least every 250 ms, aborting a
\* task needs no one, and the reload timer ticks.  statd owes nothing.
FairSpec ==
    /\ Spec
    /\ \A s \in Sessions :
          /\ WF_vars(phase[s] = "stopping" /\ WatcherEnds(s))
          /\ WF_vars(Abort(s))
    /\ WF_vars(Reload)

-----------------------------------------------------------------------------
(* Properties.                                                              *)

\* Types; no channel and no batch grows past its limit, no counter past i64.
TypeOK ==
    /\ phase \in [Sessions -> {"new", "asking", "on", "stopping", "closed"}]
    /\ template \in [Sessions -> Templates \cup {Unset}]
    /\ armed \in [Sessions -> SUBSET Articles]
    /\ pending \in [Sessions -> SUBSET Articles]
    /\ watching \in [Sessions -> BOOLEAN]
    /\ \A s \in Sessions : reads[s] \in Seq(Articles) /\ Len(reads[s]) <= ReadsCap
    /\ queue \in Seq(Event) /\ Len(queue) <= QueueCap
    /\ worker \in [Workers -> {"recv", "delay", "request", "gone"}]
    /\ \A w \in Workers : batch[w] \in Seq(Event) /\ Len(batch[w]) <= MaxBatch
    /\ routes \subseteq Articles
    /\ lock \in Sessions \cup {"free"}
    /\ totals \in [Targets -> [Sources -> 0 .. MaxCount]]
    /\ articles \in [Articles -> [Sources -> 0 .. MaxCount]]
    /\ visitors \subseteq Targets \X DOMAIN Canon

SumIn(tab, A, src) == MapThenSumSet(LAMBDA a : tab[a][src], A)

\* The articles of target t that a session's template lists.
Listed(s, t) == InTarget(t) \cap template[s].articles

\* A directory's total is the sum of its articles' totals, and it has visitors
\* exactly if something was read, whatever batch failed half way through
\* record_batch and whenever statd died.  What a session is shown is of one moment,
\* although snapshot reads the tables one after the other while batches arrive: a
\* directory's total is never less than the rows below it add up to, and it is their
\* sum when no article was removed or moved.
TotalsAgree ==
    \A t \in Targets :
       /\ \A src \in Sources : totals[t][src] = SumIn(articles, InTarget(t), src)
       /\ (\E v \in visitors : v[1] = t) <=> (\E src \in Sources : totals[t][src] > 0)
       /\ \A s \in Sessions, src \in Sources :
             snap[s].ok /\ t \in template[s].targets =>
                LET rows == SumIn(snap[s].articles, Listed(s, t), src) IN
                /\ snap[s].totals[t][src] >= rows
                /\ Listed(s, t) = InTarget(t) => snap[s].totals[t][src] = rows

\* The counters say what happened.  By the counting rule of watcher.rs one session
\* reads one article at most once, and no more static requests are counted than were
\* answered: no timeout, late commit, aborted worker or repeated read counts twice.
\* What statd acknowledged is counted, after any crash.  A visitor of a directory is
\* one who read there, whichever form the address came in.
CountsWhatHappened ==
    /\ \A a \in Articles :
       /\ articles[a]["terminal"] <= Cardinality({s \in Sessions : <<s, a>> \in seen})
       /\ articles[a]["static"] <= gets[a]
       /\ \A src \in Sources : acked[a][src] <= articles[a][src]
    /\ \A v \in visitors :
       /\ Canon[v[2]] = v[2]
       /\ \/ \E s \in Sessions, a \in InTarget(v[1]) : <<s, a>> \in seen /\ Canon[Peer[s]] = v[2]
          \/ \E a \in InTarget(v[1]), ip \in Clients : gets[a] > 0 /\ Canon[ip] = v[2]

\* Statistics never lengthen the reclamation of a jail: a session that stops
\* passes the statistics part of pump's teardown although statd hangs.
SessionCloses ==
    \A s \in Sessions : phase[s] = "stopping" ~> phase[s] = "closed"

\* After the last deployment the web server counts the published articles of
\* the configured directories and no others.
RoutesCatchUp == <>[](Readable => routes = LoadRoutes)
================================================================================
