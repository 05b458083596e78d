# A TLA+ model of termblog

termblog serves a blog as a terminal: each visitor gets a FreeBSD jail, reached
through a browser or SSH. This directory models the long-lived processes of the
system, the build that publishes the blog and the reader that shows it, checks them
with TLC on small instances, and proves the central results for every instance with
TLAPS. `PROJECT.json` maps each definition to the lines
of source it stands for and lists runs, hazards, findings and theorems.

## 1. The system

| Component | State | Operations | Talks to |
| --- | --- | --- | --- |
| `web` sessions (`web/src/sessions.rs`, `main.rs`) | table of held sessions, owner generation, scrollback, grace timers, a private queue per connection | attach, create, reset, detach; one forward task per session, one handler and one down task per WebSocket | browser; jaild through `core` |
| `core` (`link.rs`, `client.rs`) | one SEQPACKET link, bounded channels | send, recv, `pump` | both ends of a link |
| `jaild` sessions (`session.rs`, `main.rs`) | quota table, PTY, channels | create, `pump`, idle deadline, teardown | gateway, commentd, statd |
| `jaild` host state (`jail.rs`) | ZFS datasets, jails, rctl rules | spawn, cleanup, sweep | the FreeBSD host |
| `jaild` comment FIFOs (`session.rs`) | buffers, queue, notices | readers, worker, final drain | guest processes, commentd |
| `jaild` article watchers (`watcher.rs`) | one-shot kqueue registrations | take, drop, stop | statd |
| `commentd` | JSONL file and its image in memory, poisoned flag | submit, moderate, query, page | jaild, web, the moderator's CLI |
| `statd` | three SQLite tables | record_batch, snapshot | jaild, web |
| `web` statistics (`stats.rs`) | route map, event queue | record, reload, batch worker | statd |
| `ssh` | a SessionClient per channel | russh callbacks | jaild |
| `content-model` | none | checks and mappings of article sources, scopes and targets | all that read or write content |
| `content-build` (`main.rs`, `img.rs`, `meta.rs`) | `frontend/dist`, `.rendered`, `.rendered-assets`, two manifests, staging | scan, claim, stage, commit, swap | the author, Vite, deploy scripts |
| `jailbin` reader (`blog/reader.rs`) | layout, window, caches of image slices, the terminal | keys, resizes, exits | the guest's terminal, `less` |
| `jailbin` player and tools, `frontend`, `config` | one user's screen; a file | player, reconnect; range checks | guest, web |

What is hard here: tokio tasks and threads that share a table and a few bounded
channels, `select!` loops that drop a half-done future, awaiting sends that form
cycles, processes that are killed between two commands with effects on the
host or the disk, requests that are late and not lost, and timers that fire
while they are being cancelled.

What makes each part correct:

* held sessions: the served connection is the one the table owns; nothing is held
  for nobody; a connection sees output without gap or repetition;
* pipe: no byte is lost, invented or reordered, memory is bounded, and both ends
  let go when one does;
* jails: no guest runs without its limits, the quota bounds the jails, nothing
  is left on the host;
* FIFOs: every comment written is answered once, the end of a session included;
* commentd: the file can always be opened, and holds what was acknowledged;
* statd: totals agree, nothing is counted twice, statistics never delay a session;
* content-build: what is published is the content as it is, nothing of Vite's is
  touched, and no interruption loses a tree or blocks the next build;
* reader: what the screen shows is the article at the present size, whichever
  sequence of scrolls, resizes and failed images led there.

## 2. Modules

| Module | Lines of code it models | Checked by |
| --- | --- | --- |
| `WebSessions` | `web/src/sessions.rs`, `handle` of `web/src/main.rs`, `pump` of `core/src/client.rs` as the gateway sees it | `MCWebSessions*.cfg` |
| `SessionPipe` | `core/src/link.rs`, `pump` of `core/src/client.rs`, `handle_conn` of `jaild/src/main.rs`, `pump` of `jaild/src/session.rs` | `MCSessionPipe*` |
| `JailLifecycle` | `create`, quota and teardown of `session.rs`; `spawn_sync`, `spawn_inner`, `cleanup_sync`, `sweep` of `jail.rs` | `MCJailLifecycle*` |
| `CommentFifo` | `fifo_reader`, `drain_fifo`, `finalize_fifo_write`, `comment_worker` and the drain of `pump` | `MCCommentFifo*` |
| `CommentStore` | `store.rs`, `server.rs` and `Client::all` of commentd | `MCCommentStore*` |
| `CommentLog` | what commentd promises, without files, memory and failures | `RefinesLog` of `CommentStore` |
| `Statistics` | statd, `web/src/stats.rs`, `jaild/src/watcher.rs`, `article_stats_worker` | `MCStatistics*` |
| `ContentModel` | `content-model/src/lib.rs`: path checks and mappings, as operators | through `Publication` |
| `Publication` | `content-build`: `main.rs`, `img.rs`, `meta.rs` | `MCPublication` |
| `Reader` | `jailbin/src/blog/reader.rs` | `MCReader` |
| `WebSessionsProofs`, `SessionPipeProofs`, `JailLifecycleProofs`, `CommentFifoProofs`, `CommentStoreProofs`, `StatisticsProofs`, `PublicationProofs`, `ReaderProofs` | theorems about the module each is named after | TLAPS |

`Statistics` and `SessionPipe` compose several components across processes, and
`Publication` composes content-build with `ContentModel`, the author and Vite; the
others model one component against an arbitrary environment.

### How state and actions correspond to the code

*WebSessions.* `held`, `owner`, `armed`, `firing` are the table of `SessionStore`
(`firing` is a grace timer past its sleep and before the lock); `fwd`, `active`,
`cmds`, `scroll` are `forward_output`; `pc`, `tok`, `queue`, `down`, `busy` are the
handler and its down task. Of the core pump it keeps where it is (`pump`: selecting, in
`link.send`, or in `out.send`) and how much input waits for it (`typed`); a closed input
is seen only while it selects. Output units are numbered, so that the replay,
the switch of owner and live output can be compared with what the shell wrote.
A lock region without an await is one action. What the `Subscriber` command
channel holds is kept as a sequence.

*SessionPipe.* The two ends of a link, `gw` (core's pump) and `hc` (`handle_conn`),
run the same `select!` loop: each is selecting, in `link.send`, or in a channel's
`send`. The socket holds fragments; `Splits` says whether the kernel may accept a
part of a record, as `link.rs` says FreeBSD does. A `select!` that takes another
branch drops the `recv` future and its fragments. The idle deadline is an action
enabled whenever jaild's pump waits for something it bounds by it.

*JailLifecycle.* Per session id: a slot, the task's next step, dataset, jail
(`none`, `alive` or `dying`), rules and
guest. Each external command is an action that may fail; a failing removal sets
`failed`, which weakens the two properties that no code could keep then. `Crash`
drops the table and the tasks, not the host; a new run counts its ids from 1.

*CommentFifo.* Chunks carry their writer, so a submission shows whose text it
holds. `NOTE_CLOSE_WRITE` is one pending bit per FIFO.

*CommentStore.* `file` is what a restart reads, `disks` the versions a power loss
may leave, `mem` the store in memory. `commit` is split at the directory fsync,
replies at the point where the answer leaves the process.

*Statistics.* `inbox` holds requests on statd's sockets, also those whose client
has given up; a request's number tells the late answer from the awaited one.
A session is prepared from a template (`template`): the targets its manifest
configures and the articles its index lists. `snapshot` takes two steps under the
mutex, the totals of these targets and then the rows of these articles; the tables keep
rows of articles that were removed or moved, which no snapshot asks for. `totals`,
`articles`, `visitors` are the tables; `seen`, `gets`, `acked` are history. That SQLite
undoes every statement of a transaction that fails is taken for granted (`Rollback`).

*Publication.* `tree` is the content, `vite` what Vite last wrote, `dist`, `temps`,
`manifest`, `targets`, `trees` and `backups` what is on disk, `build` the process. All
checks of a build (scan, scopes, images, claims) are one action, since they touch
nothing that stays; the commit takes one step per file removed, copied or renamed and
per rename of a projection, and may fail or die between any two. The bytes of an
artifact are the name of the tree it was made from, so that a mixture of two builds
can be seen. Between builds the author edits and Vite empties and refills `dist`.
`ContentModel` gives the paths: a path is a sequence of segments, a segment a name
and an extension, and names fall into classes (allowed everywhere, allowed in
resources, hidden). Scanning, scopes, image budgets and the two manifests, with
their parsers, are operators over such trees.

*Reader.* A model row is a text line, a row of an image or a placeholder. `screen`
holds what each row of the terminal shows; rows of an image carry asset, width and
pixel rows, so that a slice from the cache made for another width can be told from
the right one. The two LRU caches whose keys decide what a hit shows are state. A
resize of the terminal and the event that tells the reader of it are two steps:
in between it draws at the old size.

### The abstract comment list

`CommentLog` is commentd without handlers, lock, copy in memory, files and failures:
one list `log`. `Add` appends a pending comment with a higher id whose parent is
approved; `Decide` turns pending comments into approved or deleted ones, once;
`Acknowledge` tells only what is in the list; `Forget` takes back what nobody was told.
`CommentStore` implements it under `log <- file` (`RefinesLog`): the history variables
`acked` and `decided` are the same in both. Each rename of `commit` maps to `Add` or
`Decide`, each reply to `Acknowledge`, a power loss to `Forget` or to nothing, all else to
stuttering. It shows what the fail-stop is for: a store
that went on after a failed directory sync would commit from its old copy, remove
what is in the file, and no step of the list does that (the mutant
`CommitForgotten`). Durability of what was acknowledged is part of it, since
a power loss that drops such a comment is no step of the list either.

## 3. Runs

Passing runs (all properties hold on the whole state space):

| Run | Question |
| --- | --- |
| `web_sessions` | two connections take a session from each other, type into it and print more than scrollback and queue hold; every attach is answered, an abandoned session is collected, a removed one loses its forward task, and its pump too unless that waits in `link.send` for ever |
| `pipe_whole` | records kept whole: every unit is at one place, in order; buffers stay bounded; tasks that wait for each other do not keep the jail, because of the idle deadline; the gateway's task ends with the handle unless both ends wait in `link.send` for ever |
| `jail` | builds and removals across a kill and a restart, every command failing at any time |
| `fifo` | three writers on two FIFOs, a limit of two comments, the session ending at any time; full queues and a silent commentd do not keep the jail |
| `comment_store` | two handlers, two targets, replies, decisions, crashes and power losses; the store implements `CommentLog` |
| `comment_reader` | paging through a store that changes; the rate limit under a clock that steps both ways; a store that could not sync ends its process |
| `statistics` | reads from a session and from pages, timeouts, failing batches, a crash of statd; templates that list all, some or none of the articles that are counted |
| `statistics_live` | counters at their limit; teardown while statd hangs; the route map through deployments |
| `publication` | three builds, each cut short anywhere, of four contents that build and four that are refused, while the author edits and Vite refills `dist`: static files are safe, a build that ends has published exactly the content, a build is refused for what earlier ones wrote in one case only (below), a projection is never lost, images and manifests agree with the content |
| `reader` | every sequence of keys and resizes over articles with two images, good or damaged in three ways: the screen agrees with the article, no line is lost, the window and the caches stay in bounds, the reading position survives a new layout |

Violations, each a place where the code does not do what it says:

| Run | What happens | What is said |
| --- | --- | --- |
| `web_sessions_grace` | an expired grace timer that waits for the lock removes a session that was just re-attached | `sessions.rs:100` |
| `pipe_nothing_lost` | a `recv` dropped by `select!` takes the first fragment of a record with it | `link.rs:8-10` |

More is known from reading and modelling, and has no run of its own.

*Servers.* `core/src/client.rs:100` says that either end going away tears the session down. But
when both ends of a link are in `link.send` on full sockets (`core/src/client.rs:114`,
`jaild/src/main.rs:209`), neither reads what the other sends, and both tasks and their
sockets stay after the handle is dropped. `SessionReleased` says two things: the jail is freed
all the same (`SlotFreed`), and this is the only case (`LinkReleased`); `RemovedIsReclaimed` names it in
`WebSessions`, where the peer is not modelled and any wait in `link.send` may last. A jail whose removal failed loses its dataset, by which `sweep` would have
found it (`jail.rs:1116`). "Not submitted" is shown for a comment that is stored
when commentd dies between commit and answer (`session.rs:671`). After a failed
directory fsync other handlers still answer queries from the old memory until the
process ends, which `commentd/src/store.rs:425` says must not happen: `public_query` and
`page` do not look at `poisoned`. Two writes to a FIFO that close before its reader runs
become one comment (`session.rs:538`; `README.md:13-14` says one for each opening).

*content-build.* A path of the old `.web-outputs.tsv` counts as the builder's own even
where Vite or `public/` has written it since: it is exempt from the claims and removed or
replaced (`main.rs:464`, `main.rs:583-592`; `docs/m5-explained.md:54` and `:56` promise
otherwise). `StaticSafe` holds outside these paths (`contested`). An image that takes the path of a
directory earlier builds made (`pix.gif` after `pix.gif/a.png`) is refused, since
`build_web_claims` counts the directories of the builder's own files as somebody's; it
is accepted once Vite has emptied `dist`. The proof of `Rebuildable` found this case,
and the property names it (`FileForDirectory`). A commit that
was cut short leaves files the manifest does not name, and the next build
refuses them until Vite has emptied `dist`; `clean` marks this. An image that one
article shows and another only links to is gathered twice, and the later one decides whether it
is published as processed or as it is (`main.rs:837`, `main.rs:866`): the article that shows it may
have been told the size of the other form. `ImagesServed` says that the published form is
what *some* reference asks for.
`load_scopes` reserves the comment path of a configured directory and no other (`main.rs:247`): with
the root and a directory `stat` configured (or `a` and `a/stat`), `/proc/stat` would have to be the
snapshot of one and the directory that holds that of the other. The build and the
template are accepted, and jaild then fails to create any session (`jail.rs:881`), where
`docs/content-authoring.md:51` promises ordinary files.

*Reader.* `exit_view` skips the rows of an image from wherever the window starts, and so
drops text below it when the window starts within the image (`reader.rs:1036`;
`NoLineLost` leaves this case out). An image that fails while its rows are shown keeps
them until the next layout, and cached rows of it may reappear; its message
may land on the wrong row when its top is above the window (`reader.rs:1273`).
`ScreenShowsArticle` leaves this out too (`DegradedInPlace`). A window that shrinks
before a key is read makes the next frame larger than its buffer, and the reader
panics with the terminal restored (`reader.rs:1237`); `ReaderInBounds` says that this is the only way.

### Bounds

Capacities are 1 or 2 and inputs exceed them by at least one, so that each queue is
full, each buffer wraps and each limit is reached: `MaxOut` exceeds `ScrollCap` and
`QueueCap` in `MCWebSessions.cfg`, three units fill a socket and the hand of its
sender in each direction, so that both ends of the link can wait for each other, and four
units of input fill every place up to jaild's pump, three writers exceed `MaxComments`, three ids exceed
`MaxTotal`, two reads exceed `MaxCount` in `MCStatisticsLive.cfg`. Three builds are enough for one that is cut short,
one that repairs and one that publishes something else; two process ids tell a
backup of the dead process from the living one's. The caches of the reader hold 1
and 2 slices of images that need up to 4, the windows are shorter and longer than the
article's images and one is too narrow for any. One crash (two
runs of jaild) is enough for state left by one run to meet the next. Two
connections of one session are enough for a takeover and a late detach; sessions share nothing
but the connections, and the safety of more of both is proved. The three templates of
`MCStatistics` list all, one and none of the articles. One article of `MCPublication` links
to an animation that another shows. Ids and
counters that are u64 or i64 in the code keep a maximum (`MaxId`, `MaxCount`), and the
overflow branch is part of the action. Symmetry is declared only in runs that check
safety.

### Fairness

* `WebSessions`: weak fairness of the gateway's own tasks and timers, and of the pump's
  wait for room in the output channel. Strong fairness of two branches of the pump's `select!`,
  input that waits and input that is closed: tokio starts each poll at a random
  branch, so one that is ready again and again is taken some time, although a `select!` that
  found another branch ready disables it meanwhile. None for a `link.send`: jaild may never
  read. Browser and shell owe nothing.
* `SessionPipe`: weak fairness of the three tasks and of the idle deadline, which
  tokio's clock provides. The user, the shell and the reader of the output owe
  nothing.
* `CommentFifo`: readers, worker, pump and the drain deadline; commentd may hang.
* `CommentStore`: a handler that has begun a commit finishes it.
* `Statistics`: the watcher's thread looks at its flag every 250 ms, an abort needs
  nobody, the reload timer ticks. statd may hang for ever.

`Publication` and `Reader` are checked for safety only: a build and a reader end
when their user wishes.

`CHECK_DEADLOCK FALSE` stands where sessions end or the supply of inputs is finite.
`CommentStore` runs with deadlock checking: commentd can always be asked or killed.

## 4. Proofs

Each `...Proofs` module states an inductive invariant, proves it kept with one
lemma per action (`<Action>Keeps`), and derives its theorems. The invariants were
checked by TLC on the instances of the runs before they were proved. What
is assumed of constants is what the `ASSUME`s of the models say, and TLC evaluates those
on every run: sets are finite, capacities positive, markers such as `None` and
`Nothing` are not values they stand beside.

The library's theorems of induction take a property as a parameter and cannot be used.
Where a proof needs induction (over a sequence, a sum, a range of rows), it takes a
*set* of numbers instead, from the well-foundedness of the order of `Nat`
(`Least`, `Induction`). A recursive function or a fold is a `CHOOSE` of a table of
values: the proofs show step by step that the table exists, and then its values.
A module that needs them proves these lemmas itself; `FlattenPlaces` says where each
member of a sequence of sequences comes to stand when they are put together.

**WebSessions**, for any finite number of sessions and connections and any capacities:
`TypeCorrect`, `ServedIsAlwaysOwner`, `NothingHeldForNobody`. Neither of the latter is
inductive. `IInv` adds: what is in the command channel names connections that are
attaching (`CmdsOK`), an id that was never issued has no trace anywhere (`FreshOK`), a
connection's token agrees with the table as long as it is its owner (`ConnOK`), and the
connection served has a matching token (`ActiveOK`). With these, a late detach is seen
to change nothing unless it is the owner's, which is the point of the generation number.
`NothingLostNothingTwice` (`NoLossNoRepeat`) is about what each connection was sent. `ScrollOK` says
that the scrollback is the last units read from the shell; `LinkOK` says for each phase of a
connection what it has received and what its queue, its command and the hand of
its handler still hold: nothing, a replay from a recent join on, or all units since.

**JailLifecycle**, for any number of peers, ids, runs and rules: no guest runs
without all its limits (`LimitsAlwaysHold`), a jail never starts on left-over rules
(`AccountingIsFresh`), the jails alive stay within the quota (`QuotaBoundsJails`) and
datasets are reclaimed (`DatasetsAreReclaimed`), the last two unless a removal failed.
`IInv` adds `TaskOK`, what the position of a building task says about the host:
before the jail is created there is no jail and no rule, at the fork all rules are
there. For the quota `HInv` adds that a session with a jail, or under way, has a slot
(`SlotTask`, `CleanOK`) and that the table is within the quota (`SlotsOK`); jails are
then a subset of the slots, and the library's cardinality theorems give the bound.

**SessionPipe**, for any capacities and numbers of units: `TypeCorrect`, the bound on
the memory of a session, and `WholeRecordsLoseNothing`, `NothingLost` under `~Splits`. (With
`Splits` it is false, as the run `pipe_nothing_lost` shows.) `NothingLost` speaks of
concatenations of seven and more places. Instead of these, `IInv` gives each
place of a direction the number of units in front of it (`In1` to `In7`, `Out1` to `Out7`)
and says that its elements count up from there (`InputOK`, `OutputOK`): a step that
moves a unit changes one of these numbers by one. When a task has ended, only what is
in front of it is still numbered; CLOSED is the one frame without a number,
and only jaild's end sends it, with its output drained and its pump dead.

**CommentFifo**, for any number of FIFOs and writers: `TypeCorrect`, which has the limit on
comments of a session, and `AllAnswered`. `SlotsOK` says that every submission made, queued or
about to be queued has taken a slot, so that the check before the queue is enough;
`EndOK` that without a timeout the worker ends after the readers and with an empty
queue, and the pump after the worker, so that nothing is left behind.

**CommentStore**, for any number of handlers, readers, targets and comments and any clock:
`TypeCorrect`, `OpenAlwaysSucceeds`, `RateLimitHolds`, and `Refinement`, that the store
implements `CommentLog`. `CommitOK` says that one handler commits at a time and its candidate
is what the file holds, `MemOK` that whoever gets the lock computes from the current
contents, `DisksOK` that every version a power loss may leave is well formed, an
earlier version of the file (`Earlier`), and has all that was, or is about to be,
acknowledged. The refinement then maps each step: the rename to `Add` or `Decide`, the
reply to `Acknowledge`, a power loss to `Forget`. `SnapshotsAreWhole`
(`SnapshotIsOneRevision`) follows from an invariant of the pager (`ReadOK`): what a reader has,
followed by what its revision holds after its last page, is all that is approved in that
revision; a page is cut from the filtered list in one place (`PageAndRest`).
`PublicListAlwaysSound` (`PublicListIsSound`) holds because ids grow with the index and a parent
has the lower id and stays approved, so that the filter that makes the list keeps it and puts it in
front (`FilterPlaces`, `PublicList`).

**Statistics**, for any number of sessions, articles, clients, requests and crashes:
`TypeCorrect` and `CountsAreTrue`. The argument is conservation: a read or request that is
to be counted is in one place (pending in kqueue, in a session's channel, in the web
server's queue, in a batch held back, or in a request to statd), and what is
counted and what is in these places together never exceeds what happened (`FlowOK`, with
`AckOK` for what statd has committed and the worker has yet to hear). `LinkOK` is what
makes it hold through timeouts: a request number is used once, and the answer
a worker may read is that to the batch it holds. `TablesAgree` (`TotalsAgree`) needs what
`SumIn` is for any finite set of articles, and that a batch adds to the totals what it adds to
the articles (`SumsAgree`); a snapshot is of one moment because the mutex spans both of its reads (`SnapOK`). The
rows of a snapshot are those of the articles the template lists, so its totals are not
less than their sum (`RowsCovered`), and equal to it when the template lists every
article of the target; `docs/content-authoring.md:51` says the same.

**Publication**, for any contents, any files of Vite and any number of builds:
`ViteFilesAreSafe`, `WhatIsPublishedIsCurrent`, `ProjectionIsNeverLost`,
`AlwaysRebuildable`, `ManifestsAlwaysReadBack` and `ImagesAlwaysServed`.
`ApartOK` says that no path the builder removes or writes is a safe file of Vite, at each point of the commit; `CleanOK` what `dist` holds at each point
unless a commit was cut short; `ProjectionsOK` what has been swapped into place;
`ManifestOK` that the manifest is what some accepted content was built into. What a content is built into
(`Desired`) enters through two facts only: an admitted build writes no path that Vite
owns (`AdmittedApart`), and none below `assets/` (`OwnNotAssets`). The constants are
assumed to hold paths, those of the content not empty (`PathsAssumption`), configured
directories to be a list and a tree to hold the parents of its directories (`TablesAssumption`),
and `None` to be neither a content nor a set of outputs (`NoneAssumption`).
`ManifestsAlwaysReadBack` (`ManifestsReadBack`) is about conversions: the lines a build writes are parsed by
jaild and by the web server into what the author configured. The proof goes through
the round trip of one scope, the checks of the parser on the list that `load_scopes` accepted
(no two scopes, no comment path in another's) and the routes of the articles.
`ImagesAlwaysServed` (`ImagesServed`) is about the longest fold of the builder, `gather_images`. An
error is never taken back, so a content without errors is one of which each image was published or
skipped (`Clean`, `Visited`). `GatherInv` goes through the fold: what was recorded is there
(`AllThere`), the form it is published in is one that some record asks for (`Told`), a record fits
what was left of the budget (`Fits`), and an article gets no bytes back. A later record may replace
the one that asked for the form of another output of the same file, a webp shown as png and then
linked to; then all records of that output are alike, and one of them is left to ask (`ToldKeeps`).
A URL that occurs twice in an article keeps the later record, which takes no more than the
earlier (`LaterIsSmaller`); the images of an article stay together because the fold goes by
article (`Together`, from `ByKeyFacts` and `FlattenPlaces`). So the bytes inlined in an article are
within its budget. Sizes of images are assumed to be numbers (`ImagesAssumption`), and a
content to be finitely many files with keys of different ranks and image lists that are
sequences (`ContentAssumption`).

**Reader**, for every article and manifest, any images, cells, sizes and capacities of the
caches: `ReaderStaysInBounds`, `PositionAlwaysKept`, `NoLineEverLost` and
`ScreenAlwaysShowsArticle`. `RdInv` says that
the window is inside a model that `build_model` made for the present width, with some of the
images that failed since degraded (`Window`), that a size the reader has not learnt is
announced by an event (`Learnt`), and that the caches are sound. The rest is about `build_model`
and `exit_view`. `Placed` puts every part of the layout in its place; `Walk` counts the
lines in front of each row, from 0 to the number of lines of the article, and each row
takes the count from its first line to its last (`Row`). So all rows together are the
article (`LinesInOrder`), rows stand for lines in order (`Orderly`), a new layout still has a
row for every line that had one (`ModelCovers`), which keeps the position, and the scan of
`exit_view`, from the end of the window upwards, leaves the lines between the counts at the
two ends of the window (`ExitValue`). For the screen (`ScreenShowsArticle`) `ScreenInv` adds that
each slice in a cache is the one its key names, of a file that can be read (`SlicesRight`, `RowsRight`),
and that the screen of a reader that knows its size is right. A frame is taken image by image:
`ExpTo` is what the first n images leave of what is expected, the others being blank, and `place_image`
takes it from n to n + 1 (`PlaceShows`), because the pixel rows of a whole payload or of the slice
for the visible part fall on the image's rows of cells and on no other (`WholeFits`, `PartFits`); a row that
a one-row scroll brings in is the strip a frame would have drawn there (`RowShows`). The constants
are assumed to be such as a manifest can hold (`ManifestsAssumption`), with one measure for each
file (`MeasuresAssumption`): the cache of rows tells files apart, not the images that show them.

With TLC alone: liveness (`SessionReleased`, `SessionCloses`, `FailStop` and the others), since fairness
and ENABLED are outside the prover's reach. Every safety invariant of the passing runs is stated by
a theorem.

## 5. Not modelled

* proto's byte codec, HTTP pages and headers, rendering to ANSI and HTML, feeds: formatting.
* pty.rs and the files jaild opens and writes before the fork: wrappers of system calls.
* config: range checks of one file.
* `ansi.rs`, `html.rs` and `feed.rs` of content-build, the human index and dates from git:
  rendering of one document at a time.
* The reader's ANSI styles, the escape sequences of an image, raw mode and the choice of
  the article in `blog/mod.rs`; output errors.
* ssh, frontend, retired templates, the player and the small tools of jailbin: planned, below.
* In `WebSessions` a closed WebSocket is noticed at any time, also while `handle` waits in
  `conn.input.send` (`main.rs:399`).
* Read errors of `drain_fifo`; a fork whose `fcntl` fails (`jail.rs:480-484`); the process
  ids in the names of the temporary copies of `Publication`; a staging directory in which
  one article's page is another's directory; a terminal of no rows, and a resize between
  the reader's first look at the size and its first event.
* Character filtering, author names, permissions of sockets and files.

## 6. Plan

1. Retired templates: `cleanup_retired_templates` beside `build-template.sh --replace`,
   as an extension of `JailLifecycle`.
2. The frontend's reconnect (replay window, takeover, back-off) composed with
   `WebSessions`; the ssh gateway as a second client of the pump.
3. jailbin's player: its clock, pausing and stepping, and the end of its input.
