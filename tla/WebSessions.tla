----------------------------- MODULE WebSessions -----------------------------
(***************************************************************************)
(* The web gateway's session holding: a WebSocket is fragile, the jail     *)
(* session behind it is expensive, so the gateway keeps the session for a  *)
(* grace period after its connection drops and replays the recent output   *)
(* to the connection that comes back with the attach token.                *)
(*                                                                         *)
(*   crates/servers/web/src/sessions.rs   SessionStore, forward_output     *)
(*   crates/servers/web/src/main.rs       handle (one task per WebSocket)  *)
(*   crates/servers/core/src/client.rs    pump (the gateway end of jaild)  *)
(*                                                                         *)
(* A session is named by its attach token.  A connection is one WebSocket  *)
(* and is named by its owner generation (next_conn_id); both are used once.*)
(* Output is counted in units; unit n is the n-th one the session printed. *)
(* The 128-bit token, the peer address, window sizes and the capability    *)
(* list are abstracted away: no property here tells them apart.            *)
(***************************************************************************)
EXTENDS Naturals, FiniteSets, SequencesExt

CONSTANTS Sessions,     \* attach tokens gen_token can return
          Conns,        \* WebSocket connections
          None,         \* "no connection" / "no session"
          ScrollCap,    \* SCROLLBACK_BYTES, in units
          ReplayChunk,  \* REPLAY_CHUNK, in units
          QueueCap,     \* OUTPUT_CHUNKS of a connection's private queue, in items
          OutCap,       \* OUTPUT_CHUNKS of the core output channel, in items
          InCap,        \* room in the core input and control channels, in items
          MaxOut        \* bound: units a session prints

ASSUME ConstAssumption ==
    /\ None \notin Sessions \cup Conns
    /\ ScrollCap \in Nat \ {0}
    /\ ReplayChunk \in Nat \ {0}
    /\ QueueCap \in Nat \ {0}
    /\ OutCap \in Nat \ {0}
    /\ InCap \in Nat \ {0}
    /\ MaxOut \in Nat

VARIABLES
    (* The holding table, SessionStore.table. *)
    held,     \* tokens that have an entry
    owner,    \* WebSession.owner of each entry
    armed,    \* entries whose idle_timer task sleeps
    firing,   \* entries a timer task has yet to remove although its sleep is over
    (* The forward_output task of each session. *)
    fwd,      \* "none", "start", "loop" or "done"
    active,   \* its current Subscriber
    cmds,     \* its FwdCmd channel: the connections that asked to attach
    scroll,   \* its scrollback
    read,     \* units taken from the core output channel
    (* The core pump of each session. *)
    typed,    \* keystrokes and resizes in its input and control channels
    pump,     \* "select", in link.send ("sending") or in out.send ("pushing")
    made,     \* units put into the core output channel
    ended,    \* sessions whose pump is gone
    (* The handle task of each connection and the down task it spawns. *)
    pc,       \* where handle is
    tok,      \* the token of the session it works on
    queue,    \* its private output queue, a sequence of items
    close,    \* the pending CloseReason of its oneshot
    busy,     \* units the down task is writing to the WebSocket
    down,     \* the down task: "none", "run" or "stopped"
    got,      \* units the browser page received, until the page is gone
    issued,   \* tokens some browser was told in an OPENED frame
    (* History. *)
    joined    \* for each connection, read at the moment it became active

tableVars == <<held, owner, armed, firing>>
fwdVars   == <<fwd, active, cmds, scroll, read>>
coreVars  == <<typed, pump, made, ended>>
connVars  == <<pc, tok, queue, close, busy, down, got, issued, joined>>
vars == <<tableVars, fwdVars, coreVars, connVars>>

(* OutItem::ReplayEnd travels in the queue like a unit; units count from 1. *)
ReplayEnd == 0

-----------------------------------------------------------------------------
(* Who still holds what. *)

(* attach() keeps a clone of fwd_cmd until it is answered. *)
Attaching(s) == {c \in Conns : pc[c] = "attaching" /\ tok[c] = s}

(* The Connection a handle task works with keeps a clone of input. *)
Holders(s) == {c \in Conns : pc[c] \in {"attaching", "opening", "up"} /\ tok[c] = s}

(* The receiving end of the private queue: with attach() or handle() until  *)
(* the down task owns it, and dropped when that task ends.                  *)
QueueOpen(c) == \/ pc[c] \in {"attaching", "opening"}
                \/ pc[c] = "up" /\ down[c] = "run"

(* The sending end lives in the Subscriber the forward task keeps. *)
SenderAlive(c) == tok[c] # None /\ active[tok[c]] = c

(* The down task ends, or handle returns before it started: the private     *)
(* queue, the close request and the frame being written are dropped.        *)
DropQueue(c) ==
    /\ queue' = [queue EXCEPT ![c] = <<>>]
    /\ close' = [close EXCEPT ![c] = None]
    /\ busy' = [busy EXCEPT ![c] = <<>>]

-----------------------------------------------------------------------------
(* Scrollback *)

(* Mutant: the scrollback is never trimmed. *)
ScrolledUntrimmed(buf, unit) == Append(buf, unit)

(* Append and drop the oldest units in excess of the limit. *)
Scrolled(buf, unit) ==
    LET long == Append(buf, unit)
    IN  IF Len(long) > ScrollCap THEN SubSeq(long, Len(long) - ScrollCap + 1, Len(long))
                                 ELSE long

(* Mutant: the replay is cut into single units. *)
ChunksOfOne(buf) == [i \in 1 .. Len(buf) |-> <<buf[i]>>]

(* scrollback.chunks(REPLAY_CHUNK) *)
Chunks(buf) ==
    LET n == (Len(buf) + ReplayChunk - 1) \div ReplayChunk
    IN  [i \in 1 .. n |->
            SubSeq(buf, (i - 1) * ReplayChunk + 1,
                        IF i * ReplayChunk < Len(buf) THEN i * ReplayChunk ELSE Len(buf))]

(* Mutant: the end of the replay is announced before the replay. *)
ReplayEndFirst(buf) == <<<<ReplayEnd>>>> \o Chunks(buf)

(* What an attach puts into the new private queue. *)
Replay(buf) == Append(Chunks(buf), <<ReplayEnd>>)

-----------------------------------------------------------------------------
(* The table operations, each under the table's lock. *)

(* table.remove(token).  Dropping the JoinHandle does not stop a timer, but *)
(* tokens are never used again: it will find nothing to remove.             *)
RemoveEntry(s) ==
    /\ held' = held \ {s}
    /\ armed' = armed \ {s}
    /\ firing' = firing \ {s}
    /\ UNCHANGED owner

(* Mutant: detach does not compare the owner generation. *)
DetachAnyone(s, c) ==
    IF s \in held
    THEN /\ owner' = [owner EXCEPT ![s] = None]
         /\ armed' = armed \cup {s}
         /\ UNCHANGED <<held, firing>>
    ELSE UNCHANGED tableVars

(* Mutant: detach starts no grace timer. *)
DetachNoTimer(s, c) ==
    IF s \in held /\ owner[s] = c
    THEN owner' = [owner EXCEPT ![s] = None] /\ UNCHANGED <<held, armed, firing>>
    ELSE UNCHANGED tableVars

(* SessionStore::detach.  A connection that was replaced comes here late,   *)
(* with an id that is not the owner's any more.                             *)
detach(s, c) ==
    IF s \in held /\ owner[s] = c
    THEN /\ owner' = [owner EXCEPT ![s] = None]
         /\ armed' = armed \cup {s}
         /\ UNCHANGED <<held, firing>>
    ELSE UNCHANGED tableVars

(* The timer task: sleep(IDLE_GRACE) ... *)
TimerElapse(s) ==
    /\ s \in armed
    /\ armed' = armed \ {s}
    /\ firing' = firing \cup {s}
    /\ UNCHANGED <<held, owner, fwdVars, coreVars, connVars>>

(* ... then lock and remove.  abort() acts at an await point, so a timer    *)
(* task that is past its sleep, waiting for the lock, cannot be stopped.    *)
TimerRemove(s) ==
    /\ s \in firing
    /\ RemoveEntry(s)
    /\ UNCHANGED <<fwdVars, coreVars, connVars>>

-----------------------------------------------------------------------------
(* handle: session acquisition *)

(* The first frame names no token, or attach() finds none: create follows. *)
HandleOpen(c) ==
    /\ pc[c] = "idle"
    /\ pc' = [pc EXCEPT ![c] = "creating"]
    /\ UNCHANGED <<tableVars, fwdVars, coreVars, tok, queue, close, busy, down, got,
                   issued, joined>>

(* Open.fresh: reset(token) drops the old session unless somebody uses it. *)
HandleFresh(c, s) ==
    /\ pc[c] = "idle"
    /\ s \in issued
    /\ IF s \in held /\ owner[s] = None THEN RemoveEntry(s) ELSE UNCHANGED tableVars
    /\ pc' = [pc EXCEPT ![c] = "creating"]
    /\ UNCHANGED <<fwdVars, coreVars, tok, queue, close, busy, down, got, issued, joined>>

(* attach(token), up to the await of the reply: cancel the grace timer and  *)
(* hand a new Subscriber to the forward task.                               *)
attach(c, s) ==
    /\ pc[c] = "idle"
    /\ s \in issued
    /\ IF s \in held
       THEN /\ armed' = armed \ {s}
            /\ cmds' = [cmds EXCEPT ![s] = Append(@, c)]
            /\ pc' = [pc EXCEPT ![c] = "attaching"]
            /\ tok' = [tok EXCEPT ![c] = s]
       ELSE /\ pc' = [pc EXCEPT ![c] = "creating"]
            /\ UNCHANGED <<armed, cmds, tok>>
    /\ UNCHANGED <<held, owner, firing, fwd, active, scroll, read, coreVars, queue, close,
                   busy, down, got, issued, joined>>

(* create(): the session opens, is entered in the table and its forward     *)
(* task is spawned ...                                                      *)
create(c, s) ==
    /\ pc[c] = "creating"
    /\ fwd[s] = "none"
    /\ held' = held \cup {s}
    /\ owner' = [owner EXCEPT ![s] = c]
    /\ fwd' = [fwd EXCEPT ![s] = "start"]
    /\ active' = [active EXCEPT ![s] = c]
    /\ pc' = [pc EXCEPT ![c] = "opening"]
    /\ tok' = [tok EXCEPT ![c] = s]
    /\ joined' = [joined EXCEPT ![c] = 0]
    /\ UNCHANGED <<armed, firing, cmds, scroll, read, coreVars, queue, close, busy, down,
                   got, issued>>

(* ... or jaild refuses (quota) or cannot be reached: CLOSED and return. *)
CreateFails(c) ==
    /\ pc[c] = "creating"
    /\ pc' = [pc EXCEPT ![c] = "gone"]
    /\ UNCHANGED <<tableVars, fwdVars, coreVars, tok, queue, close, busy, down, got,
                   issued, joined>>

(* Something for the pump: send waits for room, and fails if the pump is gone. *)
Sends(s) ==
    /\ s \in ended \/ typed[s] < InCap
    /\ typed' = IF s \in ended THEN typed ELSE [typed EXCEPT ![s] = @ + 1]
    /\ UNCHANGED <<pump, made, ended>>

(* The window size goes to the session.  Then OPENED reaches the browser    *)
(* and the down task starts ...                                             *)
SendOpened(c) ==
    /\ pc[c] = "opening"
    /\ Sends(tok[c])
    /\ pc' = [pc EXCEPT ![c] = "up"]
    /\ down' = [down EXCEPT ![c] = "run"]
    /\ issued' = issued \cup {tok[c]}
    /\ UNCHANGED <<tableVars, fwdVars, tok, queue, close, busy, got, joined>>

(* Mutant: handle returns without detaching. *)
SendOpenedFailsHeld(c) ==
    /\ pc[c] = "opening"
    /\ Sends(tok[c])
    /\ pc' = [pc EXCEPT ![c] = "gone"]
    /\ DropQueue(c)
    /\ UNCHANGED <<tableVars, fwdVars, tok, down, got, issued, joined>>

(* ... or the WebSocket is already dead: detach and return. *)
SendOpenedFails(c) ==
    /\ pc[c] = "opening"
    /\ Sends(tok[c])
    /\ detach(tok[c], c)
    /\ pc' = [pc EXCEPT ![c] = "gone"]
    /\ DropQueue(c)
    /\ UNCHANGED <<fwdVars, tok, down, got, issued, joined>>

(* The upstream loop: a keystroke or a resize from the browser. *)
TypeIn(c) ==
    /\ pc[c] = "up"
    /\ tok[c] \notin ended
    /\ Sends(tok[c])
    /\ UNCHANGED <<tableVars, fwdVars, connVars>>

(* The upstream loop ends (browser closed, network lost, session dead):     *)
(* abort the down task and detach.                                          *)
WsDrop(c) ==
    /\ pc[c] = "up"
    /\ detach(tok[c], c)
    /\ pc' = [pc EXCEPT ![c] = "gone"]
    /\ down' = [down EXCEPT ![c] = "stopped"]
    /\ got' = [got EXCEPT ![c] = <<>>]
    /\ DropQueue(c)
    /\ UNCHANGED <<fwdVars, coreVars, tok, issued, joined>>

-----------------------------------------------------------------------------
(* handle: the down task *)

DownIdle(c) == pc[c] = "up" /\ down[c] = "run" /\ busy[c] = <<>>

(* biased: a close request goes before queued output, which is dropped. *)
DownClose(c) ==
    /\ DownIdle(c)
    /\ close[c] # None
    /\ down' = [down EXCEPT ![c] = "stopped"]
    /\ DropQueue(c)
    /\ UNCHANGED <<tableVars, fwdVars, coreVars, pc, tok, got, issued, joined>>

(* Take the next item; while it is being written no close is noticed. *)
DownRecv(c) ==
    /\ DownIdle(c)
    /\ close[c] = None
    /\ queue[c] # <<>>
    /\ busy' = [busy EXCEPT ![c] = Head(queue[c])]
    /\ queue' = [queue EXCEPT ![c] = Tail(@)]
    /\ UNCHANGED <<tableVars, fwdVars, coreVars, pc, tok, close, down, got, issued, joined>>

(* The queue is drained and its sender gone: CLOSED "exit" and stop. *)
DownExit(c) ==
    /\ DownIdle(c)
    /\ close[c] = None
    /\ queue[c] = <<>>
    /\ ~SenderAlive(c)
    /\ down' = [down EXCEPT ![c] = "stopped"]
    /\ DropQueue(c)
    /\ UNCHANGED <<tableVars, fwdVars, coreVars, pc, tok, got, issued, joined>>

(* ws_tx.send completes ... *)
DownSent(c) ==
    /\ pc[c] = "up" /\ down[c] = "run" /\ busy[c] # <<>>
    /\ got' = [got EXCEPT ![c] = @ \o busy[c]]
    /\ busy' = [busy EXCEPT ![c] = <<>>]
    /\ UNCHANGED <<tableVars, fwdVars, coreVars, pc, tok, queue, close, down, issued, joined>>

(* ... or fails: the task breaks out and drops the queue. *)
DownSendFails(c) ==
    /\ pc[c] = "up" /\ down[c] = "run" /\ busy[c] # <<>>
    /\ down' = [down EXCEPT ![c] = "stopped"]
    /\ DropQueue(c)
    /\ UNCHANGED <<tableVars, fwdVars, coreVars, pc, tok, got, issued, joined>>

-----------------------------------------------------------------------------
(* forward_output *)

(* A new session replays nothing, but the mark that ends the replay is sent. *)
FwdStart(s) ==
    /\ fwd[s] = "start"
    /\ LET c == active[s] IN
       IF QueueOpen(c)
       THEN /\ queue' = [queue EXCEPT ![c] = Append(@, <<ReplayEnd>>)]
            /\ fwd' = [fwd EXCEPT ![s] = "loop"]
            /\ UNCHANGED <<tableVars, active, cmds, pc>>
       ELSE /\ RemoveEntry(s)
            /\ fwd' = [fwd EXCEPT ![s] = "done"]
            /\ active' = [active EXCEPT ![s] = None]
            /\ cmds' = [cmds EXCEPT ![s] = <<>>]
            /\ pc' = [d \in Conns |-> IF d \in Attaching(s) THEN "creating" ELSE pc[d]]
            /\ UNCHANGED queue
    /\ UNCHANGED <<scroll, read, coreVars, tok, close, busy, down, got, issued, joined>>

(* FwdCmd::Attach: replay, then install the new owner if the entry is still *)
(* in the table, replace the old Subscriber and answer.  The replay goes to *)
(* an empty queue nobody reads yet: if it did not fit, the task would wait  *)
(* for ever, hence the conjunct on QueueCap.                                *)
FwdAttach(s) ==
    /\ fwd[s] = "loop"
    /\ cmds[s] # <<>>
    /\ LET c == Head(cmds[s])
           old == active[s]
       IN
       /\ Len(Replay(scroll[s])) <= QueueCap
       /\ cmds' = [cmds EXCEPT ![s] = Tail(@)]
       /\ IF s \in held
          THEN /\ armed' = armed \ {s}
               /\ owner' = [owner EXCEPT ![s] = c]
               /\ active' = [active EXCEPT ![s] = c]
               /\ queue' = [queue EXCEPT ![c] = Replay(scroll[s])]
               /\ close' = [d \in Conns |-> IF d = old /\ QueueOpen(d) THEN "Replaced"
                                                                   ELSE close[d]]
               /\ joined' = [joined EXCEPT ![c] = read[s]]
               /\ pc' = [pc EXCEPT ![c] = "opening"]
          ELSE /\ pc' = [pc EXCEPT ![c] = "creating"]
               /\ UNCHANGED <<armed, owner, active, queue, close, joined>>
    /\ UNCHANGED <<held, firing, fwd, scroll, read, coreVars, tok, busy, down, got, issued>>

(* One unit of output: into the scrollback and, without waiting, to the     *)
(* current connection.  A full queue closes that connection, a closed one   *)
(* is forgotten.                                                            *)
FwdOutput(s) ==
    /\ fwd[s] = "loop"
    /\ read[s] < made[s]
    /\ read' = [read EXCEPT ![s] = @ + 1]
    /\ scroll' = [scroll EXCEPT ![s] = Scrolled(@, read[s] + 1)]
    /\ LET c == active[s] IN
       \/ /\ c = None
          /\ UNCHANGED <<active, queue, close>>
       \/ /\ c # None
          /\ ~QueueOpen(c)
          /\ active' = [active EXCEPT ![s] = None]
          /\ UNCHANGED <<queue, close>>
       \/ /\ c # None
          /\ QueueOpen(c)
          /\ Len(queue[c]) < QueueCap
          /\ queue' = [queue EXCEPT ![c] = Append(@, <<read[s] + 1>>)]
          /\ UNCHANGED <<active, close>>
       \/ /\ c # None
          /\ QueueOpen(c)
          /\ Len(queue[c]) >= QueueCap
          /\ active' = [active EXCEPT ![s] = None]
          /\ close' = [close EXCEPT ![c] = "SlowConsumer"]
          /\ UNCHANGED queue
    /\ UNCHANGED <<tableVars, fwd, cmds, coreVars, pc, tok, busy, down, got, issued, joined>>

(* The output channel is closed and drained, or nobody holds fwd_cmd any    *)
(* more: the task removes the entry and returns; the commands it did not    *)
(* take are dropped, so their attach() calls return None.                   *)
FwdEnd(s) ==
    /\ fwd[s] = "loop"
    /\ \/ s \in ended /\ read[s] = made[s]
       \/ s \notin held /\ Attaching(s) = {}
    /\ RemoveEntry(s)
    /\ fwd' = [fwd EXCEPT ![s] = "done"]
    /\ active' = [active EXCEPT ![s] = None]
    /\ cmds' = [cmds EXCEPT ![s] = <<>>]
    /\ scroll' = [scroll EXCEPT ![s] = <<>>]
    /\ pc' = [c \in Conns |-> IF c \in Attaching(s) THEN "creating" ELSE pc[c]]
    /\ UNCHANGED <<read, coreVars, tok, queue, close, busy, down, got, issued, joined>>

-----------------------------------------------------------------------------
(* The core pump *)

Running(s) == fwd[s] # "none" /\ s \notin ended

Ends(s) ==
    /\ ended' = ended \cup {s}
    /\ pump' = [pump EXCEPT ![s] = "select"]
    /\ UNCHANGED <<tableVars, fwdVars, typed, made, connVars>>

(* select! takes a keystroke or a resize, and sends it to jaild ... *)
PumpTakes(s) ==
    /\ Running(s) /\ pump[s] = "select"
    /\ typed[s] > 0
    /\ typed' = [typed EXCEPT ![s] = @ - 1]
    /\ pump' = [pump EXCEPT ![s] = "sending"]
    /\ UNCHANGED <<tableVars, fwdVars, made, ended, connVars>>

(* ... for as long as the socket is full.  Meanwhile it sees nothing else. *)
PumpSent(s) ==
    /\ Running(s) /\ pump[s] = "sending"
    /\ pump' = [pump EXCEPT ![s] = "select"]
    /\ UNCHANGED <<tableVars, fwdVars, typed, made, ended, connVars>>

PumpSendFails(s) == Running(s) /\ pump[s] = "sending" /\ Ends(s)

(* select! takes a DATA frame from jaild, which goes to the output channel, *)
(* waiting for room ...                                                     *)
PumpFrame(s) ==
    /\ Running(s) /\ pump[s] = "select"
    /\ made[s] < MaxOut
    /\ pump' = [pump EXCEPT ![s] = "pushing"]
    /\ UNCHANGED <<tableVars, fwdVars, typed, made, ended, connVars>>

PumpPush(s) ==
    /\ Running(s) /\ pump[s] = "pushing"
    /\ fwd[s] # "done"
    /\ made[s] - read[s] < OutCap
    /\ made' = [made EXCEPT ![s] = @ + 1]
    /\ pump' = [pump EXCEPT ![s] = "select"]
    /\ UNCHANGED <<tableVars, fwdVars, typed, ended, connVars>>

(* ... unless the forward task has dropped the receiver. *)
PumpPushFails(s) == Running(s) /\ pump[s] = "pushing" /\ fwd[s] = "done" /\ Ends(s)

(* jaild closes the session (shell exit, idle timeout, crash). *)
PumpEnds(s) == Running(s) /\ pump[s] = "select" /\ Ends(s)

(* Mutant: the pump does not stop when its input closes. *)
PumpInputIgnored(s) == Running(s) /\ s \notin held /\ UNCHANGED vars

(* input.recv() or ctrl.recv() returns None: entry and connections have all *)
(* let go, and nothing is left in that channel.                             *)
PumpInputClosed(s) ==
    /\ Running(s) /\ pump[s] = "select"
    /\ s \notin held
    /\ Holders(s) = {}
    /\ Ends(s)

-----------------------------------------------------------------------------
Init ==
    /\ held = {}
    /\ owner = [s \in Sessions |-> None]
    /\ armed = {}
    /\ firing = {}
    /\ fwd = [s \in Sessions |-> "none"]
    /\ active = [s \in Sessions |-> None]
    /\ cmds = [s \in Sessions |-> <<>>]
    /\ scroll = [s \in Sessions |-> <<>>]
    /\ read = [s \in Sessions |-> 0]
    /\ typed = [s \in Sessions |-> 0]
    /\ pump = [s \in Sessions |-> "select"]
    /\ made = [s \in Sessions |-> 0]
    /\ ended = {}
    /\ pc = [c \in Conns |-> "idle"]
    /\ tok = [c \in Conns |-> None]
    /\ queue = [c \in Conns |-> <<>>]
    /\ close = [c \in Conns |-> None]
    /\ busy = [c \in Conns |-> <<>>]
    /\ down = [c \in Conns |-> "none"]
    /\ got = [c \in Conns |-> <<>>]
    /\ issued = {}
    /\ joined = [c \in Conns |-> 0]

Handle(c) ==
    \/ HandleOpen(c) \/ CreateFails(c) \/ SendOpened(c) \/ SendOpenedFails(c)
    \/ TypeIn(c) \/ WsDrop(c)
    \/ \E s \in Sessions : HandleFresh(c, s) \/ attach(c, s) \/ create(c, s)

Down(c) ==
    DownClose(c) \/ DownRecv(c) \/ DownExit(c) \/ DownSent(c) \/ DownSendFails(c)

forward_output(s) == FwdStart(s) \/ FwdAttach(s) \/ FwdOutput(s) \/ FwdEnd(s)

Timer(s) == TimerElapse(s) \/ TimerRemove(s)

Pump(s) ==
    \/ PumpTakes(s) \/ PumpSent(s) \/ PumpSendFails(s)
    \/ PumpFrame(s) \/ PumpPush(s) \/ PumpPushFails(s)
    \/ PumpEnds(s) \/ PumpInputClosed(s)

Next ==
    \/ \E c \in Conns : Handle(c) \/ Down(c)
    \/ \E s \in Sessions : forward_output(s) \/ Timer(s) \/ Pump(s)

Spec == Init /\ [][Next]_vars

(* The gateway's own tasks run; browsers, networks and jaild need not act.  *)
(* A send of OPENED succeeds or fails, a client.open returns.  The pump     *)
(* waits for room in the output channel, and a branch of its select! that   *)
(* stays ready is taken some time, for select! starts at a random one; but  *)
(* link.send waits for jaild to read, which may never happen.               *)
Fairness ==
    /\ \A s \in Sessions : /\ WF_vars(forward_output(s))
                           /\ WF_vars(TimerElapse(s)) /\ WF_vars(TimerRemove(s))
                           /\ WF_vars(PumpPush(s) \/ PumpPushFails(s))
                           /\ SF_vars(PumpTakes(s))
                           /\ SF_vars(typed[s] = 0 /\ PumpInputClosed(s))
    /\ \A c \in Conns : /\ WF_vars(SendOpened(c) \/ SendOpenedFails(c))
                        /\ WF_vars(CreateFails(c) \/ \E s \in Sessions : create(c, s))

FairSpec == Spec /\ Fairness
-----------------------------------------------------------------------------
(* Every variable has its type; the scrollback and the private queues stay  *)
(* within SCROLLBACK_BYTES and OUTPUT_CHUNKS.                               *)
TypeOK ==
    /\ held \subseteq Sessions /\ armed \subseteq Sessions /\ firing \subseteq Sessions
    /\ ended \subseteq Sessions /\ issued \subseteq Sessions
    /\ owner \in [Sessions -> Conns \cup {None}]
    /\ active \in [Sessions -> Conns \cup {None}]
    /\ fwd \in [Sessions -> {"none", "start", "loop", "done"}]
    /\ cmds \in [Sessions -> Seq(Conns)]
    /\ scroll \in [Sessions -> Seq(Nat)]
    /\ \A s \in Sessions : Len(scroll[s]) <= ScrollCap
    /\ read \in [Sessions -> Nat] /\ made \in [Sessions -> Nat]
    /\ typed \in [Sessions -> 0 .. InCap]
    /\ pump \in [Sessions -> {"select", "sending", "pushing"}]
    /\ pc \in [Conns -> {"idle", "attaching", "creating", "opening", "up", "gone"}]
    /\ tok \in [Conns -> Sessions \cup {None}]
    /\ queue \in [Conns -> Seq(Seq(Nat))]
    /\ \A c \in Conns : Len(queue[c]) <= QueueCap
    /\ close \in [Conns -> {None, "Replaced", "SlowConsumer"}]
    /\ busy \in [Conns -> Seq(Nat)] /\ got \in [Conns -> Seq(Nat)]
    /\ down \in [Conns -> {"none", "run", "stopped"}]
    /\ joined \in [Conns -> Nat]

(* The table and the forward task agree on who the session belongs to: the  *)
(* connection that is served is the owner, however attaches, late detaches  *)
(* of replaced connections and slow-consumer closes interleave.             *)
ServedIsOwner ==
    \A s \in held : \A c \in Conns :
        active[s] = c /\ pc[c] \in {"opening", "up"} => owner[s] = c

(* Nothing is held for nobody: the owner of an entry is a connection whose  *)
(* handle task still runs and will detach it, and an entry without an owner *)
(* has a grace timer, or an attach on its way that took the timer away.     *)
HeldForAReason ==
    \A s \in held :
        IF owner[s] = None
        THEN s \in armed \cup firing \/ Attaching(s) # {}
        ELSE pc[owner[s]] \in {"opening", "up"} /\ tok[owner[s]] = s

(* The units numbered m to n. *)
Run(m, n) == [i \in 1 .. (IF n < m THEN 0 ELSE n - m + 1) |-> m + i - 1]

(* The first unit the scrollback still holds after n units. *)
Oldest(n) == IF n > ScrollCap THEN n - ScrollCap + 1 ELSE 1

(* Everything connection c has received or still has coming, in order. *)
Stream(c) == got[c] \o busy[c] \o FlattenSeq(queue[c])

(* The stream that is exact up to unit n: the scrollback as of the moment   *)
(* the connection joined, the end-of-replay mark once, then every unit      *)
(* printed since.                                                           *)
ExactStream(c, n) ==
    Run(Oldest(joined[c]), joined[c]) \o <<ReplayEnd>> \o Run(joined[c] + 1, n)

(* sessions.rs: a connection gets "the complete replay and then the live    *)
(* output, nothing twice and nothing missing", and a queue that overflows   *)
(* closes the connection rather than lose a frame silently.  While it is    *)
(* the active one its stream reaches up to the last unit read; once it is   *)
(* not, the stream just stops.                                              *)
NoLossNoRepeat ==
    \A c \in Conns :
        LET s == tok[c] IN
        pc[c] \in {"opening", "up"} /\ fwd[s] # "start" =>
            IF active[s] = c /\ QueueOpen(c)
            THEN Stream(c) = ExactStream(c, read[s])
            ELSE IsPrefix(Stream(c), ExactStream(c, read[s]))

(* sessions.rs says of idle_timer that a new attach cancels it: a session   *)
(* that has an owner leaves the table only because the session itself ended.*)
OwnedStaysHeld ==
    [][\A s \in held : owner[s] # None /\ s \notin held' => s \in ended]_vars

(* An attach is always answered: the forward task never gets stuck in a     *)
(* replay and drops no command without an answer.                           *)
AttachAnswered ==
    \A c \in Conns : pc[c] = "attaching" ~> pc[c] # "attaching"

(* A session nobody owns is taken up again or leaves the table. *)
DetachedIsCollected ==
    \A s \in Sessions :
        s \in held /\ owner[s] = None ~> s \notin held \/ owner[s] # None

(* A session that left the table and that no connection refers to. *)
Removed(s) == fwd[s] # "none" /\ s \notin held /\ Holders(s) = {}

(* A removed session loses its forward task, and it loses its pump, so that *)
(* jaild gets its slot back, unless the pump waits in link.send for ever:   *)
(* there it does not see that its input is closed.                          *)
RemovedIsReclaimed ==
    \A s \in Sessions :
        /\ Removed(s) ~> fwd[s] = "done"
        /\ []<>(pump[s] # "sending") => (Removed(s) ~> s \in ended)
=============================================================================
