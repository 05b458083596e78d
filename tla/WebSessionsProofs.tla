-------------------------- MODULE WebSessionsProofs --------------------------
(***************************************************************************)
(* What WebSessions promises for any number of connections and sessions    *)
(* and any capacities: its types, that the connection served is the owner, *)
(* and that nothing is held for nobody.  The three are proved together     *)
(* with the bookkeeping they need.                                         *)
(***************************************************************************)
EXTENDS WebSessions, WellFoundedInduction, SequenceTheorems, TLAPS

(* Every command waiting for a forward task is from a connection that waits *)
(* for its answer, and no connection waits twice.                           *)
CmdsOK ==
    \A s \in Sessions :
        /\ \A i \in 1 .. Len(cmds[s]) : /\ pc[cmds[s][i]] = "attaching"
                                        /\ tok[cmds[s][i]] = s
        /\ \A i, j \in 1 .. Len(cmds[s]) : cmds[s][i] = cmds[s][j] => i = j

(* A token nobody generated yet is nowhere. *)
FreshOK ==
    \A s \in Sessions : fwd[s] = "none" => s \notin held /\ s \notin issued /\ active[s] = None

(* A connection with a session knows the token of one that was created;     *)
(* before that it has no queue.                                             *)
ConnOK ==
    \A c \in Conns : /\ pc[c] \in {"attaching", "opening", "up"}
                         => tok[c] \in Sessions /\ fwd[tok[c]] # "none"
                     /\ pc[c] \in {"idle", "attaching", "creating"} => queue[c] = <<>>

(* The Subscriber of a forward task has been given to exactly this session. *)
ActiveOK ==
    \A s \in Sessions :
        /\ active[s] # None => /\ tok[active[s]] = s
                               /\ pc[active[s]] \in {"opening", "up", "gone"}
        /\ fwd[s] = "start" => active[s] \in Conns /\ queue[active[s]] = <<>>

IInv ==
    /\ TypeOK /\ CmdsOK /\ FreshOK /\ ConnOK /\ ActiveOK
    /\ ServedIsOwner /\ HeldForAReason

USE ConstAssumption

-----------------------------------------------------------------------------
(* Sequences *)

(* The scrollback holds units and is trimmed to its limit. *)
LEMMA ScrolledType ==
    ASSUME NEW buf \in Seq(Nat), NEW u \in Nat
    PROVE  Scrolled(buf, u) \in Seq(Nat) /\ Len(Scrolled(buf, u)) <= ScrollCap
<1> DEFINE long == Append(buf, u)
<1>1. long \in Seq(Nat) /\ Len(long) = Len(buf) + 1 /\ Len(buf) \in Nat
  OBVIOUS
<1>2. CASE Len(long) > ScrollCap
  <2>1. Len(long) - ScrollCap + 1 \in 1 .. Len(long)
    BY <1>1, <1>2
  <2>2. /\ SubSeq(long, Len(long) - ScrollCap + 1, Len(long)) \in Seq(Nat)
        /\ Len(SubSeq(long, Len(long) - ScrollCap + 1, Len(long))) = ScrollCap
    BY <1>1, <1>2, <2>1, SubSeqProperties
  <2>3. Scrolled(buf, u) = SubSeq(long, Len(long) - ScrollCap + 1, Len(long))
    BY <1>2 DEF Scrolled
  <2> HIDE DEF long
  <2> QED BY <2>2, <2>3
<1>3. CASE ~(Len(long) > ScrollCap)
  BY <1>1, <1>3 DEF Scrolled
<1> QED BY <1>2, <1>3

(* A replay is a sequence of items, each a sequence of units. *)
LEMMA ReplayType ==
    ASSUME NEW buf \in Seq(Nat)
    PROVE  Replay(buf) \in Seq(Seq(Nat))
<1> DEFINE n == (Len(buf) + ReplayChunk - 1) \div ReplayChunk
           hi(i) == IF i * ReplayChunk < Len(buf) THEN i * ReplayChunk ELSE Len(buf)
           item(i) == SubSeq(buf, (i - 1) * ReplayChunk + 1, hi(i))
<1>1. n \in Int
  OBVIOUS
<1>2. ASSUME NEW i \in 1 .. n PROVE item(i) \in Seq(Nat)
  <2>1. i \in Nat /\ i - 1 \in Nat /\ Len(buf) \in Nat
    BY <1>1
  <2>2. (i - 1) * ReplayChunk \in Nat /\ i * ReplayChunk \in Nat
    BY <2>1, SMT
  <2>3. \A j \in (i - 1) * ReplayChunk + 1 .. hi(i) : j \in 1 .. Len(buf) /\ buf[j] \in Nat
    BY <2>1, <2>2
  <2> HIDE DEF hi
  <2>4. hi(i) \in Nat
    BY <2>1, <2>2 DEF hi
  <2> QED BY <2>2, <2>3, <2>4
<1>3. n \in Nat
  BY SMT
<1>4. Chunks(buf) = [i \in 1 .. n |-> item(i)]
  BY DEF Chunks
<1> HIDE DEF n, item
<1>5. Chunks(buf) \in Seq(Seq(Nat))
  BY <1>2, <1>3, <1>4
<1> QED BY <1>5 DEF Replay, ReplayEnd

-----------------------------------------------------------------------------
(* Frames: what each part of the invariant does not depend on. *)

(* CmdsOK survives while nobody leaves or changes the attach it waits for. *)
LEMMA CmdsFrame ==
    ASSUME TypeOK, CmdsOK, cmds' = cmds,
           \A d \in Conns : pc[d] = "attaching" => pc'[d] = "attaching" /\ tok'[d] = tok[d]
    PROVE  CmdsOK'
<1> SUFFICES ASSUME NEW s \in Sessions
             PROVE  /\ \A i \in 1 .. Len(cmds[s]) : /\ pc'[cmds[s][i]] = "attaching"
                                                    /\ tok'[cmds[s][i]] = s
                    /\ \A i, j \in 1 .. Len(cmds[s]) : cmds[s][i] = cmds[s][j] => i = j
  BY DEF CmdsOK
<1>1. cmds[s] \in Seq(Conns)
  BY DEF TypeOK
<1>2. \A i \in 1 .. Len(cmds[s]) : cmds[s][i] \in Conns
  BY <1>1
<1> QED BY <1>2 DEF CmdsOK

(* FreshOK survives while new tokens stay untouched. *)
LEMMA FreshFrame ==
    ASSUME FreshOK,
           \A s \in Sessions : fwd'[s] = "none" =>
              /\ fwd[s] = "none"
              /\ s \in held' => s \in held
              /\ s \in issued' => s \in issued
              /\ active'[s] = active[s]
    PROVE  FreshOK'
BY DEF FreshOK

(* ConnOK survives while connections only let go and queues do not fill. *)
LEMMA ConnFrame ==
    ASSUME TypeOK, ConnOK,
           \A s \in Sessions : fwd[s] # "none" => fwd'[s] # "none",
           \A d \in Conns :
              /\ pc'[d] \in {"attaching", "opening", "up"} =>
                    pc[d] \in {"attaching", "opening", "up"} /\ tok'[d] = tok[d]
              /\ pc'[d] \in {"idle", "attaching", "creating"} =>
                    pc[d] \in {"idle", "attaching", "creating"} /\ queue'[d] = queue[d]
    PROVE  ConnOK'
BY DEF ConnOK

(* ActiveOK survives while the Subscribers and their connections stay. *)
LEMMA ActiveFrame ==
    ASSUME TypeOK, ActiveOK, fwd' = fwd, active' = active,
           \A d \in Conns :
              /\ pc[d] \in {"opening", "up", "gone"} =>
                    pc'[d] \in {"opening", "up", "gone"} /\ tok'[d] = tok[d]
              /\ pc[d] \in {"opening", "up", "gone"} /\ queue[d] = <<>> => queue'[d] = <<>>
    PROVE  ActiveOK'
<1> SUFFICES ASSUME NEW s \in Sessions
             PROVE  /\ active[s] # None => /\ tok'[active[s]] = s
                                           /\ pc'[active[s]] \in {"opening", "up", "gone"}
                    /\ fwd[s] = "start" => active[s] \in Conns /\ queue'[active[s]] = <<>>
  BY DEF ActiveOK
<1>1. active[s] \in Conns \cup {None}
  BY DEF TypeOK
<1> QED BY <1>1 DEF ActiveOK

(* ServedIsOwner survives while nobody starts to be served. *)
LEMMA ServedFrame ==
    ASSUME TypeOK, ServedIsOwner, held' \subseteq held, active' = active, owner' = owner,
           \A d \in Conns : pc'[d] \in {"opening", "up"} => pc[d] \in {"opening", "up"}
    PROVE  ServedIsOwner'
BY DEF ServedIsOwner

(* HeldForAReason survives while owners, timers and attaches stay. *)
LEMMA HeldFrame ==
    ASSUME TypeOK, HeldForAReason, held' \subseteq held, owner' = owner,
           \A s \in held' : s \in armed \cup firing => s \in armed' \cup firing',
           \A d \in Conns : tok[d] \in held' =>
              /\ pc[d] = "attaching" => pc'[d] = "attaching" /\ tok'[d] = tok[d]
              /\ pc[d] \in {"opening", "up"} => pc'[d] \in {"opening", "up"} /\ tok'[d] = tok[d]
    PROVE  HeldForAReason'
<1> SUFFICES ASSUME NEW s \in held'
             PROVE  IF owner[s] = None
                    THEN s \in armed' \cup firing' \/ Attaching(s)' # {}
                    ELSE pc'[owner[s]] \in {"opening", "up"} /\ tok'[owner[s]] = s
  BY DEF HeldForAReason
<1>1. s \in held /\ owner[s] \in Conns \cup {None}
  BY DEF TypeOK
<1>2. CASE owner[s] = None
  <2>1. CASE s \in armed \cup firing
    BY <1>2, <2>1
  <2>2. CASE Attaching(s) # {}
    <3>1. PICK d \in Conns : pc[d] = "attaching" /\ tok[d] = s
      BY <2>2 DEF Attaching
    <3>2. d \in Attaching(s)'
      BY <3>1 DEF Attaching
    <3> QED BY <1>2, <3>2
  <2> QED BY <1>1, <1>2, <2>1, <2>2 DEF HeldForAReason
<1>3. CASE owner[s] # None
  BY <1>1, <1>3 DEF HeldForAReason
<1> QED BY <1>2, <1>3

-----------------------------------------------------------------------------
(* One lemma for each action. *)

(* The connection goes on to create. *)
LEMMA HandleOpenKeeps ==
    ASSUME IInv, NEW c \in Conns, HandleOpen(c)
    PROVE  IInv'
<1> USE DEF IInv, HandleOpen, tableVars, fwdVars, coreVars, connVars
<1>1. TypeOK'
  BY DEF TypeOK
<1>2. CmdsOK'
  BY CmdsFrame DEF TypeOK
<1>3. FreshOK'
  BY FreshFrame DEF TypeOK
<1>4. ConnOK'
  BY ConnFrame DEF TypeOK
<1>5. ActiveOK'
  BY ActiveFrame DEF TypeOK
<1>6. ServedIsOwner'
  BY ServedFrame DEF TypeOK
<1>7. HeldForAReason'
  BY HeldFrame DEF TypeOK
<1> QED BY <1>1, <1>2, <1>3, <1>4, <1>5, <1>6, <1>7

(* The connection goes without a session. *)
LEMMA CreateFailsKeeps ==
    ASSUME IInv, NEW c \in Conns, CreateFails(c)
    PROVE  IInv'
<1> USE DEF IInv, CreateFails, tableVars, fwdVars, coreVars, connVars
<1>1. TypeOK'
  BY DEF TypeOK
<1>2. CmdsOK'
  BY CmdsFrame DEF TypeOK
<1>3. FreshOK'
  BY FreshFrame DEF TypeOK
<1>4. ConnOK'
  BY ConnFrame DEF TypeOK
<1>5. ActiveOK'
  BY ActiveFrame DEF TypeOK
<1>6. ServedIsOwner'
  BY ServedFrame DEF TypeOK
<1>7. HeldForAReason'
  BY HeldFrame DEF TypeOK
<1> QED BY <1>1, <1>2, <1>3, <1>4, <1>5, <1>6, <1>7

(* reset takes an entry out of the table only if nobody owns it. *)
LEMMA HandleFreshKeeps ==
    ASSUME IInv, NEW c \in Conns, NEW s \in Sessions, HandleFresh(c, s)
    PROVE  IInv'
<1> USE DEF IInv, HandleFresh, RemoveEntry, tableVars, fwdVars, coreVars, connVars
<1>1. TypeOK'
  BY DEF TypeOK
<1>2. CmdsOK'
  BY CmdsFrame DEF TypeOK
<1>3. FreshOK'
  BY FreshFrame DEF TypeOK
<1>4. ConnOK'
  BY ConnFrame DEF TypeOK
<1>5. ActiveOK'
  BY ActiveFrame DEF TypeOK
<1>6. ServedIsOwner'
  BY ServedFrame DEF TypeOK
<1>7. HeldForAReason'
  BY HeldFrame DEF TypeOK
<1> QED BY <1>1, <1>2, <1>3, <1>4, <1>5, <1>6, <1>7

(* The types of the core pump's variables. *)
CoreType ==
    /\ typed \in [Sessions -> 0 .. InCap] /\ made \in [Sessions -> Nat]
    /\ pump \in [Sessions -> {"select", "sending", "pushing"}]
    /\ ended \subseteq Sessions

(* What a connection sends to the pump fits into its channel. *)
LEMMA SendsType ==
    ASSUME TypeOK, NEW s \in Sessions, Sends(s)
    PROVE  CoreType'
<1>1. CASE s \in ended
  BY <1>1 DEF Sends, CoreType, TypeOK
<1>2. CASE s \notin ended
  <2>1. typed' = [typed EXCEPT ![s] = typed[s] + 1] /\ typed[s] < InCap /\ typed[s] \in 0 .. InCap
    BY <1>2 DEF Sends, TypeOK
  <2>2. typed[s] + 1 \in 0 .. InCap
    BY <2>1
  <2>3. typed' \in [Sessions -> 0 .. InCap]
    BY <2>1, <2>2 DEF TypeOK
  <2> QED BY <2>3 DEF Sends, CoreType, TypeOK
<1> QED BY <1>1, <1>2

(* The browser learns the token of a session that exists. *)
LEMMA SendOpenedKeeps ==
    ASSUME IInv, NEW c \in Conns, SendOpened(c)
    PROVE  IInv'
<1> USE DEF IInv, SendOpened, tableVars, fwdVars, coreVars, connVars
<1>1. TypeOK'
  <2>1. tok[c] \in Sessions
    BY DEF ConnOK
  <2>2. CoreType'
    BY <2>1, SendsType
  <2> QED BY <2>1, <2>2 DEF TypeOK, CoreType
<1>2. CmdsOK'
  BY CmdsFrame DEF TypeOK
<1>3. FreshOK'
  BY FreshFrame DEF TypeOK, ConnOK
<1>4. ConnOK'
  BY ConnFrame DEF TypeOK
<1>5. ActiveOK'
  BY ActiveFrame DEF TypeOK
<1>6. ServedIsOwner'
  BY ServedFrame DEF TypeOK
<1>7. HeldForAReason'
  BY HeldFrame DEF TypeOK
<1> QED BY <1>1, <1>2, <1>3, <1>4, <1>5, <1>6, <1>7

(* The down task stops; the table learns of it when handle detaches. *)
LEMMA DownCloseKeeps ==
    ASSUME IInv, NEW c \in Conns, DownClose(c)
    PROVE  IInv'
<1> USE DEF IInv, DownClose, DownIdle, DropQueue, tableVars, fwdVars, coreVars, connVars
<1>1. TypeOK'
  BY DEF TypeOK
<1>2. CmdsOK'
  BY CmdsFrame DEF TypeOK
<1>3. FreshOK'
  BY FreshFrame DEF TypeOK
<1>4. ConnOK'
  BY ConnFrame DEF TypeOK
<1>5. ActiveOK'
  BY ActiveFrame DEF TypeOK
<1>6. ServedIsOwner'
  BY ServedFrame DEF TypeOK
<1>7. HeldForAReason'
  BY HeldFrame DEF TypeOK
<1> QED BY <1>1, <1>2, <1>3, <1>4, <1>5, <1>6, <1>7

(* The down task takes an item: not from a queue FwdStart has yet to fill. *)
LEMMA DownRecvKeeps ==
    ASSUME IInv, NEW c \in Conns, DownRecv(c)
    PROVE  IInv'
<1> USE DEF IInv, DownRecv, DownIdle, tableVars, fwdVars, coreVars, connVars
<1>1. TypeOK'
  <2>1. queue[c] \in Seq(Seq(Nat)) /\ Len(queue[c]) <= QueueCap /\ queue[c] # <<>>
    BY DEF TypeOK
  <2>2. /\ Head(queue[c]) \in Seq(Nat) /\ Tail(queue[c]) \in Seq(Seq(Nat))
        /\ Len(Tail(queue[c])) <= QueueCap
    BY <2>1
  <2>3. /\ busy' \in [Conns -> Seq(Nat)] /\ queue' \in [Conns -> Seq(Seq(Nat))]
        /\ \A d \in Conns : Len(queue'[d]) <= QueueCap
    BY <2>2 DEF TypeOK
  <2> QED BY <2>3 DEF TypeOK
<1>2. CmdsOK'
  BY CmdsFrame DEF TypeOK
<1>3. FreshOK'
  BY FreshFrame DEF TypeOK
<1>4. ConnOK'
  BY ConnFrame DEF TypeOK
<1>5. ActiveOK'
  BY ActiveFrame DEF TypeOK
<1>6. ServedIsOwner'
  BY ServedFrame DEF TypeOK
<1>7. HeldForAReason'
  BY HeldFrame DEF TypeOK
<1> QED BY <1>1, <1>2, <1>3, <1>4, <1>5, <1>6, <1>7

(* The down task stops at the end of its queue. *)
LEMMA DownExitKeeps ==
    ASSUME IInv, NEW c \in Conns, DownExit(c)
    PROVE  IInv'
<1> USE DEF IInv, DownExit, DownIdle, DropQueue, tableVars, fwdVars, coreVars, connVars
<1>1. TypeOK'
  BY DEF TypeOK
<1>2. CmdsOK'
  BY CmdsFrame DEF TypeOK
<1>3. FreshOK'
  BY FreshFrame DEF TypeOK
<1>4. ConnOK'
  BY ConnFrame DEF TypeOK
<1>5. ActiveOK'
  BY ActiveFrame DEF TypeOK
<1>6. ServedIsOwner'
  BY ServedFrame DEF TypeOK
<1>7. HeldForAReason'
  BY HeldFrame DEF TypeOK
<1> QED BY <1>1, <1>2, <1>3, <1>4, <1>5, <1>6, <1>7

(* Only the browser and the frame being written change. *)
LEMMA DownSentKeeps ==
    ASSUME IInv, NEW c \in Conns, DownSent(c)
    PROVE  IInv'
<1> USE DEF IInv, DownSent, tableVars, fwdVars, coreVars, connVars
<1>1. TypeOK'
  BY DEF TypeOK
<1>2. CmdsOK'
  BY CmdsFrame DEF TypeOK
<1>3. FreshOK'
  BY FreshFrame DEF TypeOK
<1>4. ConnOK'
  BY ConnFrame DEF TypeOK
<1>5. ActiveOK'
  BY ActiveFrame DEF TypeOK
<1>6. ServedIsOwner'
  BY ServedFrame DEF TypeOK
<1>7. HeldForAReason'
  BY HeldFrame DEF TypeOK
<1> QED BY <1>1, <1>2, <1>3, <1>4, <1>5, <1>6, <1>7

(* The down task stops on a broken WebSocket. *)
LEMMA DownSendFailsKeeps ==
    ASSUME IInv, NEW c \in Conns, DownSendFails(c)
    PROVE  IInv'
<1> USE DEF IInv, DownSendFails, DropQueue, tableVars, fwdVars, coreVars, connVars
<1>1. TypeOK'
  BY DEF TypeOK
<1>2. CmdsOK'
  BY CmdsFrame DEF TypeOK
<1>3. FreshOK'
  BY FreshFrame DEF TypeOK
<1>4. ConnOK'
  BY ConnFrame DEF TypeOK
<1>5. ActiveOK'
  BY ActiveFrame DEF TypeOK
<1>6. ServedIsOwner'
  BY ServedFrame DEF TypeOK
<1>7. HeldForAReason'
  BY HeldFrame DEF TypeOK
<1> QED BY <1>1, <1>2, <1>3, <1>4, <1>5, <1>6, <1>7

(* A timer that has run out still stands for the entry. *)
LEMMA TimerElapseKeeps ==
    ASSUME IInv, NEW s \in Sessions, TimerElapse(s)
    PROVE  IInv'
<1> USE DEF IInv, TimerElapse, tableVars, fwdVars, coreVars, connVars
<1>1. TypeOK'
  BY DEF TypeOK
<1>2. CmdsOK'
  BY CmdsFrame DEF TypeOK
<1>3. FreshOK'
  BY FreshFrame DEF TypeOK
<1>4. ConnOK'
  BY ConnFrame DEF TypeOK
<1>5. ActiveOK'
  BY ActiveFrame DEF TypeOK
<1>6. ServedIsOwner'
  BY ServedFrame DEF TypeOK
<1>7. HeldForAReason'
  BY HeldFrame DEF TypeOK
<1> QED BY <1>1, <1>2, <1>3, <1>4, <1>5, <1>6, <1>7

(* The timer takes the entry out of the table. *)
LEMMA TimerRemoveKeeps ==
    ASSUME IInv, NEW s \in Sessions, TimerRemove(s)
    PROVE  IInv'
<1> USE DEF IInv, TimerRemove, RemoveEntry, tableVars, fwdVars, coreVars, connVars
<1>1. TypeOK'
  BY DEF TypeOK
<1>2. CmdsOK'
  BY CmdsFrame DEF TypeOK
<1>3. FreshOK'
  BY FreshFrame DEF TypeOK
<1>4. ConnOK'
  BY ConnFrame DEF TypeOK
<1>5. ActiveOK'
  BY ActiveFrame DEF TypeOK
<1>6. ServedIsOwner'
  BY ServedFrame DEF TypeOK
<1>7. HeldForAReason'
  BY HeldFrame DEF TypeOK
<1> QED BY <1>1, <1>2, <1>3, <1>4, <1>5, <1>6, <1>7

(* A step of the pump changes nothing but the pump, and keeps its types. *)
LEMMA PumpType ==
    ASSUME TypeOK, NEW s \in Sessions, Pump(s)
    PROVE  CoreType' /\ UNCHANGED <<tableVars, fwdVars, connVars>>
<1>1. CASE PumpTakes(s)
  <2>1. typed' = [typed EXCEPT ![s] = typed[s] - 1] /\ typed[s] > 0 /\ typed[s] \in 0 .. InCap
    BY <1>1 DEF PumpTakes, TypeOK
  <2>2. typed[s] - 1 \in 0 .. InCap
    BY <2>1
  <2>3. typed' \in [Sessions -> 0 .. InCap]
    BY <2>1, <2>2 DEF TypeOK
  <2> QED BY <1>1, <2>3 DEF PumpTakes, CoreType, TypeOK
<1>2. CASE PumpPush(s)
  <2>1. made' \in [Sessions -> Nat]
    BY <1>2 DEF PumpPush, TypeOK
  <2> QED BY <1>2, <2>1 DEF PumpPush, CoreType, TypeOK
<1>3. CASE PumpSent(s) \/ PumpFrame(s)
  BY <1>3 DEF PumpSent, PumpFrame, CoreType, TypeOK
<1>4. CASE PumpSendFails(s) \/ PumpPushFails(s) \/ PumpEnds(s) \/ PumpInputClosed(s)
  BY <1>4 DEF PumpSendFails, PumpPushFails, PumpEnds, PumpInputClosed, Ends, CoreType, TypeOK
<1> QED BY <1>1, <1>2, <1>3, <1>4 DEF Pump

(* Only the pump and its channels change. *)
LEMMA CoreKeeps ==
    ASSUME IInv, CoreType', UNCHANGED <<tableVars, fwdVars, connVars>>
    PROVE  IInv'
<1> USE DEF IInv, CoreType, tableVars, fwdVars, connVars
<1>1. TypeOK'
  BY DEF TypeOK
<1>2. CmdsOK'
  BY CmdsFrame DEF TypeOK
<1>3. FreshOK'
  BY FreshFrame DEF TypeOK
<1>4. ConnOK'
  BY ConnFrame DEF TypeOK
<1>5. ActiveOK'
  BY ActiveFrame DEF TypeOK
<1>6. ServedIsOwner'
  BY ServedFrame DEF TypeOK
<1>7. HeldForAReason'
  BY HeldFrame DEF TypeOK
<1> QED BY <1>1, <1>2, <1>3, <1>4, <1>5, <1>6, <1>7

(* A keystroke goes to the pump. *)
LEMMA TypeInKeeps ==
    ASSUME IInv, NEW c \in Conns, TypeIn(c)
    PROVE  IInv'
<1>1. tok[c] \in Sessions
  BY DEF TypeIn, IInv, ConnOK
<1>2. CoreType'
  BY <1>1, SendsType DEF TypeIn, IInv
<1> QED BY <1>2, CoreKeeps DEF TypeIn

(* So does a step of the pump. *)
LEMMA PumpKeeps ==
    ASSUME IInv, NEW s \in Sessions, Pump(s)
    PROVE  IInv'
BY PumpType, CoreKeeps DEF IInv

(* attach: the connection waits for the forward task; the timer is gone,    *)
(* and the attach itself is what holds the session.                         *)
LEMMA attachKeeps ==
    ASSUME IInv, NEW c \in Conns, NEW s \in Sessions, attach(c, s)
    PROVE  IInv'
<1> USE DEF IInv, tableVars, fwdVars, coreVars, connVars
<1>1. CASE s \notin held
  <2> HandleOpen(c)
    BY <1>1 DEF attach, HandleOpen
  <2> QED BY HandleOpenKeeps
<1>2. CASE s \in held
  <2>1. /\ pc[c] = "idle" /\ pc' = [pc EXCEPT ![c] = "attaching"]
        /\ tok' = [tok EXCEPT ![c] = s] /\ armed' = armed \ {s}
        /\ cmds' = [cmds EXCEPT ![s] = Append(@, c)]
        /\ UNCHANGED <<held, owner, firing, fwd, active, queue, issued>>
    BY <1>2 DEF attach
  <2>8. TypeOK'
    <3>1. cmds' \in [Sessions -> Seq(Conns)]
      BY <2>1 DEF TypeOK
    <3>2. /\ pc' \in [Conns -> {"idle", "attaching", "creating", "opening", "up", "gone"}]
          /\ tok' \in [Conns -> Sessions \cup {None}] /\ armed' \subseteq Sessions
      BY <2>1 DEF TypeOK
    <3> QED BY <3>1, <3>2 DEF TypeOK, attach
  <2>2. CmdsOK'
    <3> SUFFICES ASSUME NEW t \in Sessions
                 PROVE  /\ \A i \in 1 .. Len(cmds'[t]) : /\ pc'[cmds'[t][i]] = "attaching"
                                                         /\ tok'[cmds'[t][i]] = t
                        /\ \A i, j \in 1 .. Len(cmds'[t]) : cmds'[t][i] = cmds'[t][j] => i = j
      BY DEF CmdsOK
    <3>9. cmds[t] \in Seq(Conns)
      BY DEF TypeOK
    <3>1. /\ cmds[t] \in Seq(Conns) /\ Len(cmds[t]) \in Nat
          /\ \A i \in 1 .. Len(cmds[t]) : cmds[t][i] \in Conns \ {c}
      BY <2>1, <3>9 DEF CmdsOK
    <3>2. CASE t = s
      <4>1. cmds'[t] = Append(cmds[t], c)
        BY <2>1, <3>2 DEF TypeOK
      <4>2. /\ Len(cmds'[t]) = Len(cmds[t]) + 1 /\ cmds'[t][Len(cmds[t]) + 1] = c
            /\ \A i \in 1 .. Len(cmds[t]) : cmds'[t][i] = cmds[t][i]
        BY <3>1, <4>1
      <4>3. pc'[c] = "attaching" /\ tok'[c] = s
        BY <2>1 DEF TypeOK
      <4>4. \A d \in Conns \ {c} : pc'[d] = pc[d] /\ tok'[d] = tok[d]
        BY <2>1 DEF TypeOK
      <4>5. \A i \in 1 .. Len(cmds'[t]) : i \in 1 .. Len(cmds[t]) \/ i = Len(cmds[t]) + 1
        BY <3>1, <4>2
      <4>6. \A i \in 1 .. Len(cmds[t]) : pc[cmds[t][i]] = "attaching" /\ tok[cmds[t][i]] = t
        BY DEF CmdsOK
      <4>7. \A i \in 1 .. Len(cmds'[t]) : pc'[cmds'[t][i]] = "attaching" /\ tok'[cmds'[t][i]] = t
        BY <3>1, <3>2, <4>2, <4>3, <4>4, <4>5, <4>6, SMTT(30)
      <4>8. \A i, j \in 1 .. Len(cmds[t]) : cmds[t][i] = cmds[t][j] => i = j
        BY DEF CmdsOK
      <4>9. \A i, j \in 1 .. Len(cmds'[t]) : cmds'[t][i] = cmds'[t][j] => i = j
        BY <3>1, <4>2, <4>5, <4>8
      <4> QED BY <4>7, <4>9
    <3>3. CASE t # s
      <4>1. cmds'[t] = cmds[t]
        BY <2>1, <3>3 DEF TypeOK
      <4>2. \A d \in Conns \ {c} : pc'[d] = pc[d] /\ tok'[d] = tok[d]
        BY <2>1 DEF TypeOK
      <4> QED BY <3>1, <4>1, <4>2 DEF CmdsOK
    <3> QED BY <3>2, <3>3
  <2>3. FreshOK'
    BY <2>1, FreshFrame
  <2>4. ConnOK'
    BY <1>2, <2>1 DEF TypeOK, ConnOK, FreshOK
  <2>5. ActiveOK'
    BY <2>1, ActiveFrame DEF TypeOK
  <2>6. ServedIsOwner'
    BY <2>1, ServedFrame DEF TypeOK
  <2>7. HeldForAReason'
    <3>1. c \in Attaching(s)'
      BY <2>1 DEF TypeOK, Attaching
    <3>2. \A t \in Sessions \ {s} : Attaching(t) \subseteq Attaching(t)'
      BY <2>1 DEF TypeOK, Attaching
    <3>3. \A d \in Conns \ {c} : pc'[d] = pc[d] /\ tok'[d] = tok[d]
      BY <2>1 DEF TypeOK
    <3> SUFFICES ASSUME NEW t \in held
                 PROVE  IF owner[t] = None
                        THEN t \in armed' \cup firing \/ Attaching(t)' # {}
                        ELSE pc'[owner[t]] \in {"opening", "up"} /\ tok'[owner[t]] = t
      BY <2>1 DEF HeldForAReason
    <3>4. t \in Sessions /\ owner[t] \in Conns \cup {None}
      BY DEF TypeOK
    <3> QED BY <2>1, <3>1, <3>2, <3>3, <3>4 DEF HeldForAReason
  <2> QED BY <2>8, <2>2, <2>3, <2>4, <2>5, <2>6, <2>7
<1> QED BY <1>1, <1>2

(* create: a token no part of the gateway has seen yet. *)
LEMMA createKeeps ==
    ASSUME IInv, NEW c \in Conns, NEW s \in Sessions, create(c, s)
    PROVE  IInv'
<1> USE DEF IInv, create, tableVars, fwdVars, coreVars, connVars
<1>1. TypeOK'
  BY DEF TypeOK
<1>2. \A d \in Conns \ {c} : pc'[d] = pc[d] /\ tok'[d] = tok[d]
  BY DEF TypeOK
<1>3. pc'[c] = "opening" /\ tok'[c] = s /\ queue'[c] = <<>>
  BY DEF TypeOK, ConnOK
<1>4. \A t \in Sessions \ {s} : fwd'[t] = fwd[t] /\ active'[t] = active[t] /\ owner'[t] = owner[t]
  BY DEF TypeOK
<1>5. fwd'[s] = "start" /\ active'[s] = c /\ owner'[s] = c
  BY DEF TypeOK
<1>6. CmdsOK'
  BY <1>2, CmdsFrame
<1>7. FreshOK'
  BY <1>4, <1>5, FreshFrame
<1>8. ConnOK'
  <2>1. \A t \in Sessions : fwd[t] # "none" => fwd'[t] # "none"
    BY <1>4, <1>5
  <2> QED BY <1>2, <1>3, <1>5, <2>1 DEF ConnOK
<1>9. ActiveOK'
  <2> SUFFICES ASSUME NEW t \in Sessions
               PROVE  /\ active'[t] # None => /\ tok'[active'[t]] = t
                                              /\ pc'[active'[t]] \in {"opening", "up", "gone"}
                      /\ fwd'[t] = "start" => active'[t] \in Conns /\ queue'[active'[t]] = <<>>
    BY DEF ActiveOK
  <2>1. CASE t = s
    BY <1>3, <1>5, <2>1
  <2>2. CASE t # s
    <3>1. active[t] \in Conns \cup {None}
      BY DEF TypeOK
    <3>2. active[t] # c
      BY DEF ActiveOK
    <3> QED BY <1>2, <1>4, <2>2, <3>1, <3>2 DEF ActiveOK
  <2> QED BY <2>1, <2>2
<1>10. ServedIsOwner'
  <2> SUFFICES ASSUME NEW t \in held', NEW d \in Conns,
                      active'[t] = d, pc'[d] \in {"opening", "up"}
               PROVE  owner'[t] = d
    BY DEF ServedIsOwner
  <2>1. CASE t = s
    BY <1>5, <2>1
  <2>2. CASE t # s
    <3>1. t \in held /\ t \in Sessions
      BY <2>2 DEF TypeOK
    <3>2. active[t] = d /\ d # c
      BY <1>4, <2>2, <3>1 DEF ActiveOK
    <3> QED BY <1>2, <1>4, <2>2, <3>1, <3>2 DEF ServedIsOwner
  <2> QED BY <2>1, <2>2
<1>11. HeldForAReason'
  <2> SUFFICES ASSUME NEW t \in held'
               PROVE  IF owner'[t] = None
                      THEN t \in armed' \cup firing' \/ Attaching(t)' # {}
                      ELSE pc'[owner'[t]] \in {"opening", "up"} /\ tok'[owner'[t]] = t
    BY DEF HeldForAReason
  <2>1. CASE t = s
    BY <1>3, <1>5, <2>1
  <2>2. CASE t # s
    <3>1. t \in held /\ t \in Sessions /\ owner[t] \in Conns \cup {None} /\ owner[t] # c
      BY <2>2, ZenonT(60) DEF TypeOK, HeldForAReason
    <3>2. Attaching(t) \subseteq Attaching(t)'
      BY <1>2 DEF Attaching
    <3> QED BY <1>2, <1>4, <2>2, <3>1, <3>2 DEF HeldForAReason
  <2> QED BY <2>1, <2>2
<1> QED BY <1>1, <1>6, <1>7, <1>8, <1>9, <1>10, <1>11

(* What detach leaves in the table is well typed. *)
LEMMA detachType ==
    ASSUME TypeOK, NEW s \in Sessions, NEW c \in Conns, detach(s, c)
    PROVE  /\ held' \subseteq Sessions /\ armed' \subseteq Sessions /\ firing' \subseteq Sessions
           /\ owner' \in [Sessions -> Conns \cup {None}]
<1>1. CASE s \in held /\ owner[s] = c
  <2>1. /\ owner' = [owner EXCEPT ![s] = None]
        /\ armed' = armed \cup {s} /\ held' = held /\ firing' = firing
    BY <1>1 DEF detach
  <2>2. owner' \in [Sessions -> Conns \cup {None}]
    BY <2>1 DEF TypeOK
  <2> QED BY <2>1, <2>2 DEF TypeOK
<1>2. CASE ~(s \in held /\ owner[s] = c)
  BY <1>2 DEF detach, TypeOK, tableVars
<1> QED BY <1>1, <1>2

(* A dropped queue is well typed. *)
LEMMA DropQueueType ==
    ASSUME TypeOK, NEW c \in Conns, DropQueue(c)
    PROVE  /\ queue' \in [Conns -> Seq(Seq(Nat))] /\ \A d \in Conns : Len(queue'[d]) <= QueueCap
           /\ close' \in [Conns -> {None, "Replaced", "SlowConsumer"}] /\ busy' \in [Conns -> Seq(Nat)]
BY DEF DropQueue, TypeOK

(* The end of handle: detach, then the connection is gone and its queue     *)
(* dropped.  Shared by SendOpenedFails and WsDrop.                          *)
LEMMA LeaveKeeps ==
    ASSUME IInv, NEW c \in Conns, pc[c] \in {"opening", "up"}, detach(tok[c], c),
           pc' = [pc EXCEPT ![c] = "gone"], queue' = [queue EXCEPT ![c] = <<>>],
           UNCHANGED <<fwd, active, cmds, tok, issued>>
    PROVE  CmdsOK' /\ FreshOK' /\ ConnOK' /\ ActiveOK' /\ ServedIsOwner' /\ HeldForAReason'
<1> USE DEF IInv, tableVars
<1> DEFINE s == tok[c]
<1>1. s \in Sessions
  BY DEF ConnOK
<1>2. UNCHANGED <<held, firing>> /\ armed \subseteq armed'
  BY DEF detach
<1>3. \A t \in Sessions : owner'[t] = IF t = s /\ t \in held /\ owner[t] = c THEN None ELSE owner[t]
  BY <1>1 DEF detach, TypeOK
<1>4. s \in held /\ owner[s] = c => s \in armed'
  BY DEF detach
<1> HIDE DEF s
<1>5. pc'[c] = "gone" /\ \A d \in Conns \ {c} : pc'[d] = pc[d]
  BY DEF TypeOK
<1>6. CmdsOK' /\ FreshOK' /\ ConnOK' /\ ActiveOK'
  BY <1>2, <1>5, CmdsFrame, FreshFrame, ConnFrame, ActiveFrame DEF TypeOK
<1>7. ServedIsOwner'
  <2> SUFFICES ASSUME NEW t \in held, NEW d \in Conns,
                      active[t] = d, pc'[d] \in {"opening", "up"}
               PROVE  owner'[t] = d
    BY <1>2 DEF ServedIsOwner
  <2>1. d # c /\ t \in Sessions /\ owner[t] = d
    BY <1>5 DEF TypeOK, ServedIsOwner
  <2> QED BY <1>3, <2>1
<1>8. HeldForAReason'
  <2> SUFFICES ASSUME NEW t \in held
               PROVE  IF owner'[t] = None
                      THEN t \in armed' \cup firing' \/ Attaching(t)' # {}
                      ELSE pc'[owner'[t]] \in {"opening", "up"} /\ tok'[owner'[t]] = t
    BY <1>2 DEF HeldForAReason
  <2>1. t \in Sessions /\ owner[t] \in Conns \cup {None}
    BY DEF TypeOK
  <2>2. owner[t] = c => t = s
    BY <2>1 DEF HeldForAReason, s
  <2>3. Attaching(t) \subseteq Attaching(t)'
    BY <1>5 DEF Attaching
  <2> QED BY <1>2, <1>3, <1>4, <1>5, <2>1, <2>2, <2>3 DEF HeldForAReason
<1> QED BY <1>6, <1>7, <1>8

(* handle detaches before it returns. *)
LEMMA SendOpenedFailsKeeps ==
    ASSUME IInv, NEW c \in Conns, SendOpenedFails(c)
    PROVE  IInv'
<1> USE DEF IInv, tableVars, fwdVars, coreVars, connVars
<1>1. tok[c] \in Sessions
  BY DEF SendOpenedFails, ConnOK
<1>2. TypeOK'
  <2>1. held' \subseteq Sessions /\ armed' \subseteq Sessions /\ firing' \subseteq Sessions
        /\ owner' \in [Sessions -> Conns \cup {None}]
    BY <1>1, detachType DEF SendOpenedFails
  <2>2. /\ queue' \in [Conns -> Seq(Seq(Nat))] /\ \A d \in Conns : Len(queue'[d]) <= QueueCap
        /\ close' \in [Conns -> {None, "Replaced", "SlowConsumer"}] /\ busy' \in [Conns -> Seq(Nat)]
    BY DropQueueType DEF SendOpenedFails
  <2>3. CoreType'
    BY <1>1, SendsType DEF SendOpenedFails
  <2> QED BY <2>1, <2>2, <2>3 DEF TypeOK, CoreType, SendOpenedFails
<1> QED BY <1>2, LeaveKeeps DEF SendOpenedFails, DropQueue

(* handle aborts the down task and detaches. *)
LEMMA WsDropKeeps ==
    ASSUME IInv, NEW c \in Conns, WsDrop(c)
    PROVE  IInv'
<1> USE DEF IInv, tableVars, fwdVars, coreVars, connVars
<1>1. tok[c] \in Sessions
  BY DEF WsDrop, ConnOK
<1>2. TypeOK'
  <2>1. held' \subseteq Sessions /\ armed' \subseteq Sessions /\ firing' \subseteq Sessions
        /\ owner' \in [Sessions -> Conns \cup {None}]
    BY <1>1, detachType DEF WsDrop
  <2>2. /\ queue' \in [Conns -> Seq(Seq(Nat))] /\ \A d \in Conns : Len(queue'[d]) <= QueueCap
        /\ close' \in [Conns -> {None, "Replaced", "SlowConsumer"}] /\ busy' \in [Conns -> Seq(Nat)]
    BY DropQueueType DEF WsDrop
  <2>3. /\ pc' \in [Conns -> {"idle", "attaching", "creating", "opening", "up", "gone"}]
        /\ down' \in [Conns -> {"none", "run", "stopped"}] /\ got' \in [Conns -> Seq(Nat)]
    BY DEF TypeOK, WsDrop
  <2> QED BY <2>1, <2>2, <2>3 DEF TypeOK, WsDrop
<1> QED BY <1>2, LeaveKeeps DEF WsDrop, DropQueue

(* The end of forward_output: the entry is removed, the attaches it did not *)
(* take are sent to create.  Shared by FwdStart and FwdEnd.                 *)
LEMMA EndKeeps ==
    ASSUME IInv, NEW s \in Sessions, fwd[s] # "none", RemoveEntry(s),
           fwd' = [fwd EXCEPT ![s] = "done"], active' = [active EXCEPT ![s] = None],
           cmds' = [cmds EXCEPT ![s] = <<>>],
           pc' = [d \in Conns |-> IF d \in Attaching(s) THEN "creating" ELSE pc[d]],
           UNCHANGED <<tok, queue, issued>>
    PROVE  CmdsOK' /\ FreshOK' /\ ConnOK' /\ ActiveOK' /\ ServedIsOwner' /\ HeldForAReason'
<1> USE DEF IInv
<1>1. held' = held \ {s} /\ armed' = armed \ {s} /\ firing' = firing \ {s} /\ owner' = owner
  BY DEF RemoveEntry
<1>2. \A t \in Sessions \ {s} : fwd'[t] = fwd[t] /\ active'[t] = active[t] /\ cmds'[t] = cmds[t]
  BY DEF TypeOK
<1>3. fwd'[s] = "done" /\ active'[s] = None /\ cmds'[s] = <<>>
  BY DEF TypeOK
<1>4. \A d \in Conns : pc'[d] = IF pc[d] = "attaching" /\ tok[d] = s THEN "creating" ELSE pc[d]
  BY DEF Attaching
<1>5. CmdsOK'
  <2> SUFFICES ASSUME NEW t \in Sessions
               PROVE  /\ \A i \in 1 .. Len(cmds'[t]) : /\ pc'[cmds'[t][i]] = "attaching"
                                                       /\ tok[cmds'[t][i]] = t
                      /\ \A i, j \in 1 .. Len(cmds'[t]) : cmds'[t][i] = cmds'[t][j] => i = j
    BY DEF CmdsOK
  <2>1. CASE t = s
    BY <1>3, <2>1
  <2>2. CASE t # s
    <3>1. cmds[t] \in Seq(Conns)
      BY DEF TypeOK
    <3>2. \A i \in 1 .. Len(cmds[t]) : cmds[t][i] \in Conns
      BY <3>1
    <3> QED BY <1>2, <1>4, <2>2, <3>2 DEF CmdsOK
  <2> QED BY <2>1, <2>2
<1>6. FreshOK'
  BY <1>1, <1>2, <1>3, FreshFrame
<1>7. ConnOK'
  <2>1. \A t \in Sessions : fwd[t] # "none" => fwd'[t] # "none"
    BY <1>2, <1>3
  <2> QED BY <1>4, <2>1, ConnFrame
<1>8. ActiveOK'
  <2> SUFFICES ASSUME NEW t \in Sessions
               PROVE  /\ active'[t] # None => /\ tok[active'[t]] = t
                                              /\ pc'[active'[t]] \in {"opening", "up", "gone"}
                      /\ fwd'[t] = "start" => active'[t] \in Conns /\ queue[active'[t]] = <<>>
    BY DEF ActiveOK
  <2>1. CASE t = s
    BY <1>3, <2>1
  <2>2. CASE t # s
    <3>1. active[t] \in Conns \cup {None}
      BY DEF TypeOK
    <3> QED BY <1>2, <1>4, <2>2, <3>1 DEF ActiveOK
  <2> QED BY <2>1, <2>2
<1>9. ServedIsOwner'
  <2> SUFFICES ASSUME NEW t \in held', NEW d \in Conns,
                      active'[t] = d, pc'[d] \in {"opening", "up"}
               PROVE  owner[t] = d
    BY <1>1 DEF ServedIsOwner
  <2>1. t \in held /\ t \in Sessions \ {s}
    BY <1>1 DEF TypeOK
  <2> QED BY <1>2, <1>4, <2>1 DEF ServedIsOwner
<1>10. HeldForAReason'
  BY <1>1, <1>4, HeldFrame
<1> QED BY <1>5, <1>6, <1>7, <1>8, <1>9, <1>10

(* What the end of forward_output leaves is well typed. *)
LEMMA EndType ==
    ASSUME TypeOK, NEW s \in Sessions, RemoveEntry(s),
           fwd' = [fwd EXCEPT ![s] = "done"], active' = [active EXCEPT ![s] = None],
           cmds' = [cmds EXCEPT ![s] = <<>>],
           pc' = [d \in Conns |-> IF d \in Attaching(s) THEN "creating" ELSE pc[d]]
    PROVE  /\ held' \subseteq Sessions /\ armed' \subseteq Sessions /\ firing' \subseteq Sessions
           /\ owner' \in [Sessions -> Conns \cup {None}]
           /\ fwd' \in [Sessions -> {"none", "start", "loop", "done"}]
           /\ active' \in [Sessions -> Conns \cup {None}]
           /\ cmds' \in [Sessions -> Seq(Conns)]
           /\ pc' \in [Conns -> {"idle", "attaching", "creating", "opening", "up", "gone"}]
<1>1. /\ held' \subseteq Sessions /\ armed' \subseteq Sessions /\ firing' \subseteq Sessions
      /\ owner' \in [Sessions -> Conns \cup {None}]
  BY DEF TypeOK, RemoveEntry
<1>2. /\ fwd' \in [Sessions -> {"none", "start", "loop", "done"}]
      /\ active' \in [Sessions -> Conns \cup {None}]
  BY DEF TypeOK
<1>3. cmds' \in [Sessions -> Seq(Conns)]
  BY DEF TypeOK
<1>4. pc' \in [Conns -> {"idle", "attaching", "creating", "opening", "up", "gone"}]
  BY DEF TypeOK
<1> QED BY <1>1, <1>2, <1>3, <1>4

(* forward_output ends. *)
LEMMA FwdEndKeeps ==
    ASSUME IInv, NEW s \in Sessions, FwdEnd(s)
    PROVE  IInv'
<1> USE DEF IInv, tableVars, fwdVars, coreVars, connVars
<1>1. /\ fwd[s] = "loop" /\ RemoveEntry(s)
      /\ fwd' = [fwd EXCEPT ![s] = "done"] /\ active' = [active EXCEPT ![s] = None]
      /\ cmds' = [cmds EXCEPT ![s] = <<>>] /\ scroll' = [scroll EXCEPT ![s] = <<>>]
      /\ pc' = [d \in Conns |-> IF d \in Attaching(s) THEN "creating" ELSE pc[d]]
      /\ UNCHANGED <<read, coreVars, tok, queue, close, busy, down, got, issued, joined>>
  BY DEF FwdEnd
<1>2. TypeOK'
  <2>1. scroll' \in [Sessions -> Seq(Nat)] /\ \A t \in Sessions : Len(scroll'[t]) <= ScrollCap
    BY <1>1 DEF TypeOK
  <2> QED BY <1>1, <2>1, EndType DEF TypeOK
<1> QED BY <1>1, <1>2, EndKeeps

(* FwdStart: the first item of the owner's queue, or the end. *)
LEMMA FwdStartKeeps ==
    ASSUME IInv, NEW s \in Sessions, FwdStart(s)
    PROVE  IInv'
<1> USE DEF IInv, tableVars, fwdVars, coreVars, connVars
<1> DEFINE c == active[s]
<1>1. /\ fwd[s] = "start" /\ c \in Conns /\ queue[c] = <<>> /\ tok[c] = s
      /\ pc[c] \in {"opening", "up", "gone"}
  BY DEF FwdStart, ActiveOK
<1>2. CASE QueueOpen(c)
  <2>1. /\ queue' = [queue EXCEPT ![c] = Append(@, <<ReplayEnd>>)]
        /\ fwd' = [fwd EXCEPT ![s] = "loop"]
        /\ UNCHANGED <<tableVars, active, cmds, pc, scroll, read, coreVars, tok, close, busy,
                       down, got, issued, joined>>
    BY <1>2 DEF FwdStart
  <2> HIDE DEF c
  <2>2. queue'[c] = <<<<ReplayEnd>>>> /\ \A d \in Conns \ {c} : queue'[d] = queue[d]
    BY <1>1, <2>1 DEF TypeOK
  <2>3. fwd'[s] = "loop" /\ \A t \in Sessions \ {s} : fwd'[t] = fwd[t]
    BY <2>1 DEF TypeOK
  <2>4. TypeOK'
    <3>1. <<ReplayEnd>> \in Seq(Nat) /\ Len(<<<<ReplayEnd>>>>) = 1
      BY DEF ReplayEnd
    <3>2. queue' \in [Conns -> Seq(Seq(Nat))]
      BY <1>1, <2>1, <3>1 DEF TypeOK
    <3>3. \A d \in Conns : Len(queue'[d]) <= QueueCap
      <4>1. Len(queue'[c]) <= QueueCap
        BY <2>2, <3>1
      <4>2. \A d \in Conns \ {c} : Len(queue'[d]) <= QueueCap
        BY <2>2 DEF TypeOK
      <4> QED BY <4>1, <4>2
    <3> QED BY <2>1, <3>2, <3>3 DEF TypeOK
  <2>5. CmdsOK'
    BY <2>1, CmdsFrame
  <2>6. FreshOK'
    BY <2>1, <2>3, FreshFrame
  <2>7. ConnOK'
    BY <1>1, <2>1, <2>2, <2>3, ConnFrame
  <2>8. ActiveOK'
    <3> SUFFICES ASSUME NEW t \in Sessions
                 PROVE  /\ active[t] # None => /\ tok[active[t]] = t
                                               /\ pc[active[t]] \in {"opening", "up", "gone"}
                        /\ fwd'[t] = "start" => active[t] \in Conns /\ queue'[active[t]] = <<>>
      BY <2>1 DEF ActiveOK
    <3>1. t # s => active[t] # c
      BY <1>1 DEF ActiveOK
    <3> QED BY <2>2, <2>3, <3>1 DEF ActiveOK
  <2>9. ServedIsOwner'
    BY <2>1, ServedFrame
  <2>10. HeldForAReason'
    BY <2>1, HeldFrame
  <2> QED BY <2>4, <2>5, <2>6, <2>7, <2>8, <2>9, <2>10
<1>3. CASE ~QueueOpen(c)
  <2>1. /\ RemoveEntry(s)
        /\ fwd' = [fwd EXCEPT ![s] = "done"] /\ active' = [active EXCEPT ![s] = None]
        /\ cmds' = [cmds EXCEPT ![s] = <<>>]
        /\ pc' = [d \in Conns |-> IF d \in Attaching(s) THEN "creating" ELSE pc[d]]
        /\ UNCHANGED <<queue, scroll, read, coreVars, tok, close, busy, down, got, issued, joined>>
    BY <1>3 DEF FwdStart
  <2>2. TypeOK'
    BY <2>1, EndType DEF TypeOK
  <2> QED BY <1>1, <2>1, <2>2, EndKeeps
<1> QED BY <1>2, <1>3

(* FwdOutput: the Subscriber is served, forgotten or closed. *)
LEMMA FwdOutputKeeps ==
    ASSUME IInv, NEW s \in Sessions, FwdOutput(s)
    PROVE  IInv'
<1> USE DEF IInv, tableVars, fwdVars, coreVars, connVars
<1> DEFINE c == active[s]
           unit == read[s] + 1
<1>1. /\ fwd[s] = "loop"
      /\ read' = [read EXCEPT ![s] = unit]
      /\ scroll' = [scroll EXCEPT ![s] = Scrolled(@, unit)]
      /\ UNCHANGED <<held, owner, armed, firing, fwd, cmds, coreVars, pc, tok, busy, down, got,
                     issued, joined>>
  BY DEF FwdOutput
<1>2. \/ UNCHANGED <<active, queue, close>>
      \/ active' = [active EXCEPT ![s] = None] /\ UNCHANGED <<queue, close>>
      \/ /\ c # None /\ active' = [active EXCEPT ![s] = None]
         /\ close' = [close EXCEPT ![c] = "SlowConsumer"] /\ UNCHANGED queue
      \/ /\ c # None /\ QueueOpen(c) /\ Len(queue[c]) < QueueCap
         /\ queue' = [queue EXCEPT ![c] = Append(@, <<unit>>)]
         /\ UNCHANGED <<active, close>>
  BY DEF FwdOutput
<1>3. c \in Conns \cup {None} /\ unit \in Nat
  BY DEF TypeOK
<1>4. /\ read' \in [Sessions -> Nat] /\ scroll' \in [Sessions -> Seq(Nat)]
      /\ \A t \in Sessions : Len(scroll'[t]) <= ScrollCap
  <2>1. scroll[s] \in Seq(Nat)
    BY DEF TypeOK
  <2>2. Scrolled(scroll[s], unit) \in Seq(Nat) /\ Len(Scrolled(scroll[s], unit)) <= ScrollCap
    BY <1>3, <2>1, ScrolledType
  <2> HIDE DEF unit
  <2> QED BY <1>1, <1>3, <2>2 DEF TypeOK
<1>5. CmdsOK'
  BY <1>1, CmdsFrame
<1>6. HeldForAReason'
  BY <1>1, HeldFrame
<1> HIDE DEF unit
<1>7. CASE UNCHANGED <<active, queue, close>>
  <2>1. TypeOK'
    BY <1>1, <1>4, <1>7 DEF TypeOK
  <2> QED BY <1>1, <1>5, <1>6, <1>7, <2>1, FreshFrame, ConnFrame, ActiveFrame, ServedFrame
<1>8. ASSUME active' = [active EXCEPT ![s] = None], UNCHANGED queue,
             close' \in [Conns -> {None, "Replaced", "SlowConsumer"}]
      PROVE  IInv'
  <2>1. active'[s] = None /\ \A t \in Sessions \ {s} : active'[t] = active[t]
    BY <1>8 DEF TypeOK
  <2>3. active' \in [Sessions -> Conns \cup {None}]
    BY <1>8 DEF TypeOK
  <2>4. TypeOK'
    BY <1>1, <1>4, <1>8, <2>3 DEF TypeOK
  <2>5. FreshOK'
    BY <1>1, <2>1 DEF FreshOK
  <2>6. ConnOK'
    BY <1>1, <1>8, ConnFrame
  <2>7. ActiveOK'
    BY <1>1, <1>8, <2>1 DEF ActiveOK
  <2>8. ServedIsOwner'
    <3>1. \A t \in held : t \in Sessions
      BY DEF TypeOK
    <3> QED BY <1>1, <2>1, <3>1 DEF ServedIsOwner
  <2> QED BY <1>5, <1>6, <2>4, <2>5, <2>6, <2>7, <2>8
<1>9. CASE /\ c # None /\ QueueOpen(c) /\ Len(queue[c]) < QueueCap
           /\ queue' = [queue EXCEPT ![c] = Append(@, <<unit>>)]
           /\ UNCHANGED <<active, close>>
  <2>1. c \in Conns /\ tok[c] = s /\ pc[c] \in {"opening", "up", "gone"}
    BY <1>3, <1>9 DEF ActiveOK
  <2>2. queue[c] \in Seq(Seq(Nat)) /\ <<unit>> \in Seq(Nat)
    BY <1>3, <2>1 DEF TypeOK
  <2>3. /\ Append(queue[c], <<unit>>) \in Seq(Seq(Nat))
        /\ Len(Append(queue[c], <<unit>>)) <= QueueCap
    BY <1>9, <2>2
  <2>4. queue' \in [Conns -> Seq(Seq(Nat))] /\ \A d \in Conns : Len(queue'[d]) <= QueueCap
    BY <1>9, <2>1, <2>3 DEF TypeOK
  <2>5. TypeOK'
    BY <1>1, <1>4, <1>9, <2>4 DEF TypeOK
  <2>6. \A d \in Conns \ {c} : queue'[d] = queue[d]
    BY <1>9 DEF TypeOK
  <2>7. FreshOK'
    BY <1>1, <1>9, FreshFrame
  <2>8. ConnOK'
    BY <1>1, <2>1, <2>6, ConnFrame
  <2>9. ActiveOK'
    <3> SUFFICES ASSUME NEW t \in Sessions
                 PROVE  /\ active[t] # None => /\ tok[active[t]] = t
                                               /\ pc[active[t]] \in {"opening", "up", "gone"}
                        /\ fwd[t] = "start" => active[t] \in Conns /\ queue'[active[t]] = <<>>
      BY <1>1, <1>9 DEF ActiveOK
    <3>1. t # s => active[t] # c
      BY <2>1 DEF ActiveOK
    <3> QED BY <1>1, <2>6, <3>1 DEF ActiveOK
  <2>10. ServedIsOwner'
    BY <1>1, <1>9, ServedFrame
  <2> QED BY <1>5, <1>6, <2>5, <2>7, <2>8, <2>9, <2>10
<1>10. CASE active' = [active EXCEPT ![s] = None] /\ UNCHANGED <<queue, close>>
  BY <1>8, <1>10 DEF TypeOK
<1>11. CASE /\ c # None /\ active' = [active EXCEPT ![s] = None]
            /\ close' = [close EXCEPT ![c] = "SlowConsumer"] /\ UNCHANGED queue
  <2>1. close' \in [Conns -> {None, "Replaced", "SlowConsumer"}]
    BY <1>3, <1>11 DEF TypeOK
  <2> QED BY <1>8, <1>11, <2>1
<1> HIDE DEF c, IInv
<1> QED BY <1>2, <1>7, <1>9, <1>10, <1>11

(* FwdAttach: the head of the queue of commands becomes owner and           *)
(* Subscriber in one step, or is sent to create.                            *)
LEMMA FwdAttachKeeps ==
    ASSUME IInv, NEW s \in Sessions, FwdAttach(s)
    PROVE  IInv'
<1> USE DEF IInv, tableVars, fwdVars, coreVars, connVars
<1> DEFINE c == Head(cmds[s])
<1>1. cmds[s] \in Seq(Conns) /\ cmds[s] # <<>>
  BY DEF TypeOK, FwdAttach
<1>2. /\ c \in Conns /\ Len(cmds[s]) \in Nat /\ Len(cmds[s]) > 0 /\ c = cmds[s][1]
      /\ Tail(cmds[s]) \in Seq(Conns) /\ Len(Tail(cmds[s])) = Len(cmds[s]) - 1
      /\ \A i \in 1 .. Len(Tail(cmds[s])) : Tail(cmds[s])[i] = cmds[s][i + 1]
  BY <1>1
<1>3. pc[c] = "attaching" /\ tok[c] = s
  BY <1>2 DEF CmdsOK
<1>4. cmds' = [cmds EXCEPT ![s] = Tail(@)] /\ fwd[s] = "loop"
      /\ UNCHANGED <<held, firing, fwd, scroll, read, coreVars, tok, busy, down, got, issued>>
  BY DEF FwdAttach
<1>5. pc' = [pc EXCEPT ![c] = "opening"] \/ pc' = [pc EXCEPT ![c] = "creating"]
  BY DEF FwdAttach
<1> HIDE DEF c
<1>6. /\ pc'[c] \in {"opening", "creating"} /\ \A d \in Conns \ {c} : pc'[d] = pc[d]
      /\ pc' \in [Conns -> {"idle", "attaching", "creating", "opening", "up", "gone"}]
  BY <1>2, <1>5, ZenonT(60) DEF TypeOK
<1>7. CmdsOK'
  <2> SUFFICES ASSUME NEW t \in Sessions
               PROVE  /\ \A i \in 1 .. Len(cmds'[t]) : /\ pc'[cmds'[t][i]] = "attaching"
                                                       /\ tok[cmds'[t][i]] = t
                      /\ \A i, j \in 1 .. Len(cmds'[t]) : cmds'[t][i] = cmds'[t][j] => i = j
    <3>1. tok' = tok
      BY <1>4
    <3> HIDE DEF IInv
    <3> QED BY <3>1 DEF CmdsOK
  <2>1. CASE t = s
    <3>1. cmds'[t] = Tail(cmds[s])
      BY <1>4, <2>1 DEF TypeOK
    <3>2. \A i \in 1 .. Len(cmds'[t]) : i \in Nat /\ i + 1 \in 1 .. Len(cmds[s]) /\ i + 1 # 1
                                        /\ cmds'[t][i] = cmds[s][i + 1]
      BY <1>2, <3>1
    <3>3. \A i \in 1 .. Len(cmds[s]) : cmds[s][i] \in Conns /\ (i # 1 => cmds[s][i] # c)
      BY <1>1, <1>2 DEF CmdsOK
    <3>4. /\ \A i \in 1 .. Len(cmds[s]) : pc[cmds[s][i]] = "attaching" /\ tok[cmds[s][i]] = s
          /\ \A i, j \in 1 .. Len(cmds[s]) : cmds[s][i] = cmds[s][j] => i = j
      BY DEF CmdsOK
    <3>5. \A i \in 1 .. Len(cmds'[t]) : pc'[cmds'[t][i]] = "attaching" /\ tok[cmds'[t][i]] = t
      <4> SUFFICES ASSUME NEW i \in 1 .. Len(cmds'[t])
                   PROVE  pc'[cmds'[t][i]] = "attaching" /\ tok[cmds'[t][i]] = t
        OBVIOUS
      <4> DEFINE d == cmds[s][i + 1]
      <4>1. cmds'[t][i] = d /\ d \in Conns /\ d # c /\ pc[d] = "attaching" /\ tok[d] = s
        BY <3>2, <3>3, <3>4
      <4> HIDE DEF d
      <4>2. pc'[d] = pc[d]
        BY <1>6, <4>1
      <4> QED BY <2>1, <4>1, <4>2, Zenon
    <3>6. \A i, j \in 1 .. Len(cmds'[t]) : cmds'[t][i] = cmds'[t][j] => i = j
      <4> SUFFICES ASSUME NEW i \in 1 .. Len(cmds'[t]), NEW j \in 1 .. Len(cmds'[t]),
                          cmds'[t][i] = cmds'[t][j]
                   PROVE  i = j
        OBVIOUS
      <4>1. /\ i \in Nat /\ i + 1 \in 1 .. Len(cmds[s]) /\ cmds'[t][i] = cmds[s][i + 1]
            /\ j \in Nat /\ j + 1 \in 1 .. Len(cmds[s]) /\ cmds'[t][j] = cmds[s][j + 1]
        BY <3>2
      <4>2. i + 1 = j + 1
        BY <3>4, <4>1, Zenon
      <4> QED BY <4>1, <4>2
    <3> QED BY <3>5, <3>6
  <2>2. CASE t # s
    <3>1. cmds'[t] = cmds[t] /\ cmds[t] \in Seq(Conns)
      BY <1>4, <2>2 DEF TypeOK
    <3>2. \A i \in 1 .. Len(cmds[t]) : cmds[t][i] \in Conns \ {c}
      BY <1>3, <2>2, <3>1 DEF CmdsOK
    <3> QED BY <1>6, <3>1, <3>2 DEF CmdsOK
  <2> QED BY <2>1, <2>2
<1>8. cmds' \in [Sessions -> Seq(Conns)]
  BY <1>2, <1>4 DEF TypeOK
<1>9. CASE s \in held
  <2>1. /\ armed' = armed \ {s} /\ owner' = [owner EXCEPT ![s] = c]
        /\ active' = [active EXCEPT ![s] = c]
        /\ Len(Replay(scroll[s])) <= QueueCap
        /\ queue' = [queue EXCEPT ![c] = Replay(scroll[s])]
        /\ joined' = [joined EXCEPT ![c] = read[s]]
        /\ pc' = [pc EXCEPT ![c] = "opening"]
    BY <1>9 DEF FwdAttach, c
  <2>2. close' \in [Conns -> {None, "Replaced", "SlowConsumer"}]
    <3>1. close' = [d \in Conns |-> IF d = active[s] /\ QueueOpen(d) THEN "Replaced" ELSE close[d]]
      BY <1>9 DEF FwdAttach
    <3> QED BY <3>1 DEF TypeOK
  <2>3. pc'[c] = "opening"
    BY <1>2, <2>1 DEF TypeOK
  <2>4. /\ owner'[s] = c /\ active'[s] = c
        /\ \A t \in Sessions \ {s} : owner'[t] = owner[t] /\ active'[t] = active[t]
    BY <2>1 DEF TypeOK
  <2>5. \A d \in Conns \ {c} : queue'[d] = queue[d]
    BY <2>1 DEF TypeOK
  <2>6. TypeOK'
    <3>1. Replay(scroll[s]) \in Seq(Seq(Nat))
      BY ReplayType DEF TypeOK
    <3>2. queue' \in [Conns -> Seq(Seq(Nat))] /\ \A d \in Conns : Len(queue'[d]) <= QueueCap
      BY <1>2, <2>1, <3>1 DEF TypeOK
    <3>3. /\ owner' \in [Sessions -> Conns \cup {None}] /\ active' \in [Sessions -> Conns \cup {None}]
          /\ joined' \in [Conns -> Nat] /\ armed' \subseteq Sessions
      BY <1>2, <2>1 DEF TypeOK
    <3> QED BY <1>4, <1>6, <1>8, <2>2, <3>2, <3>3 DEF TypeOK
  <2>7. FreshOK'
    BY <1>4, <2>4, FreshFrame
  <2>8. ConnOK'
    <3>1. \A d \in Conns \ {c} : queue'[d] = queue[d] /\ pc'[d] = pc[d]
      BY <1>6, <2>5
    <3> QED BY <1>3, <1>4, <2>3, <3>1 DEF ConnOK
  <2>9. ActiveOK'
    <3> SUFFICES ASSUME NEW t \in Sessions
                 PROVE  /\ active'[t] # None => /\ tok[active'[t]] = t
                                                /\ pc'[active'[t]] \in {"opening", "up", "gone"}
                        /\ fwd[t] = "start" => active'[t] \in Conns /\ queue'[active'[t]] = <<>>
      BY <1>4 DEF ActiveOK
    <3>1. CASE t = s
      BY <1>3, <1>4, <2>3, <2>4, <3>1
    <3>2. CASE t # s
      <4>1. active[t] \in Conns \cup {None}
        BY DEF TypeOK
      <4>2. active[t] # c
        BY <1>2, <1>3 DEF ActiveOK
      <4> QED BY <1>6, <2>4, <2>5, <3>2, <4>1, <4>2 DEF ActiveOK
    <3> QED BY <3>1, <3>2
  <2>10. ServedIsOwner'
    <3> SUFFICES ASSUME NEW t \in held, NEW d \in Conns,
                        active'[t] = d, pc'[d] \in {"opening", "up"}
                 PROVE  owner'[t] = d
      BY <1>4 DEF ServedIsOwner
    <3>1. t \in Sessions
      BY DEF TypeOK
    <3>2. CASE t = s
      BY <2>4, <3>2
    <3>3. CASE t # s
      <4>1. active[t] = d /\ d # c
        BY <1>3, <2>4, <3>1, <3>3 DEF ActiveOK
      <4> QED BY <1>6, <2>4, <3>1, <3>3, <4>1 DEF ServedIsOwner
    <3> QED BY <3>2, <3>3
  <2>11. HeldForAReason'
    <3> SUFFICES ASSUME NEW t \in held
                 PROVE  IF owner'[t] = None
                        THEN t \in armed' \cup firing' \/ Attaching(t)' # {}
                        ELSE pc'[owner'[t]] \in {"opening", "up"} /\ tok'[owner'[t]] = t
      BY <1>4 DEF HeldForAReason
    <3>1. t \in Sessions /\ owner[t] \in Conns \cup {None}
      BY DEF TypeOK
    <3>2. CASE t = s
      BY <1>2, <1>3, <1>4, <2>3, <2>4, <3>2
    <3>3. CASE t # s
      <4>1. Attaching(t) \subseteq Attaching(t)'
        BY <1>3, <1>4, <1>6, <3>3 DEF Attaching
      <4>2. owner[t] # c
        BY <1>2, <1>3 DEF HeldForAReason
      <4> QED BY <1>4, <1>6, <2>1, <2>4, <3>1, <3>3, <4>1, <4>2 DEF HeldForAReason
    <3> QED BY <3>2, <3>3
  <2> QED BY <1>7, <2>6, <2>7, <2>8, <2>9, <2>10, <2>11
<1>10. CASE s \notin held
  <2>1. pc' = [pc EXCEPT ![c] = "creating"]
        /\ UNCHANGED <<armed, owner, active, queue, close, joined>>
    BY <1>10 DEF FwdAttach, c
  <2>2. pc'[c] = "creating"
    BY <1>2, <2>1 DEF TypeOK
  <2>3. TypeOK'
    BY <1>4, <1>6, <1>8, <2>1 DEF TypeOK
  <2>4. FreshOK'
    BY <1>4, <2>1, FreshFrame
  <2>5. ConnOK'
    BY <1>3, <1>4, <1>6, <2>1, <2>2, ConnFrame
  <2>6. ActiveOK'
    BY <1>3, <1>4, <1>6, <2>1, <2>2, ActiveFrame
  <2>7. ServedIsOwner'
    BY <1>4, <1>6, <2>1, <2>2, ServedFrame
  <2>8. HeldForAReason'
    BY <1>3, <1>4, <1>6, <1>10, <2>1, <2>2, HeldFrame
  <2> QED BY <1>7, <2>3, <2>4, <2>5, <2>6, <2>7, <2>8
<1> QED BY <1>9, <1>10

-----------------------------------------------------------------------------
(* The invariant holds initially. *)
LEMMA InitIInv == Init => IInv
<1> SUFFICES ASSUME Init PROVE IInv
  OBVIOUS
<1>1. TypeOK
  BY DEF Init, TypeOK
<1> QED
  BY <1>1 DEF Init, IInv, CmdsOK, FreshOK, ConnOK, ActiveOK, ServedIsOwner, HeldForAReason

(* The invariant is kept by every step of the gateway. *)
LEMMA NextIInv == IInv /\ [Next]_vars => IInv'
<1> SUFFICES ASSUME IInv, [Next]_vars PROVE IInv'
  OBVIOUS
<1>1. CASE UNCHANGED vars
  <2>1. TypeOK'
    BY <1>1 DEF IInv, TypeOK, vars, tableVars, fwdVars, coreVars, connVars
  <2>2. UNCHANGED <<held, owner, armed, firing, fwd, active, cmds, pc, tok, queue, issued>>
    BY <1>1 DEF vars, tableVars, fwdVars, coreVars, connVars
  <2> QED BY <2>1, <2>2, CmdsFrame, FreshFrame, ConnFrame, ActiveFrame, ServedFrame, HeldFrame
          DEF IInv
<1>2. ASSUME NEW c \in Conns, Handle(c) PROVE IInv'
  BY <1>2, HandleOpenKeeps, CreateFailsKeeps, SendOpenedKeeps, SendOpenedFailsKeeps, TypeInKeeps, WsDropKeeps,
     HandleFreshKeeps, attachKeeps, createKeeps DEF Handle
<1>3. ASSUME NEW c \in Conns, Down(c) PROVE IInv'
  BY <1>3, DownCloseKeeps, DownRecvKeeps, DownExitKeeps, DownSentKeeps, DownSendFailsKeeps DEF Down
<1>4. ASSUME NEW s \in Sessions, forward_output(s) PROVE IInv'
  BY <1>4, FwdStartKeeps, FwdAttachKeeps, FwdOutputKeeps, FwdEndKeeps DEF forward_output
<1>5. ASSUME NEW s \in Sessions, Timer(s) PROVE IInv'
  BY <1>5, TimerElapseKeeps, TimerRemoveKeeps DEF Timer
<1>6. ASSUME NEW s \in Sessions, Pump(s) PROVE IInv'
  BY <1>6, PumpKeeps
<1> QED BY <1>1, <1>2, <1>3, <1>4, <1>5, <1>6 DEF Next

(* The invariant holds in every state of every behaviour. *)
LEMMA Inductive == Spec => []IInv
BY InitIInv, NextIInv, PTL DEF Spec

(* The gateway's state keeps its types; scrollback and private queues stay  *)
(* within SCROLLBACK_BYTES and OUTPUT_CHUNKS, for any capacities.           *)
THEOREM TypeCorrect == Spec => []TypeOK
<1>1. IInv => TypeOK
  BY DEF IInv
<1> QED BY <1>1, Inductive, PTL

(* However many browsers attach, detach late or read slowly: the connection *)
(* forward_output serves is the one the table has as owner.                 *)
THEOREM ServedIsAlwaysOwner == Spec => []ServedIsOwner
<1>1. IInv => ServedIsOwner
  BY DEF IInv
<1> QED BY <1>1, Inductive, PTL

(* No entry of the table is left without somebody who will take it out.     *)
THEOREM NothingHeldForNobody == Spec => []HeldForAReason
<1>1. IInv => HeldForAReason
  BY DEF IInv
<1> QED BY <1>1, Inductive, PTL

-----------------------------------------------------------------------------
(* Induction, from the order of the numbers being well-founded. *)

(* Every nonempty set of numbers has a least element. *)
LEMMA Least ==
    ASSUME NEW T \in SUBSET Nat, T # {}
    PROVE  \E x \in T : \A y \in T : x <= y
<1>1. PICK x \in T : \A y \in T : ~ (<<y, x>> \in OpToRel(<, Nat))
  BY NatLessThanWellFounded, WFMin
<1>2. ASSUME NEW y \in T PROVE x <= y
  <2>1. y < x => <<y, x>> \in {ss \in Nat \X Nat : ss[1] < ss[2]}
    OBVIOUS
  <2>2. y < x => <<y, x>> \in OpToRel(<, Nat)
    BY <2>1 DEF OpToRel
  <2>3. ~(y < x)
    BY <1>1, <2>2, Zenon
  <2> QED BY <2>3
<1> QED BY <1>2

(* Induction over the numbers, for a set in place of a predicate. *)
LEMMA Induction ==
    ASSUME NEW T \in SUBSET Nat, 0 \in T, \A n \in T : n + 1 \in T
    PROVE  T = Nat
<1>1. ASSUME Nat \ T # {} PROVE FALSE
  <2>1. PICK x \in Nat \ T : \A y \in Nat \ T : x <= y
    BY <1>1, Least
  <2>2. x # 0 /\ x - 1 \in Nat /\ ~(x <= x - 1) /\ (x - 1) + 1 = x
    BY <2>1
  <2> QED BY <2>1, <2>2
<1> QED BY <1>1

(* Induction up to a bound. *)
LEMMA UpTo ==
    ASSUME NEW n \in Nat, NEW T,
           1 \in 1 .. n => 1 \in T,
           \A k \in 1 .. n : k \in T /\ k + 1 \in 1 .. n => k + 1 \in T
    PROVE  1 .. n \subseteq T
<1> DEFINE U == {k \in Nat : k \in 1 .. n => k \in T}
<1>1. 0 \in U /\ U \in SUBSET Nat
  OBVIOUS
<1>2. \A k \in U : k + 1 \in U
  OBVIOUS
<1> HIDE DEF U
<1>3. U = Nat
  BY <1>1, <1>2, Induction
<1> QED BY <1>3 DEF U

(* Concatenation, with the types the next step needs. *)
LEMMA Associative ==
    ASSUME NEW S, NEW a \in Seq(S), NEW b \in Seq(S), NEW c \in Seq(S)
    PROVE  /\ (a \o b) \o c = a \o (b \o c)
           /\ a \o b \in Seq(S) /\ b \o c \in Seq(S)
  BY ConcatAssociative

(* Append, for sequences of anything. *)
LEMMA AppendFacts ==
    ASSUME NEW E, NEW q \in Seq(E), NEW x \in E
    PROVE  /\ Append(q, x) \in Seq(E) /\ Append(q, x) # <<>> /\ Len(Append(q, x)) = Len(q) + 1
           /\ Len(q) \in Nat /\ Append(q, x)[Len(q) + 1] = x
           /\ \A i \in 1 .. Len(q) : Append(q, x)[i] = q[i]
           /\ q # <<>> => Len(q) # 0
  OBVIOUS

(* Head and Tail, for sequences of anything. *)
LEMMA TailFacts ==
    ASSUME NEW E, NEW q \in Seq(E), q # <<>>
    PROVE  /\ Head(q) \in E /\ Tail(q) \in Seq(E) /\ Len(q) \in Nat /\ Len(q) # 0
           /\ Len(Tail(q)) = Len(q) - 1 /\ Head(q) = q[1]
           /\ \A i \in 1 .. Len(q) - 1 : Tail(q)[i] = q[i + 1]
           /\ \A i \in 1 .. Len(q) : q[i] \in E
           /\ Len(q) = 1 <=> Tail(q) = <<>>
<1>1. /\ Head(q) \in E /\ Tail(q) \in Seq(E) /\ Len(q) \in Nat /\ Len(q) # 0
      /\ Len(Tail(q)) = Len(q) - 1 /\ Head(q) = q[1]
      /\ \A i \in 1 .. Len(q) - 1 : Tail(q)[i] = q[i + 1]
      /\ \A i \in 1 .. Len(q) : q[i] \in E
  OBVIOUS
<1>2. Len(Tail(q)) = 0 <=> Tail(q) = <<>>
  <2> DEFINE t == Tail(q)
  <2>1. t \in Seq(E)
    BY <1>1
  <2> HIDE DEF t
  <2>2. Len(t) = 0 <=> t = <<>>
    BY <2>1, EmptySeq, LenProperties
  <2> QED BY <2>2 DEF t
<1> QED BY <1>1, <1>2

-----------------------------------------------------------------------------
(* FlattenSeq, by induction: what a queue of items holds. *)

(* f holds what FlattenSeq has gathered after each of the first n members. *)
Flattens(f, q, n) == f = [i \in 1 .. n |-> IF i = 1 THEN q[i] ELSE f[i - 1] \o q[i]]

(* The first m members are the same. *)
Agree(q, r, m) == \A i \in 1 .. m : q[i] = r[i]

(* y is h followed by x. *)
Prefixed(x, h, y) == y = h \o x

(* f gathers q, g gathers all of q but its first member. *)
FlattenRest(f, q, g, r, n, S) ==
    /\ n \in Nat /\ n \in 1 .. n
    /\ Flattens(f, q, n + 1) /\ Flattens(g, r, n)
    /\ (\A i \in 1 .. n + 1 : q[i] \in Seq(S)) /\ (\A i \in 1 .. n : r[i] = q[i + 1])

(* A gathering can be carried one member on ... *)
LEMMA FlattensMore ==
    ASSUME NEW q, NEW n \in Nat, NEW f, Flattens(f, q, n)
    PROVE  \E g : Flattens(g, q, n + 1)
<1> DEFINE g == [i \in 1 .. n + 1 |-> IF i = 1 THEN q[i] ELSE f[i - 1] \o q[i]]
<1>1. ASSUME NEW i \in 1 .. n PROVE g[i] = f[i]
  <2>1. f[i] = IF i = 1 THEN q[i] ELSE f[i - 1] \o q[i]
    BY Zenon DEF Flattens
  <2>2. i \in 1 .. n + 1
    OBVIOUS
  <2> QED BY <2>1, <2>2, Zenon
<1>2. \A i \in 1 .. n + 1 : i # 1 => i - 1 \in 1 .. n
  OBVIOUS
<1>3. g = [i \in 1 .. n + 1 |-> IF i = 1 THEN q[i] ELSE g[i - 1] \o q[i]]
  BY <1>1, <1>2
<1> HIDE DEF g
<1> QED BY <1>3 DEF Flattens

(* ... so there is one for every length. *)
LEMMA FlattensExists ==
    ASSUME NEW q, NEW k \in Nat
    PROVE  \E f : Flattens(f, q, k)
<1> DEFINE T == {n \in Nat : \E f : Flattens(f, q, n)}
<1>1. 0 \in T
  <2>1. Flattens(<<>>, q, 0)
    BY DEF Flattens
  <2> QED BY <2>1
<1>2. \A n \in T : n + 1 \in T
  BY FlattensMore
<1>3. T = Nat
  <2> HIDE DEF T
  <2>1. T \in SUBSET Nat
    BY DEF T
  <2> QED BY <1>1, <1>2, <2>1, Induction
<1> QED BY <1>3

(* FlattenSeq is the last of such a gathering. *)
LEMMA FlattenIs ==
    ASSUME NEW S, NEW q \in Seq(S), q # <<>>
    PROVE  \E f : Flattens(f, q, Len(q)) /\ FlattenSeq(q) = f[Len(q)]
<1> DEFINE F == CHOOSE f : Flattens(f, q, Len(q))
<1>1. Flattens(F, q, Len(q))
  BY FlattensExists, LenProperties, Zenon
<1>2. Len(q) # 0
  OBVIOUS
<1>3. FlattenSeq(q) = F[Len(q)]
  BY <1>2 DEF FlattenSeq, Flattens
<1> QED BY <1>1, <1>3

(* Two flattenings agree as far as the sequences do. *)
LEMMA FlattensSame ==
    ASSUME NEW q, NEW r, NEW m \in Nat, NEW n \in Nat, m <= n, NEW f, NEW g,
           Flattens(f, q, m), Flattens(g, r, n), Agree(q, r, m)
    PROVE  Agree(f, g, m)
<1> USE DEF Agree
<1> DEFINE T == {k \in Nat : k \in 1 .. m => f[k] = g[k]}
<1>1. 0 \in T
  OBVIOUS
<1>2. ASSUME NEW k \in T PROVE k + 1 \in T
  <2>1. k \in Nat /\ (k \in 1 .. m => f[k] = g[k])
    OBVIOUS
  <2>2. ASSUME k + 1 \in 1 .. m PROVE f[k + 1] = g[k + 1]
    <3>1. k + 1 \in 1 .. n /\ q[k + 1] = r[k + 1] /\ (k + 1) - 1 = k
      BY <2>1, <2>2
    <3>2. /\ f[k + 1] = IF k + 1 = 1 THEN q[k + 1] ELSE f[(k + 1) - 1] \o q[k + 1]
          /\ g[k + 1] = IF k + 1 = 1 THEN r[k + 1] ELSE g[(k + 1) - 1] \o r[k + 1]
      BY <2>2, <3>1, Zenon DEF Flattens
    <3>3. CASE k = 0
      BY <3>1, <3>2, <3>3
    <3>4. CASE k # 0
      <4>1. k \in 1 .. m
        BY <2>1, <2>2, <3>4
      <4> QED BY <2>1, <3>1, <3>2, <3>4, <4>1
    <3> QED BY <3>3, <3>4
  <2> QED BY <2>1, <2>2
<1>3. T = Nat
  <2> HIDE DEF T
  <2>1. T \in SUBSET Nat
    BY DEF T
  <2> QED BY <1>1, <1>2, <2>1, Induction
<1> QED BY <1>3

(* Nothing flattens to nothing. *)
LEMMA FlattenEmpty == FlattenSeq(<<>>) = <<>>
  BY DEF FlattenSeq

(* A single member flattens to itself. *)
LEMMA FlattenOne ==
    ASSUME NEW S, NEW x \in S
    PROVE  FlattenSeq(<<x>>) = x
<1>1. <<x>> \in Seq(S) /\ <<x>> # <<>> /\ Len(<<x>>) = 1 /\ <<x>>[1] = x
  OBVIOUS
<1>2. PICK f : Flattens(f, <<x>>, 1) /\ FlattenSeq(<<x>>) = f[1]
  BY <1>1, FlattenIs
<1> QED BY <1>1, <1>2 DEF Flattens

(* An item put at the end of a queue comes last. *)
LEMMA FlattenAppend ==
    ASSUME NEW S, NEW q \in Seq(Seq(S)), NEW x \in Seq(S)
    PROVE  FlattenSeq(Append(q, x)) = FlattenSeq(q) \o x
<1>1. /\ Append(q, x) \in Seq(Seq(S)) /\ Append(q, x) # <<>> /\ Len(Append(q, x)) = Len(q) + 1
      /\ Len(q) \in Nat /\ Append(q, x)[Len(q) + 1] = x
      /\ \A i \in 1 .. Len(q) : Append(q, x)[i] = q[i]
      /\ q # <<>> => Len(q) # 0
  BY AppendFacts, Zenon
<1>2. CASE q = <<>>
  <2>1. Append(q, x) = <<x>>
    BY <1>2
  <2> QED BY <1>2, <2>1, FlattenEmpty, FlattenOne
<1>3. CASE q # <<>>
  <2>1. PICK f : Flattens(f, q, Len(q)) /\ FlattenSeq(q) = f[Len(q)]
    BY <1>3, FlattenIs
  <2>2. PICK g : Flattens(g, Append(q, x), Len(q) + 1) /\ FlattenSeq(Append(q, x)) = g[Len(q) + 1]
    BY <1>1, FlattenIs
  <2>3. Len(q) \in 1 .. Len(q) /\ Len(q) + 1 \in 1 .. Len(q) + 1 /\ Len(q) + 1 # 1
        /\ (Len(q) + 1) - 1 = Len(q) /\ Len(q) <= Len(q) + 1 /\ Len(q) + 1 \in Nat
    BY <1>1, <1>3
  <2>4. \A i \in 1 .. Len(q) : q[i] = Append(q, x)[i]
    BY <1>1, Zenon
  <2>4a. \A i \in 1 .. Len(q) : f[i] = g[i]
    <3> DEFINE r == Append(q, x)
               n == Len(q)
    <3>1. n \in Nat /\ n + 1 \in Nat /\ n <= n + 1 /\ Flattens(f, q, n) /\ Flattens(g, r, n + 1)
          /\ Agree(q, r, n)
      BY <1>1, <2>1, <2>2, <2>3, <2>4, Zenon DEF Agree
    <3> HIDE DEF n, r
    <3>2. Agree(f, g, n)
      BY <3>1, FlattensSame, Zenon
    <3> QED BY <3>2 DEF Agree, n
  <2>5. g[Len(q) + 1] = g[Len(q)] \o x
    BY <1>1, <2>2, <2>3 DEF Flattens
  <2> QED BY <2>1, <2>2, <2>3, <2>4a, <2>5
<1> QED BY <1>2, <1>3

(* What is flattened has the type of the members. *)
LEMMA FlattenType ==
    ASSUME NEW S, NEW q \in Seq(Seq(S))
    PROVE  FlattenSeq(q) \in Seq(S)
<1>1. CASE q = <<>>
  <2>1. <<>> \in Seq(S)
    OBVIOUS
  <2> QED BY <1>1, <2>1, FlattenEmpty, Zenon
<1>2. CASE q # <<>>
  <2>1. PICK f : Flattens(f, q, Len(q)) /\ FlattenSeq(q) = f[Len(q)]
    BY <1>2, FlattenIs
  <2> DEFINE T == {k \in Nat : k \in 1 .. Len(q) => f[k] \in Seq(S)}
  <2>2. 0 \in T /\ T \in SUBSET Nat
    OBVIOUS
  <2>3. ASSUME NEW k \in T PROVE k + 1 \in T
    <3>1. k \in Nat /\ (k \in 1 .. Len(q) => f[k] \in Seq(S)) /\ (k + 1) - 1 = k
      OBVIOUS
    <3>2. ASSUME k + 1 \in 1 .. Len(q) PROVE f[k + 1] \in Seq(S)
      <4>1. f[k + 1] = IF k + 1 = 1 THEN q[k + 1] ELSE f[k] \o q[k + 1]
        BY <2>1, <3>1, <3>2 DEF Flattens
      <4>2. q[k + 1] \in Seq(S)
        BY <3>2
      <4>3. k = 0 \/ k \in 1 .. Len(q)
        BY <3>1, <3>2
      <4> QED BY <3>1, <4>1, <4>2, <4>3
    <3> QED BY <3>1, <3>2
  <2>4. T = Nat
    <3> HIDE DEF T
    <3> QED BY <2>2, <2>3, Induction
  <2>5. Len(q) \in Nat /\ Len(q) \in 1 .. Len(q)
    BY <1>2
  <2> QED BY <2>1, <2>4, <2>5
<1> QED BY <1>1, <1>2

(* The rest of a flattening. *)
LEMMA FlattensTail ==
    ASSUME NEW S, NEW n, NEW q, NEW r, NEW f, NEW g, FlattenRest(f, q, g, r, n, S)
    PROVE  Prefixed(g[n], q[1], f[n + 1])
<1> USE DEF FlattenRest
<1> DEFINE P(k) == g[k] \in Seq(S) /\ f[k + 1] = q[1] \o g[k]
           T == {k \in 1 .. n : P(k)}
<1>1. ASSUME 1 \in 1 .. n PROVE P(1)
  <2>1. 1 \in 1 .. n + 1 /\ 1 + 1 \in 1 .. n + 1 /\ (1 + 1) - 1 = 1 /\ 1 + 1 # 1
    BY <1>1
  <2>2. f[1] = q[1] /\ g[1] = r[1] /\ f[1 + 1] = f[(1 + 1) - 1] \o q[1 + 1]
    BY <1>1, <2>1, Zenon DEF Flattens
  <2>3. r[1] = q[1 + 1] /\ q[1 + 1] \in Seq(S)
    BY <1>1, <2>1, Zenon
  <2> QED BY <2>1, <2>2, <2>3, Zenon
<1>2. ASSUME NEW k \in 1 .. n, P(k), k + 1 \in 1 .. n PROVE P(k + 1)
  <2>1. /\ (k + 1) - 1 = k /\ ((k + 1) + 1) - 1 = k + 1 /\ k + 1 # 1 /\ (k + 1) + 1 # 1
        /\ (k + 1) + 1 \in 1 .. n + 1 /\ 1 \in 1 .. n + 1
    BY <1>2
  <2>2. g[k + 1] = IF k + 1 = 1 THEN r[k + 1] ELSE g[(k + 1) - 1] \o r[k + 1]
    BY <1>2, Zenon DEF Flattens
  <2>3. f[(k + 1) + 1] = IF (k + 1) + 1 = 1 THEN q[(k + 1) + 1]
                         ELSE f[((k + 1) + 1) - 1] \o q[(k + 1) + 1]
    BY <2>1, Zenon DEF Flattens
  <2>4. r[k + 1] = q[(k + 1) + 1]
    BY <1>2, Zenon
  <2>5. q[(k + 1) + 1] \in Seq(S) /\ q[1] \in Seq(S)
    BY <2>1, Zenon
  <2>6. g[k + 1] = g[k] \o q[(k + 1) + 1] /\ f[(k + 1) + 1] = (q[1] \o g[k]) \o q[(k + 1) + 1]
    BY <1>2, <2>1, <2>2, <2>3, <2>4, Zenon
  <2>7. (q[1] \o g[k]) \o q[(k + 1) + 1] = q[1] \o (g[k] \o q[(k + 1) + 1])
    <3> DEFINE a == q[1]
               b == g[k]
               c == q[(k + 1) + 1]
    <3>1. a \in Seq(S) /\ b \in Seq(S) /\ c \in Seq(S)
      BY <1>2, <2>5, Zenon
    <3> HIDE DEF a, b, c
    <3>2. (a \o b) \o c = a \o (b \o c)
      BY ONLY <3>1, Associative, SMTT(30)
    <3> QED BY <3>2, Zenon DEF a, b, c
  <2>8. g[k] \o q[(k + 1) + 1] \in Seq(S)
    BY <1>2, <2>5, Associative, Zenon
  <2> QED BY <2>6, <2>7, <2>8, Zenon
<1> HIDE DEF P
<1>3. n \in Nat /\ n \in 1 .. n
  OBVIOUS
<1>4. 1 .. n \subseteq T
  <2>1. /\ 1 \in 1 .. n => 1 \in T
        /\ \A k \in 1 .. n : k \in T /\ k + 1 \in 1 .. n => k + 1 \in T
    BY <1>1, <1>2
  <2> HIDE DEF T, FlattenRest
  <2> QED BY <1>3, <2>1, UpTo, Zenon
<1>5. P(n)
  BY <1>3, <1>4
<1> QED BY <1>5, Zenon DEF P, Prefixed

(* The item at the head of a queue comes first. *)
LEMMA FlattenHead ==
    ASSUME NEW S, NEW q \in Seq(Seq(S)), q # <<>>
    PROVE  FlattenSeq(q) = Head(q) \o FlattenSeq(Tail(q))
<1>1. /\ Head(q) \in Seq(S) /\ Tail(q) \in Seq(Seq(S)) /\ Len(q) \in Nat /\ Len(q) # 0
      /\ Len(Tail(q)) = Len(q) - 1 /\ Head(q) = q[1]
      /\ \A i \in 1 .. Len(q) - 1 : Tail(q)[i] = q[i + 1]
      /\ \A i \in 1 .. Len(q) : q[i] \in Seq(S)
      /\ Len(q) = 1 <=> Tail(q) = <<>>
  BY TailFacts, Zenon
<1>2. PICK f : Flattens(f, q, Len(q)) /\ FlattenSeq(q) = f[Len(q)]
  BY FlattenIs
<1>3. CASE Len(q) = 1
  <2>1. f[1] = q[1]
    <3>1. 1 \in 1 .. Len(q)
      BY <1>3
    <3> QED BY <1>2, <3>1, Zenon DEF Flattens
  <2>2. FlattenSeq(Tail(q)) = <<>>
    BY <1>1, <1>3, FlattenEmpty, Zenon
  <2>3. Head(q) \o <<>> = Head(q)
    BY <1>1
  <2> QED BY <1>1, <1>2, <1>3, <2>1, <2>2, <2>3, Zenon
<1>4. CASE Len(q) # 1
  <2> DEFINE n == Len(q) - 1
  <2>1. n \in Nat /\ n \in 1 .. n /\ n + 1 = Len(q)
    BY <1>1, <1>4
  <2>2. PICK g : Flattens(g, Tail(q), n) /\ FlattenSeq(Tail(q)) = g[n]
    BY <1>1, <1>4, FlattenIs, Zenon
  <2> HIDE DEF n
  <2>3. \A i \in 1 .. n : Tail(q)[i] = q[i + 1]
    BY <1>1 DEF n
  <2>4. f[n + 1] = q[1] \o g[n]
    <3>1. /\ \A i \in 1 .. n + 1 : q[i] \in Seq(S)
          /\ Flattens(f, q, n + 1) /\ Flattens(g, Tail(q), n)
      BY <1>1, <1>2, <2>1, <2>2, Zenon
    <3>2. FlattenRest(f, q, g, Tail(q), n, S)
      BY <2>1, <2>3, <3>1, Zenon DEF FlattenRest
    <3>3. Prefixed(g[n], q[1], f[n + 1])
      BY <3>2, FlattensTail, Zenon
    <3> QED BY <3>3, Zenon DEF Prefixed
  <2> QED BY <1>1, <1>2, <2>1, <2>2, <2>4, Zenon
<1> QED BY <1>3, <1>4

-----------------------------------------------------------------------------
(* The replay is the scrollback. *)

(* Where the chunks begin and how many there are. *)
LEMMA Multiples ==
    ASSUME NEW i \in Nat
    PROVE  /\ i * ReplayChunk \in Nat /\ (i + 1) * ReplayChunk = i * ReplayChunk + ReplayChunk
           /\ \A m \in Nat : i <= m => i * ReplayChunk <= m * ReplayChunk
           /\ 0 * ReplayChunk = 0
  OBVIOUS

(* There are as many chunks as it takes, and none too many. *)
LEMMA ChunkCount ==
    ASSUME NEW L \in Nat, NEW n, n = (L + ReplayChunk - 1) \div ReplayChunk
    PROVE  /\ n \in Nat /\ L <= n * ReplayChunk
           /\ \A k \in Nat : k + 1 <= n => k * ReplayChunk < L
<1>1. n \in Nat /\ n * ReplayChunk <= L + ReplayChunk - 1
      /\ L + ReplayChunk - 1 < n * ReplayChunk + ReplayChunk
  OBVIOUS
<1>2. n * ReplayChunk \in Nat
  BY <1>1, Multiples
<1>3. ASSUME NEW k \in Nat, k + 1 <= n PROVE k * ReplayChunk < L
  <2>1. (k + 1) * ReplayChunk <= n * ReplayChunk
    BY <1>1, <1>3, Multiples
  <2>2. (k + 1) * ReplayChunk = k * ReplayChunk + ReplayChunk /\ k * ReplayChunk \in Nat
    BY Multiples
  <2> QED BY <1>1, <1>2, <2>1, <2>2
<1> QED BY <1>1, <1>2, <1>3

(* The replay sends the scrollback, all of it and in order. *)
LEMMA ChunksFlatten ==
    ASSUME NEW buf \in Seq(Nat)
    PROVE  Chunks(buf) \in Seq(Seq(Nat)) /\ FlattenSeq(Chunks(buf)) = buf
<1> DEFINE L == Len(buf)
           n == (L + ReplayChunk - 1) \div ReplayChunk
           at(i) == i * ReplayChunk
           hi(i) == IF at(i) < L THEN at(i) ELSE L
           q == Chunks(buf)
<1>0. L \in Nat
  OBVIOUS
<1>1. L \in Nat /\ n \in Nat /\ L <= at(n) /\ \A k \in Nat : k + 1 <= n => at(k) < L
  BY <1>0, ChunkCount, Zenon
<1>2. \A k \in Nat : /\ at(k) \in Nat /\ at(k) <= at(k + 1) /\ hi(k) \in Nat /\ hi(k) <= L
                     /\ at(0) = 0
  <2> TAKE k \in Nat
  <2>1. at(k) \in Nat /\ at(k + 1) = at(k) + ReplayChunk /\ at(0) = 0
    BY Multiples
  <2> HIDE DEF at
  <2> QED BY <1>1, <2>1
<1>3. q = [i \in 1 .. n |-> SubSeq(buf, at(i - 1) + 1, hi(i))]
  BY DEF Chunks
<1> HIDE DEF n, at
<1>4. \A i \in 1 .. n : q[i] = SubSeq(buf, at(i - 1) + 1, hi(i))
  BY <1>3
<1>5. ASSUME NEW i \in 1 .. n PROVE SubSeq(buf, at(i - 1) + 1, hi(i)) \in Seq(Nat)
  <2>1. i \in Nat /\ i - 1 \in Nat
    BY <1>1
  <2> HIDE DEF hi
  <2>2. at(i - 1) \in Nat /\ hi(i) \in Nat /\ hi(i) <= L
    BY <1>2, <2>1, Zenon
  <2>3. at(i - 1) + 1 \in Int /\ hi(i) \in Int /\ \A j \in at(i - 1) + 1 .. hi(i) : buf[j] \in Nat
    BY <2>2
  <2> QED BY <2>3, SubSeqProperties
<1> HIDE DEF hi, q
<1>6. q \in Seq(Seq(Nat)) /\ Len(q) = n
  BY <1>1, <1>3, <1>5
<1>7. CASE q = <<>>
  <2>1. n = 0
    BY <1>6, <1>7
  <2>2. L = 0
    BY <1>1, <1>2, <2>1
  <2>3. buf = <<>>
    BY <2>2
  <2> QED BY <1>6, <1>7, <2>3, FlattenEmpty DEF q
<1>8. CASE q # <<>>
  <2>1. PICK f : Flattens(f, q, Len(q)) /\ FlattenSeq(q) = f[Len(q)]
    BY <1>6, <1>8, FlattenIs
  <2>2. Flattens(f, q, n)
    BY <1>6, <2>1
  <2> DEFINE P(k) == f[k] = SubSeq(buf, 1, hi(k))
             T == {k \in 1 .. n : P(k)}
  <2>3. ASSUME 1 \in 1 .. n PROVE P(1)
    <3>1. f[1] = q[1]
      BY <2>2, <2>3, Zenon DEF Flattens
    <3>2. q[1] = SubSeq(buf, at(1 - 1) + 1, hi(1)) /\ at(1 - 1) + 1 = 1
      BY <1>2, <1>4, <2>3
    <3> QED BY <3>1, <3>2
  <2>4. ASSUME NEW k \in 1 .. n, P(k), k + 1 \in 1 .. n PROVE P(k + 1)
    <3>1. k \in Nat /\ k + 1 # 1 /\ (k + 1) - 1 = k /\ k + 1 <= n /\ k + 1 \in Nat
      BY <1>1, <2>4
    <3>2. f[k + 1] = f[(k + 1) - 1] \o q[k + 1]
      BY <2>2, <2>4, <3>1, Zenon DEF Flattens
    <3>3. q[k + 1] = SubSeq(buf, at((k + 1) - 1) + 1, hi(k + 1))
      BY <1>4, <2>4
    <3>4. at(k) < L /\ hi(k) = at(k) /\ at(k) \in 0 .. L /\ hi(k + 1) \in at(k) .. L
      <4>1. at(k) < L /\ at(k) \in Nat /\ at(k) <= at(k + 1) /\ at(k + 1) \in Nat /\ L \in Nat
        BY <1>1, <1>2, <3>1, Zenon
      <4> QED BY <4>1 DEF hi
    <3>5. SubSeq(buf, 1, at(k)) \o SubSeq(buf, at(k) + 1, hi(k + 1)) = SubSeq(buf, 1, hi(k + 1))
      <4>1. 1 \in 1 .. Len(buf) + 1 /\ at(k) \in 1 - 1 .. Len(buf) /\ hi(k + 1) \in at(k) .. Len(buf)
        BY <1>1, <3>4
      <4> QED BY <4>1, ConcatAdjacentSubSeq
    <3> QED BY <2>4, <3>1, <3>2, <3>3, <3>4, <3>5
  <2> HIDE DEF P
  <2>5. 1 .. n \subseteq T
    <3>1. /\ 1 \in 1 .. n => 1 \in T
          /\ \A k \in 1 .. n : k \in T /\ k + 1 \in 1 .. n => k + 1 \in T
      BY <2>3, <2>4
    <3> HIDE DEF T
    <3> QED BY <1>1, <3>1, UpTo, Zenon
  <2>6. n \in 1 .. n
    BY <1>1, <1>6, <1>8
  <2>7. f[n] = SubSeq(buf, 1, hi(n))
    BY <2>5, <2>6 DEF P
  <2>8. hi(n) = L
    BY <1>1, <1>2 DEF hi
  <2>9. SubSeq(buf, 1, L) = buf
    BY SubSeqFull
  <2>10. FlattenSeq(q) = buf
    BY <1>6, <2>1, <2>7, <2>8, <2>9
  <2> QED BY <1>6, <2>10 DEF q
<1> QED BY <1>7, <1>8

(* A replay is the scrollback and then the mark. *)
LEMMA ReplayFlatten ==
    ASSUME NEW buf \in Seq(Nat)
    PROVE  FlattenSeq(Replay(buf)) = buf \o <<ReplayEnd>>
<1>1. <<ReplayEnd>> \in Seq(Nat)
  BY DEF ReplayEnd
<1> QED BY <1>1, ChunksFlatten, FlattenAppend DEF Replay

-----------------------------------------------------------------------------
(* Runs of units, and the exact stream. *)

(* A run of units, unit by unit. *)
LEMMA RunFacts ==
    ASSUME NEW m \in Nat, NEW n \in Nat, m >= 1, m <= n + 1
    PROVE  /\ Run(m, n) \in Seq(Nat) /\ Len(Run(m, n)) = n + 1 - m
           /\ \A i \in 1 .. n + 1 - m : Run(m, n)[i] = m + i - 1
<1> DEFINE k == n + 1 - m
<1>1. k \in Nat /\ (IF n < m THEN 0 ELSE n - m + 1) = k
  OBVIOUS
<1>2. Run(m, n) = [i \in 1 .. k |-> m + i - 1]
  BY <1>1 DEF Run
<1>3. \A i \in 1 .. k : m + i - 1 \in Nat
  BY <1>1
<1> HIDE DEF k
<1>4. Run(m, n) \in Seq(Nat) /\ Len(Run(m, n)) = k /\ \A i \in 1 .. k : Run(m, n)[i] = m + i - 1
  BY <1>1, <1>2, <1>3
<1> QED BY <1>4 DEF k

(* The next unit continues a run. *)
LEMMA RunMore ==
    ASSUME NEW m \in Nat, NEW n \in Nat, m >= 1, m <= n + 1
    PROVE  Run(m, n + 1) = Run(m, n) \o <<n + 1>>
<1> DEFINE a == Run(m, n + 1)
           b == Run(m, n)
           u == <<n + 1>>
<1>1. /\ a \in Seq(Nat) /\ Len(a) = n + 2 - m
      /\ \A i \in 1 .. n + 2 - m : a[i] = m + i - 1
  <2>1. n + 1 \in Nat /\ m <= (n + 1) + 1 /\ (n + 1) + 1 - m = n + 2 - m
    OBVIOUS
  <2> QED BY <2>1, RunFacts
<1>2. /\ b \in Seq(Nat) /\ Len(b) = n + 1 - m
      /\ \A i \in 1 .. n + 1 - m : b[i] = m + i - 1
  BY RunFacts
<1>3. u \in Seq(Nat) /\ Len(u) = 1 /\ u[1] = n + 1
  OBVIOUS
<1> HIDE DEF a, b, u
<1>4. /\ b \o u \in Seq(Nat) /\ Len(b \o u) = Len(b) + Len(u)
      /\ \A i \in 1 .. Len(b) + Len(u) : (b \o u)[i] = IF i <= Len(b) THEN b[i] ELSE u[i - Len(b)]
  BY <1>2, <1>3, ConcatProperties
<1>5. Len(a) = Len(b \o u)
  BY <1>1, <1>2, <1>3, <1>4
<1>6. ASSUME NEW i \in 1 .. Len(a) PROVE a[i] = (b \o u)[i]
  <2>1. i \in 1 .. Len(b) + Len(u) /\ a[i] = m + i - 1
    BY <1>1, <1>2, <1>3
  <2>2. (b \o u)[i] = IF i <= Len(b) THEN b[i] ELSE u[i - Len(b)]
    BY <1>4, <2>1
  <2>3. CASE i <= Len(b)
    BY <1>2, <2>1, <2>2, <2>3
  <2>4. CASE ~(i <= Len(b))
    <3>1. i - Len(b) = 1 /\ m + i - 1 = n + 1
      BY <1>1, <1>2, <1>3, <2>1, <2>4
    <3> QED BY <1>3, <2>1, <2>2, <2>4, <3>1
  <2> QED BY <2>3, <2>4
<1>7. a = b \o u
  BY <1>1, <1>4, <1>5, <1>6, SeqEqual
<1> QED BY <1>7 DEF a, b, u

(* The oldest unit kept is a unit, at most one past the last. *)
LEMMA OldestFacts ==
    ASSUME NEW n \in Nat
    PROVE  Oldest(n) \in Nat /\ Oldest(n) >= 1 /\ Oldest(n) <= n + 1 /\ Oldest(0) = 1
  BY DEF Oldest

(* The scrollback of the last units. *)
LEMMA ScrolledRun ==
    ASSUME NEW n \in Nat
    PROVE  Scrolled(Run(Oldest(n), n), n + 1) = Run(Oldest(n + 1), n + 1)
<1> DEFINE m == Oldest(n)
           b == Run(m, n)
           long == Append(b, n + 1)
           new == Run(Oldest(n + 1), n + 1)
<1>1. m \in Nat /\ m >= 1 /\ m <= n + 1 /\ (m = IF n > ScrollCap THEN n - ScrollCap + 1 ELSE 1)
  BY OldestFacts DEF Oldest
<1>2. b \in Seq(Nat) /\ Len(b) = n + 1 - m
  <2> HIDE DEF m
  <2> QED BY <1>1, RunFacts
<1>3. long = Run(m, n + 1)
  <2> HIDE DEF m
  <2>1. Run(m, n + 1) = Run(m, n) \o <<n + 1>>
    BY <1>1, RunMore
  <2>2. long = b \o <<n + 1>>
    <3> HIDE DEF b
    <3> QED BY <1>2
  <2> QED BY <2>1, <2>2
<1>4. /\ long \in Seq(Nat) /\ Len(long) = n + 2 - m
      /\ \A i \in 1 .. n + 2 - m : long[i] = m + i - 1
  <2> HIDE DEF m
  <2>1. n + 1 \in Nat /\ m <= (n + 1) + 1 /\ (n + 1) + 1 - m = n + 2 - m
    BY <1>1
  <2>2. /\ Run(m, n + 1) \in Seq(Nat) /\ Len(Run(m, n + 1)) = (n + 1) + 1 - m
        /\ \A i \in 1 .. (n + 1) + 1 - m : Run(m, n + 1)[i] = m + i - 1
    BY <1>1, <2>1, RunFacts, Zenon
  <2> HIDE DEF long
  <2> QED BY <1>3, <2>1, <2>2
<1>5. CASE Len(long) > ScrollCap
  <2> DEFINE lo == Len(long) - ScrollCap + 1
  <2>1. Scrolled(b, n + 1) = SubSeq(long, lo, Len(long))
    BY <1>5 DEF Scrolled
  <2> HIDE DEF long
  <2>2. lo \in 1 .. Len(long) /\ lo \in Int /\ Len(long) \in Int
    BY <1>4, <1>5
  <2>3. /\ SubSeq(long, lo, Len(long)) \in Seq(Nat)
        /\ Len(SubSeq(long, lo, Len(long))) = ScrollCap
        /\ \A i \in 1 .. ScrollCap : SubSeq(long, lo, Len(long))[i] = long[lo + i - 1]
    <3>1. \A i \in lo .. Len(long) : long[i] \in Nat
      BY <1>4, <2>2
    <3>2. lo <= Len(long) /\ Len(long) - lo + 1 = ScrollCap
      BY <2>2
    <3> HIDE DEF lo
    <3> QED BY <2>2, <3>1, <3>2, SubSeqProperties
  <2>4. Oldest(n + 1) = m + lo - 1 /\ (n + 1) + 1 - Oldest(n + 1) = ScrollCap
    <3> HIDE DEF m
    <3> QED BY <1>1, <1>4, <1>5 DEF Oldest
  <2>5. /\ new \in Seq(Nat) /\ Len(new) = ScrollCap
        /\ \A i \in 1 .. ScrollCap : new[i] = Oldest(n + 1) + i - 1
    <3>1. n + 1 \in Nat
      OBVIOUS
    <3> QED BY <2>4, <3>1, OldestFacts, RunFacts
  <2>6. ASSUME NEW i \in 1 .. ScrollCap PROVE new[i] = SubSeq(long, lo, Len(long))[i]
    <3>1. lo + i - 1 \in 1 .. n + 2 - m
      BY <1>1, <1>4, <2>2
    <3>2. long[lo + i - 1] = m + (lo + i - 1) - 1
      BY <1>4, <3>1
    <3>3. new[i] = (m + lo - 1) + i - 1
      BY <2>4, <2>5
    <3>4. m + (lo + i - 1) - 1 = (m + lo - 1) + i - 1
      <4> HIDE DEF m, lo
      <4> QED BY <1>1, <2>2
    <3> QED BY <2>3, <3>2, <3>3, <3>4
  <2>7. new = SubSeq(long, lo, Len(long))
    <3> HIDE DEF new, lo
    <3> QED BY <2>3, <2>5, <2>6, SeqEqual
  <2> QED BY <2>1, <2>7
<1>6. CASE ~(Len(long) > ScrollCap)
  <2>1. Oldest(n + 1) = m
    BY <1>1, <1>4, <1>6 DEF Oldest
  <2> QED BY <1>3, <1>6, <2>1 DEF Scrolled
<1> QED BY <1>5, <1>6

(* A run that has not begun. *)
LEMMA RunEmpty == ASSUME NEW n \in Nat PROVE Run(n + 1, n) = <<>>
  BY DEF Run

(* ExactStream as a function of the join and the last unit. *)
Exact(j, n) == Run(Oldest(j), j) \o <<ReplayEnd>> \o Run(j + 1, n)

(* The exact stream is a sequence of units, and so are its parts. *)
LEMMA ExactType ==
    ASSUME NEW j \in Nat, NEW n \in Nat, j <= n
    PROVE  /\ Run(Oldest(j), j) \o <<ReplayEnd>> \in Seq(Nat)
           /\ Run(j + 1, n) \in Seq(Nat) /\ Exact(j, n) \in Seq(Nat)
<1>1. Run(Oldest(j), j) \in Seq(Nat)
  BY OldestFacts, RunFacts
<1>2. Run(j + 1, n) \in Seq(Nat)
  <2>1. j + 1 \in Nat /\ j + 1 >= 1 /\ j + 1 <= n + 1
    OBVIOUS
  <2> QED BY <2>1, RunFacts
<1>3. <<ReplayEnd>> \in Seq(Nat)
  BY DEF ReplayEnd
<1> QED BY <1>1, <1>2, <1>3, ConcatProperties DEF Exact

(* Each unit read continues the exact stream. *)
LEMMA ExactMore ==
    ASSUME NEW j \in Nat, NEW n \in Nat, j <= n
    PROVE  Exact(j, n + 1) = Exact(j, n) \o <<n + 1>>
<1> DEFINE a == Run(Oldest(j), j) \o <<ReplayEnd>>
           b == Run(j + 1, n)
           u == <<n + 1>>
<1>1. Run(j + 1, n + 1) = b \o u
  <2>1. j + 1 \in Nat /\ j + 1 >= 1 /\ j + 1 <= n + 1
    OBVIOUS
  <2> QED BY <2>1, RunMore
<1>2. a \in Seq(Nat) /\ b \in Seq(Nat)
  BY ExactType, Zenon
<1>5. u \in Seq(Nat)
  OBVIOUS
<1>3. Exact(j, n) = a \o b /\ Exact(j, n + 1) = a \o Run(j + 1, n + 1)
  BY DEF Exact
<1> HIDE DEF a, b, u
<1>4. (a \o b) \o u = a \o (b \o u)
  BY <1>2, <1>5, Associative
<1> QED BY <1>1, <1>3, <1>4 DEF u

(* At the join it is the scrollback and the mark. *)
LEMMA ExactNow ==
    ASSUME NEW n \in Nat
    PROVE  Exact(n, n) = Run(Oldest(n), n) \o <<ReplayEnd>>
<1> DEFINE a == Run(Oldest(n), n) \o <<ReplayEnd>>
<1>1. a \in Seq(Nat)
  <2>1. n <= n
    OBVIOUS
  <2> QED BY <2>1, ExactType, Zenon
<1>2. Exact(n, n) = a \o Run(n + 1, n)
  BY DEF Exact
<1> HIDE DEF a
<1>3. a \o <<>> = a
  BY <1>1
<1> QED BY <1>2, <1>3, RunEmpty, Zenon DEF a

(* For the first connection of a session it is the mark alone. *)
LEMMA ExactNone == Exact(0, 0) = <<ReplayEnd>>
<1>1. Exact(0, 0) = Run(Oldest(0), 0) \o <<ReplayEnd>>
  BY ExactNow
<1>2. Run(Oldest(0), 0) = <<>>
  BY OldestFacts, RunEmpty
<1> QED BY <1>1, <1>2

(* What more is appended to has it as a prefix. *)
LEMMA PrefixConcat ==
    ASSUME NEW S, NEW a \in Seq(S), NEW b \in Seq(S)
    PROVE  IsPrefix(a, a \o b) /\ IsPrefix(a, a) /\ IsPrefix(<<>>, a)
  BY DEF IsPrefix

(* A prefix of a prefix is a prefix. *)
LEMMA PrefixTrans ==
    ASSUME NEW S, NEW a \in Seq(S), NEW b \in Seq(S), NEW c \in Seq(S),
           IsPrefix(a, b), IsPrefix(b, c)
    PROVE  IsPrefix(a, c)
<1>1. \A i \in 1 .. Len(a) : a[i] = b[i] /\ b[i] = c[i]
  BY DEF IsPrefix
<1> QED BY <1>1 DEF IsPrefix

-----------------------------------------------------------------------------
(* The streams of the connections. *)

(* A connection that nothing was written to. *)
Quiet(c) == got[c] = <<>> /\ busy[c] = <<>>

(* The scrollback is the last units read. *)
ScrollOK ==
    \A s \in Sessions :
        /\ fwd[s] \in {"none", "start", "loop"} => scroll[s] = Run(Oldest(read[s]), read[s])
        /\ fwd[s] \in {"none", "start"} => read[s] = 0

(* What connection c received or has coming, in every phase of its life. *)
LinkOK(c) ==
    LET s == tok[c] IN
    /\ pc[c] \in {"idle", "attaching", "creating", "opening"} => Quiet(c)
    /\ pc[c] \in {"opening", "up"} =>
        /\ joined[c] <= read[s]
        /\ IF fwd[s] = "start"
           THEN Quiet(c) /\ queue[c] = <<>> /\ joined[c] = 0
           ELSE IF active[s] = c /\ QueueOpen(c)
           THEN Stream(c) = ExactStream(c, read[s])
           ELSE IsPrefix(Stream(c), ExactStream(c, read[s]))

(* The invariant under which no unit is lost or repeated. *)
SInv == IInv /\ ScrollOK /\ \A c \in Conns : LinkOK(c)

(* Nothing that matters to the stream of connection d happens. *)
Undisturbed(d) ==
    LET s == tok[d] IN
    /\ pc'[d] \in {"idle", "attaching", "creating", "opening"} =>
          /\ pc[d] \in {"idle", "attaching", "creating", "opening"}
          /\ got'[d] = got[d] /\ busy'[d] = busy[d]
    /\ pc'[d] \in {"opening", "up"} =>
          /\ pc[d] \in {"opening", "up"} /\ tok'[d] = s /\ joined'[d] = joined[d]
          /\ got'[d] = got[d] /\ busy'[d] = busy[d] /\ queue'[d] = queue[d]
          /\ read'[s] = read[s] /\ (fwd'[s] = "start" <=> fwd[s] = "start")
          /\ active'[s] = d /\ QueueOpen(d)' => active[s] = d /\ QueueOpen(d)

(* ExactStream as a function of the join and the last unit. *)
LEMMA ExactIs ==
    ASSUME NEW c, NEW n
    PROVE  ExactStream(c, n) = Exact(joined[c], n)
  BY DEF ExactStream, Exact

(* The streams are sequences of units. *)
LEMMA LinkTypes ==
    ASSUME TypeOK, ConnOK, NEW c \in Conns
    PROVE  /\ got[c] \in Seq(Nat) /\ busy[c] \in Seq(Nat) /\ queue[c] \in Seq(Seq(Nat))
           /\ FlattenSeq(queue[c]) \in Seq(Nat)
           /\ Stream(c) \in Seq(Nat) /\ joined[c] \in Nat
           /\ pc[c] \in {"opening", "up"} => tok[c] \in Sessions /\ read[tok[c]] \in Nat
<1>1. /\ got[c] \in Seq(Nat) /\ busy[c] \in Seq(Nat) /\ queue[c] \in Seq(Seq(Nat))
      /\ joined[c] \in Nat
  BY DEF TypeOK
<1>2. FlattenSeq(queue[c]) \in Seq(Nat)
  BY <1>1, FlattenType, Zenon
<1>3. Stream(c) \in Seq(Nat)
  <2>1. got[c] \o busy[c] \in Seq(Nat)
    BY <1>1
  <2> QED BY <1>2, <2>1, ConcatProperties, Zenon DEF Stream
<1>4. pc[c] \in {"opening", "up"} => tok[c] \in Sessions /\ read[tok[c]] \in Nat
  BY DEF TypeOK, ConnOK
<1> QED BY <1>1, <1>2, <1>3, <1>4, Zenon

(* A connection nothing happens to keeps its stream exact, or exact so far. *)
LEMMA LinkFrame ==
    ASSUME TypeOK, ConnOK, NEW d \in Conns, LinkOK(d), Undisturbed(d)
    PROVE  LinkOK(d)'
<1>1. pc'[d] \in {"idle", "attaching", "creating", "opening"} => Quiet(d)'
  BY DEF LinkOK, Undisturbed, Quiet
<1>2. ASSUME pc'[d] \in {"opening", "up"}
      PROVE  LET s == tok[d] IN
             /\ tok'[d] = s /\ joined'[d] <= read'[s]
             /\ IF fwd'[s] = "start"
                THEN Quiet(d)' /\ queue'[d] = <<>> /\ joined'[d] = 0
                ELSE IF active'[s] = d /\ QueueOpen(d)'
                THEN Stream(d)' = ExactStream(d, read[s])'
                ELSE IsPrefix(Stream(d)', ExactStream(d, read[s])')
  <2> DEFINE s == tok[d]
  <2>1. /\ pc[d] \in {"opening", "up"} /\ tok'[d] = s /\ joined'[d] = joined[d]
        /\ got'[d] = got[d] /\ busy'[d] = busy[d] /\ queue'[d] = queue[d]
        /\ read'[s] = read[s] /\ (fwd'[s] = "start" <=> fwd[s] = "start")
        /\ active'[s] = d /\ QueueOpen(d)' => active[s] = d /\ QueueOpen(d)
    BY <1>2, Zenon DEF Undisturbed
  <2>2. /\ joined[d] <= read[s]
        /\ IF fwd[s] = "start"
           THEN Quiet(d) /\ queue[d] = <<>> /\ joined[d] = 0
           ELSE IF active[s] = d /\ QueueOpen(d)
           THEN Stream(d) = ExactStream(d, read[s])
           ELSE IsPrefix(Stream(d), ExactStream(d, read[s]))
    BY <2>1, Zenon DEF LinkOK
  <2>3. Stream(d)' = Stream(d) /\ (Quiet(d)' <=> Quiet(d))
    BY <2>1 DEF Stream, Quiet
  <2>4. ExactStream(d, read[s])' = ExactStream(d, read[s])
    BY <2>1 DEF ExactStream
  <2>5. Stream(d) = ExactStream(d, read[s]) => IsPrefix(Stream(d), ExactStream(d, read[s]))
    BY LinkTypes, PrefixConcat, Zenon
  <2> HIDE DEF s
  <2> QED BY <2>1, <2>2, <2>3, <2>4, <2>5, Zenon DEF s
<1> QED BY <1>1, <1>2, Zenon DEF LinkOK

(* What a step of the down task does to received, being written, queued. *)
LEMMA RecvKeepsStream ==
    ASSUME NEW g \in Seq(Nat), NEW q \in Seq(Seq(Nat)), q # <<>>
    PROVE  (g \o <<>>) \o FlattenSeq(q) = (g \o Head(q)) \o FlattenSeq(Tail(q))
<1> DEFINE h == Head(q)
           t == FlattenSeq(Tail(q))
<1>1. h \in Seq(Nat) /\ Tail(q) \in Seq(Seq(Nat))
  BY TailFacts, Zenon
<1>2. t \in Seq(Nat)
  BY <1>1, FlattenType, Zenon
<1>3. FlattenSeq(q) = h \o t
  BY FlattenHead, Zenon
<1> HIDE DEF h, t
<1>4. (g \o h) \o t = g \o (h \o t)
  <2>1. g \in Seq(Nat) /\ h \in Seq(Nat) /\ t \in Seq(Nat)
    BY <1>1, <1>2, Zenon
  <2> QED BY ONLY <2>1, Associative, SMTT(30)
<1>5. g \o <<>> = g
  BY ConcatEmptySeq, Zenon
<1> QED BY <1>3, <1>4, <1>5, Zenon DEF h, t

(* ... and so does finishing the write. *)
LEMMA SentKeepsStream ==
    ASSUME NEW g \in Seq(Nat), NEW b \in Seq(Nat)
    PROVE  (g \o b) \o <<>> = g \o b
  OBVIOUS

(* Output put into the queue goes to the end of the stream. *)
LEMMA AppendToStream ==
    ASSUME NEW h \in Seq(Nat), NEW q \in Seq(Seq(Nat)), NEW x \in Seq(Nat)
    PROVE  h \o FlattenSeq(Append(q, x)) = (h \o FlattenSeq(q)) \o x
<1> DEFINE t == FlattenSeq(q)
<1>1. t \in Seq(Nat)
  BY FlattenType, Zenon
<1>2. FlattenSeq(Append(q, x)) = t \o x
  BY FlattenAppend, Zenon
<1> HIDE DEF t
<1>3. (h \o t) \o x = h \o (t \o x)
  BY <1>1, Associative
<1> QED BY <1>2, <1>3, Zenon DEF t

(* A dropped queue leaves what was received, a prefix. *)
LEMMA DropFromStream ==
    ASSUME NEW g \in Seq(Nat), NEW b \in Seq(Nat), NEW q \in Seq(Seq(Nat))
    PROVE  IsPrefix((g \o <<>>) \o FlattenSeq(<<>>), (g \o b) \o FlattenSeq(q))
<1> DEFINE t == FlattenSeq(q)
<1>1. t \in Seq(Nat)
  BY FlattenType, Zenon
<1> HIDE DEF t
<1>2. (g \o <<>>) \o <<>> = g /\ (g \o b) \o t = g \o (b \o t) /\ b \o t \in Seq(Nat)
  BY <1>1, Associative
<1>3. IsPrefix(g, g \o (b \o t))
  BY <1>2, PrefixConcat
<1> QED BY <1>2, <1>3, FlattenEmpty, Zenon DEF t

(* Taking a frame from the queue and finishing it. *)
LEMMA DownRecvLink ==
    ASSUME SInv, NEW c \in Conns, DownRecv(c), NEW d \in Conns
    PROVE  LinkOK(d)'
<1> USE DEF SInv, IInv
<1>1. CASE d # c
  <2>1. queue \in [Conns -> Seq(Seq(Nat))] /\ busy \in [Conns -> Seq(Nat)]
    BY DEF TypeOK
  <2>2. Undisturbed(d)
    BY <1>1, <2>1 DEF DownRecv, fwdVars, tableVars, coreVars, Undisturbed, QueueOpen
  <2> QED BY <2>2, LinkFrame
<1>2. CASE d = c
  <2> DEFINE s == tok[c]
  <2>1. /\ pc[c] = "up" /\ busy[c] = <<>> /\ queue[c] # <<>> /\ down[c] = "run"
        /\ busy'[c] = Head(queue[c]) /\ queue'[c] = Tail(queue[c]) /\ got' = got
        /\ pc' = pc /\ tok' = tok /\ active' = active /\ down' = down /\ joined' = joined
        /\ read' = read /\ fwd' = fwd
    BY DEF DownRecv, DownIdle, TypeOK, fwdVars
  <2>2. Stream(c)' = Stream(c)
    <3>1. got[c] \in Seq(Nat) /\ queue[c] \in Seq(Seq(Nat))
      BY LinkTypes, Zenon
    <3> QED BY <2>1, <3>1, RecvKeepsStream, Zenon DEF Stream
  <2>3. /\ joined[c] <= read[s] /\ fwd[s] # "start"
        /\ IF active[s] = c /\ QueueOpen(c)
           THEN Stream(c) = ExactStream(c, read[s])
           ELSE IsPrefix(Stream(c), ExactStream(c, read[s]))
    BY <2>1 DEF LinkOK
  <2>4. ExactStream(c, read[s])' = ExactStream(c, read[s]) /\ (QueueOpen(c)' <=> QueueOpen(c))
    BY <2>1 DEF ExactStream, QueueOpen
  <2>5. /\ pc'[c] = "up" /\ s' = s /\ joined'[c] = joined[c] /\ read'[s] = read[s] /\ fwd'[s] = fwd[s]
        /\ active'[s] = active[s]
    BY <2>1
  <2> QED BY <1>2, <2>2, <2>3, <2>4, <2>5 DEF LinkOK
<1> QED BY <1>1, <1>2

(* DownSent: the frame being written arrives. *)
LEMMA DownSentLink ==
    ASSUME SInv, NEW c \in Conns, DownSent(c), NEW d \in Conns
    PROVE  LinkOK(d)'
<1> USE DEF SInv, IInv
<1>1. CASE d # c
  <2>1. got \in [Conns -> Seq(Nat)] /\ busy \in [Conns -> Seq(Nat)]
    BY DEF TypeOK
  <2>2. Undisturbed(d)
    BY <1>1, <2>1 DEF DownSent, fwdVars, tableVars, coreVars, Undisturbed, QueueOpen
  <2> QED BY <2>2, LinkFrame
<1>2. CASE d = c
  <2> DEFINE s == tok[c]
  <2>1. /\ pc[c] = "up" /\ busy[c] # <<>> /\ down[c] = "run"
        /\ busy'[c] = <<>> /\ queue' = queue /\ got'[c] = got[c] \o busy[c]
        /\ pc' = pc /\ tok' = tok /\ active' = active /\ down' = down /\ joined' = joined
        /\ read' = read /\ fwd' = fwd
    BY DEF DownSent, TypeOK, fwdVars
  <2>2. Stream(c)' = Stream(c)
    <3>1. got[c] \in Seq(Nat) /\ busy[c] \in Seq(Nat)
      BY LinkTypes, Zenon
    <3> QED BY <2>1, <3>1, SentKeepsStream, Zenon DEF Stream
  <2>3. /\ joined[c] <= read[s] /\ fwd[s] # "start"
        /\ IF active[s] = c /\ QueueOpen(c)
           THEN Stream(c) = ExactStream(c, read[s])
           ELSE IsPrefix(Stream(c), ExactStream(c, read[s]))
    BY <2>1 DEF LinkOK, Quiet
  <2>4. ExactStream(c, read[s])' = ExactStream(c, read[s]) /\ (QueueOpen(c)' <=> QueueOpen(c))
    BY <2>1 DEF ExactStream, QueueOpen
  <2>5. /\ pc'[c] = "up" /\ s' = s /\ joined'[c] = joined[c] /\ read'[s] = read[s] /\ fwd'[s] = fwd[s]
        /\ active'[s] = active[s]
    BY <2>1
  <2> QED BY <1>2, <2>2, <2>3, <2>4, <2>5 DEF LinkOK
<1> QED BY <1>1, <1>2

(* The down task stops and what it had is dropped. *)
LEMMA DownStopLink ==
    ASSUME SInv, NEW c \in Conns, DownClose(c) \/ DownExit(c) \/ DownSendFails(c), NEW d \in Conns
    PROVE  LinkOK(d)'
<1> USE DEF SInv, IInv
<1>0. /\ pc[c] = "up" /\ down' = [down EXCEPT ![c] = "stopped"] /\ DropQueue(c) /\ got' = got
      /\ pc' = pc /\ tok' = tok /\ active' = active /\ joined' = joined
      /\ read' = read /\ fwd' = fwd
  BY DEF DownClose, DownExit, DownSendFails, DownIdle, fwdVars
<1>1. CASE d # c
  <2>1. queue \in [Conns -> Seq(Seq(Nat))] /\ busy \in [Conns -> Seq(Nat)]
        /\ down \in [Conns -> {"none", "run", "stopped"}]
    BY DEF TypeOK
  <2>2. Undisturbed(d)
    BY <1>0, <1>1, <2>1 DEF DropQueue, Undisturbed, QueueOpen
  <2> QED BY <2>2, LinkFrame
<1>2. CASE d = c
  <2> DEFINE s == tok[c]
  <2>1. /\ busy'[c] = <<>> /\ queue'[c] = <<>> /\ ~QueueOpen(c)'
    BY <1>0 DEF DropQueue, QueueOpen, TypeOK
  <2>2. IsPrefix(Stream(c)', Stream(c)) /\ Stream(c)' \in Seq(Nat)
    <3>1. got[c] \in Seq(Nat) /\ busy[c] \in Seq(Nat) /\ queue[c] \in Seq(Seq(Nat))
      BY LinkTypes, Zenon
    <3>2. Stream(c)' = (got[c] \o <<>>) \o FlattenSeq(<<>>)
      BY <1>0, <2>1, Zenon DEF Stream
    <3>3. (got[c] \o <<>>) \o <<>> \in Seq(Nat)
      BY <3>1
    <3> QED BY <3>1, <3>2, <3>3, DropFromStream, FlattenEmpty, Zenon DEF Stream
  <2>3. /\ joined[c] <= read[s]
        /\ IF fwd[s] = "start"
           THEN Quiet(c) /\ queue[c] = <<>> /\ joined[c] = 0
           ELSE IF active[s] = c /\ QueueOpen(c)
           THEN Stream(c) = ExactStream(c, read[s])
           ELSE IsPrefix(Stream(c), ExactStream(c, read[s]))
    BY <1>0, Zenon DEF LinkOK
  <2>4. ExactStream(c, read[s])' = ExactStream(c, read[s])
    BY <1>0 DEF ExactStream
  <2>5. fwd[s] # "start" => IsPrefix(Stream(c)', ExactStream(c, read[s]))
    <3>1. Stream(c) \in Seq(Nat) /\ ExactStream(c, read[s]) \in Seq(Nat)
      <4>1. joined[c] \in Nat /\ read[s] \in Nat /\ Stream(c) \in Seq(Nat)
        BY <1>0, LinkTypes, Zenon
      <4> QED BY <2>3, <4>1, ExactIs, ExactType, Zenon
    <3> QED BY <2>2, <2>3, <3>1, PrefixTrans, Zenon
  <2>6. /\ pc'[c] = "up" /\ s' = s /\ joined'[c] = joined[c] /\ read'[s] = read[s] /\ fwd'[s] = fwd[s]
        /\ active'[s] = active[s]
    BY <1>0, Zenon
  <2>7. Quiet(c) => Quiet(c)'
    BY <1>0, <2>1 DEF Quiet
  <2>8. pc'[c] \notin {"idle", "attaching", "creating", "opening"}
    BY <2>6
  <2> QED BY <1>2, <2>1, <2>3, <2>4, <2>5, <2>6, <2>7, <2>8, Zenon DEF LinkOK
<1> QED BY <1>1, <1>2

(* The steps before a connection has a session, and those of other tasks:   *)
(* no stream changes.                                                       *)
LEMMA HandleLink ==
    ASSUME SInv, NEW c \in Conns, NEW d \in Conns,
           \/ HandleOpen(c) \/ CreateFails(c) \/ SendOpened(c) \/ SendOpenedFails(c)
           \/ TypeIn(c) \/ WsDrop(c)
           \/ \E s \in Sessions : HandleFresh(c, s) \/ attach(c, s)
    PROVE  LinkOK(d)'
<1> USE DEF SInv, IInv
<1>0. /\ pc \in [Conns -> {"idle", "attaching", "creating", "opening", "up", "gone"}]
      /\ tok \in [Conns -> Sessions \cup {None}] /\ down \in [Conns -> {"none", "run", "stopped"}]
      /\ got \in [Conns -> Seq(Nat)] /\ busy \in [Conns -> Seq(Nat)]
      /\ queue \in [Conns -> Seq(Seq(Nat))]
  BY DEF TypeOK
<1>1. CASE HandleOpen(c)
  <2>1. Undisturbed(d)
    BY <1>0, <1>1 DEF HandleOpen, fwdVars, Undisturbed, QueueOpen
  <2> QED BY <2>1, LinkFrame
<1>2. CASE CreateFails(c)
  <2>1. Undisturbed(d)
    BY <1>0, <1>2 DEF CreateFails, fwdVars, Undisturbed, QueueOpen
  <2> QED BY <2>1, LinkFrame
<1>3. CASE SendOpened(c)
  <2>1. Undisturbed(d)
    BY <1>0, <1>3 DEF SendOpened, fwdVars, Undisturbed, QueueOpen
  <2> QED BY <2>1, LinkFrame
<1>4. CASE SendOpenedFails(c)
  <2>1. Undisturbed(d)
    BY <1>0, <1>4 DEF SendOpenedFails, DropQueue, fwdVars, Undisturbed, QueueOpen
  <2> QED BY <2>1, LinkFrame
<1>5. CASE WsDrop(c)
  <2>1. Undisturbed(d)
    BY <1>0, <1>5 DEF WsDrop, DropQueue, fwdVars, Undisturbed, QueueOpen
  <2> QED BY <2>1, LinkFrame
<1>6. ASSUME NEW s \in Sessions, HandleFresh(c, s) PROVE LinkOK(d)'
  <2>1. Undisturbed(d)
    BY <1>0, <1>6 DEF HandleFresh, fwdVars, Undisturbed, QueueOpen
  <2> QED BY <2>1, LinkFrame
<1>7. ASSUME NEW s \in Sessions, attach(c, s) PROVE LinkOK(d)'
  <2>1. Undisturbed(d)
    BY <1>0, <1>7 DEF attach, fwdVars, Undisturbed, QueueOpen
  <2> QED BY <2>1, LinkFrame
<1>8. CASE TypeIn(c)
  <2>1. Undisturbed(d)
    BY <1>8 DEF TypeIn, fwdVars, connVars, Undisturbed, QueueOpen
  <2> QED BY <2>1, LinkFrame
<1> QED BY <1>1, <1>2, <1>3, <1>4, <1>5, <1>6, <1>7, <1>8

(* Timers and pumps do not touch any stream. *)
LEMMA OthersLink ==
    ASSUME SInv, NEW s \in Sessions, Timer(s) \/ Pump(s), NEW d \in Conns
    PROVE  LinkOK(d)'
<1>1. UNCHANGED <<fwdVars, connVars>>
  BY PumpType DEF Timer, TimerElapse, TimerRemove, SInv, IInv
<1>2. Undisturbed(d)
  BY <1>1 DEF fwdVars, connVars, Undisturbed, QueueOpen
<1> QED BY <1>2, LinkFrame DEF SInv, IInv

(* A new session. *)
LEMMA createLink ==
    ASSUME SInv, NEW c \in Conns, NEW s \in Sessions, create(c, s), NEW d \in Conns
    PROVE  LinkOK(d)'
<1> USE DEF SInv, IInv
<1>0. /\ pc \in [Conns -> {"idle", "attaching", "creating", "opening", "up", "gone"}]
      /\ tok \in [Conns -> Sessions \cup {None}]
      /\ fwd \in [Sessions -> {"none", "start", "loop", "done"}]
      /\ active \in [Sessions -> Conns \cup {None}] /\ joined \in [Conns -> Nat]
      /\ read \in [Sessions -> Nat]
  BY DEF TypeOK
<1>1. CASE d # c
  <2>1. pc[d] \in {"opening", "up"} => tok[d] \in Sessions /\ tok[d] # s
    BY DEF ConnOK, create
  <2>2. Undisturbed(d)
    BY <1>0, <1>1, <2>1 DEF create, fwdVars, Undisturbed, QueueOpen
  <2> QED BY <2>2, LinkFrame
<1>2. CASE d = c
  <2>1. /\ pc[c] = "creating" /\ pc'[c] = "opening" /\ tok'[c] = s /\ joined'[c] = 0 /\ read' = read
        /\ fwd'[s] = "start" /\ UNCHANGED <<queue, busy, got>>
    BY <1>0 DEF create
  <2>2. Quiet(c)' /\ queue'[c] = <<>>
    BY <2>1 DEF LinkOK, ConnOK, Quiet
  <2>3. read'[s] \in Nat
    BY <1>0, <2>1
  <2> QED BY <1>2, <2>1, <2>2, <2>3 DEF LinkOK
<1> QED BY <1>1, <1>2

(* The end of a forward task. *)
LEMMA FwdEndLink ==
    ASSUME SInv, NEW s \in Sessions, FwdEnd(s), NEW d \in Conns
    PROVE  LinkOK(d)'
<1> USE DEF SInv, IInv
<1>1. /\ pc \in [Conns -> {"idle", "attaching", "creating", "opening", "up", "gone"}]
      /\ fwd \in [Sessions -> {"none", "start", "loop", "done"}]
      /\ active \in [Sessions -> Conns \cup {None}]
  BY DEF TypeOK
<1>2. /\ \A t : fwd'[t] = "start" <=> fwd[t] = "start"
      /\ \A t \in Sessions : active'[t] = d => active[t] = d
  BY <1>1 DEF FwdEnd
<1>3. pc'[d] = pc[d] \/ (pc[d] = "attaching" /\ pc'[d] = "creating")
  BY <1>1 DEF FwdEnd, Attaching
<1>4. pc[d] \in {"opening", "up"} => tok[d] \in Sessions
  BY DEF ConnOK
<1>5. UNCHANGED <<read, tok, queue, busy, down, got, joined>>
  BY DEF FwdEnd
<1>6. Undisturbed(d)
  BY <1>2, <1>3, <1>4, <1>5 DEF Undisturbed, QueueOpen
<1> QED BY <1>6, LinkFrame

(* The forward task starts. *)
LEMMA FwdStartLink ==
    ASSUME SInv, NEW s \in Sessions, FwdStart(s), NEW d \in Conns
    PROVE  LinkOK(d)'
<1> USE DEF SInv, IInv
<1>1. /\ pc \in [Conns -> {"idle", "attaching", "creating", "opening", "up", "gone"}]
      /\ fwd \in [Sessions -> {"none", "start", "loop", "done"}]
      /\ active \in [Sessions -> Conns \cup {None}] /\ queue \in [Conns -> Seq(Seq(Nat))]
  BY DEF TypeOK
<1>2. /\ fwd[s] = "start" /\ fwd'[s] # "start" /\ active[s] \in Conns /\ tok[active[s]] = s
      /\ \A t \in Sessions : active'[t] = d => active[t] = d
      /\ \A t \in Sessions : t # s => fwd'[t] = fwd[t]
  BY <1>1 DEF FwdStart, ActiveOK
<1>3. pc'[d] = pc[d] \/ (pc[d] = "attaching" /\ pc'[d] = "creating")
  BY <1>1 DEF FwdStart, Attaching
<1>4. pc[d] \in {"opening", "up"} => tok[d] \in Sessions
  BY DEF ConnOK
<1>5. UNCHANGED <<read, tok, busy, down, got, joined>>
  BY DEF FwdStart
<1>6. d # active[s] \/ ~QueueOpen(d) => queue'[d] = queue[d]
  BY <1>1, <1>2 DEF FwdStart
<1>7. CASE ~(pc[d] \in {"opening", "up"} /\ tok[d] = s)
  <2>1. pc'[d] \in {"opening", "up"} => d # active[s] /\ tok[d] # s
    BY <1>2, <1>3, <1>7
  <2>2. Undisturbed(d)
    BY <1>2, <1>3, <1>4, <1>5, <1>6, <2>1 DEF Undisturbed, QueueOpen
  <2> QED BY <2>2, LinkFrame
<1>8. CASE pc[d] \in {"opening", "up"} /\ tok[d] = s
  <2>1. Quiet(d) /\ queue[d] = <<>> /\ joined[d] = 0 /\ read[s] = 0
    BY <1>2, <1>8 DEF LinkOK, ScrollOK
  <2>2. /\ pc'[d] = pc[d] /\ tok'[d] = s /\ joined'[d] = 0 /\ read'[s] = 0 /\ Quiet(d)'
        /\ (QueueOpen(d)' <=> QueueOpen(d))
    BY <1>3, <1>5, <1>8, <2>1 DEF Quiet, QueueOpen
  <2>3. ExactStream(d, 0)' = <<ReplayEnd>>
    BY <2>2, ExactNone DEF ExactStream, Exact
  <2>4. IF active'[s] = d /\ QueueOpen(d)'
        THEN Stream(d)' = <<ReplayEnd>>
        ELSE IsPrefix(Stream(d)', <<ReplayEnd>>)
    <3>1. CASE active[s] = d /\ QueueOpen(d)
      <4>1. queue'[d] = <<<<ReplayEnd>>>> /\ active'[s] = d
        <5>1. queue'[d] = Append(<<>>, <<ReplayEnd>>) /\ active' = active
          <6>1. /\ queue' = [queue EXCEPT ![d] = Append(@, <<ReplayEnd>>)]
                /\ UNCHANGED <<tableVars, active, cmds, pc>>
            BY <3>1, Zenon DEF FwdStart
          <6> QED BY <1>1, <2>1, <6>1
        <5> QED BY <3>1, <5>1
      <4>2. FlattenSeq(<<<<ReplayEnd>>>>) = <<ReplayEnd>>
        BY FlattenOne
      <4>3. (<<>> \o <<>>) \o <<ReplayEnd>> = <<ReplayEnd>>
        OBVIOUS
      <4>4. Stream(d)' = <<ReplayEnd>>
        BY <2>2, <4>1, <4>2, <4>3, Zenon DEF Stream, Quiet
      <4> QED BY <2>2, <3>1, <4>1, <4>4, Zenon
    <3>2. CASE ~(active[s] = d /\ QueueOpen(d))
      <4>1. queue'[d] = <<>>
        BY <1>6, <2>1, <3>2
      <4>2. Stream(d)' = (<<>> \o <<>>) \o FlattenSeq(<<>>)
        BY <2>2, <4>1, Zenon DEF Stream, Quiet
      <4>3. (<<>> \o <<>>) \o <<>> = <<>>
        OBVIOUS
      <4>4. Stream(d)' = <<>>
        BY <4>2, <4>3, FlattenEmpty, Zenon
      <4>5. <<ReplayEnd>> \in Seq(Nat)
        BY DEF ReplayEnd
      <4>6. IsPrefix(<<>>, <<ReplayEnd>>)
        BY <4>5, PrefixConcat, Zenon
      <4>7. ~(active'[s] = d /\ QueueOpen(d)')
        BY <1>2, <2>2, <3>2
      <4> QED BY <4>4, <4>6, <4>7, Zenon
    <3> QED BY <3>1, <3>2
  <2>5. 0 <= 0
    OBVIOUS
  <2> QED BY <1>2, <2>2, <2>3, <2>4, <2>5, Zenon DEF LinkOK
<1> QED BY <1>7, <1>8

(* The replay: what the scrollback holds, the mark, and nothing yet after it. *)
LEMMA FwdAttachLink ==
    ASSUME SInv, NEW s \in Sessions, FwdAttach(s), NEW d \in Conns
    PROVE  LinkOK(d)'
<1> USE DEF SInv, IInv
<1> DEFINE c == Head(cmds[s])
<1>1. /\ pc \in [Conns -> {"idle", "attaching", "creating", "opening", "up", "gone"}]
      /\ active \in [Sessions -> Conns \cup {None}] /\ queue \in [Conns -> Seq(Seq(Nat))]
      /\ joined \in [Conns -> Nat] /\ read \in [Sessions -> Nat]
  BY DEF TypeOK
<1>2. fwd[s] = "loop" /\ c \in Conns /\ pc[c] = "attaching" /\ tok[c] = s
  <2>1. cmds[s] \in Seq(Conns) /\ cmds[s] # <<>> /\ fwd[s] = "loop"
    BY DEF TypeOK, FwdAttach
  <2>2. c \in Conns /\ 1 \in 1 .. Len(cmds[s]) /\ c = cmds[s][1]
    BY <2>1
  <2> QED BY <2>1, <2>2 DEF CmdsOK
<1>3. UNCHANGED <<fwd, read, tok, busy, down, got>>
  BY DEF FwdAttach
<1>4. pc[d] \in {"opening", "up"} => tok[d] \in Sessions
  BY DEF ConnOK
<1>5. CASE d # c
  <2> HIDE DEF c
  <2>1. pc'[d] = pc[d] /\ queue'[d] = queue[d] /\ joined'[d] = joined[d]
    BY <1>1, <1>2, <1>5 DEF FwdAttach, c
  <2>2. \A t \in Sessions : active'[t] = d => active[t] = d
    BY <1>1, <1>2, <1>5 DEF FwdAttach, c
  <2>3. Undisturbed(d)
    BY <1>3, <1>4, <2>1, <2>2 DEF Undisturbed, QueueOpen
  <2> QED BY <2>3, LinkFrame
<1>6. CASE d = c /\ s \in held
  <2> DEFINE n == read[s]
  <2> HIDE DEF c
  <2>1. /\ pc'[d] = "opening" /\ joined'[d] = n /\ queue'[d] = Replay(scroll[s]) /\ active'[s] = d
    BY <1>1, <1>2, <1>6 DEF FwdAttach, c
  <2>2. tok'[d] = s /\ read'[s] = n /\ fwd'[s] = "loop" /\ n \in Nat /\ n <= n
    BY <1>1, <1>2, <1>3, <1>6
  <2>3. Quiet(d)' /\ QueueOpen(d)'
    BY <1>2, <1>3, <1>6, <2>1 DEF LinkOK, Quiet, QueueOpen
  <2>4. scroll[s] = Run(Oldest(n), n) /\ scroll[s] \in Seq(Nat)
    BY <1>2 DEF ScrollOK, TypeOK
  <2> DEFINE r == scroll[s] \o <<ReplayEnd>>
  <2>5. FlattenSeq(queue'[d]) = r
    BY <2>1, <2>4, ReplayFlatten, Zenon
  <2>6. ExactStream(d, read[s])' = r
    <3>1. ExactStream(d, read[s])' = Exact(n, n)
      BY <2>1, <1>3 DEF ExactStream, Exact
    <3> QED BY <2>2, <2>4, <3>1, ExactNow, Zenon
  <2>7. r \in Seq(Nat)
    BY <2>4 DEF ReplayEnd
  <2> HIDE DEF r
  <2>8. (<<>> \o <<>>) \o r = r
    BY <2>7
  <2>9. Stream(d)' = r
    BY <2>3, <2>5, <2>8, Zenon DEF Stream, Quiet
  <2>10. fwd'[s] # "start"
    BY <2>2
  <2>11. ExactStream(d, read[tok[d]])' = r
    BY <1>2, <1>6, <2>6, <2>2 DEF ExactStream
  <2> HIDE DEF n
  <2> QED BY <2>1, <2>2, <2>3, <2>9, <2>10, <2>11 DEF LinkOK
<1>7. CASE d = c /\ s \notin held
  <2> HIDE DEF c
  <2>1. pc'[d] = "creating"
    BY <1>1, <1>2, <1>7 DEF FwdAttach, c
  <2>2. Undisturbed(d)
    BY <1>2, <1>3, <1>7, <2>1 DEF Undisturbed
  <2> QED BY <2>2, LinkFrame
<1> QED BY <1>5, <1>6, <1>7

(* One unit of output. *)
LEMMA FwdOutputLink ==
    ASSUME SInv, NEW s \in Sessions, FwdOutput(s), NEW d \in Conns
    PROVE  LinkOK(d)'
<1> USE DEF SInv, IInv
<1> DEFINE n == read[s]
<1>1. /\ pc \in [Conns -> {"idle", "attaching", "creating", "opening", "up", "gone"}]
      /\ active \in [Sessions -> Conns \cup {None}] /\ queue \in [Conns -> Seq(Seq(Nat))]
      /\ joined \in [Conns -> Nat] /\ read \in [Sessions -> Nat]
  BY DEF TypeOK
<1>2. fwd[s] = "loop" /\ read' = [read EXCEPT ![s] = n + 1] /\ n \in Nat /\ read'[s] = n + 1
  BY <1>1 DEF FwdOutput
<1>3. UNCHANGED <<fwd, pc, tok, busy, down, got, joined>>
  BY DEF FwdOutput
<1>4. pc[d] \in {"opening", "up"} => tok[d] \in Sessions
  BY DEF ConnOK
<1>5. QueueOpen(d)' <=> QueueOpen(d)
  BY <1>3 DEF QueueOpen
<1>6. active[s] # None => tok[active[s]] = s
  BY DEF ActiveOK
<1>7. \A t \in Sessions : active'[t] = d => active[t] = d
  BY <1>1 DEF FwdOutput
<1>8. d # active[s] \/ ~QueueOpen(d) => queue'[d] = queue[d]
  BY <1>1 DEF FwdOutput
<1>9. CASE ~(pc[d] \in {"opening", "up"} /\ tok[d] = s)
  <2>1. pc'[d] \in {"opening", "up"} => d # active[s] /\ tok[d] # s
    BY <1>3, <1>6, <1>9
  <2>2. pc'[d] \in {"opening", "up"} => read'[tok[d]] = read[tok[d]]
    BY <1>1, <1>2, <1>3, <1>4, <2>1
  <2>3. Undisturbed(d)
    BY <1>3, <1>4, <1>5, <1>7, <1>8, <2>1, <2>2 DEF Undisturbed
  <2> QED BY <2>3, LinkFrame
<1>10. CASE pc[d] \in {"opening", "up"} /\ tok[d] = s
  <2> DEFINE j == joined[d]
             x == <<n + 1>>
             e == Exact(j, n)
  <2>1. /\ j <= n /\ fwd[s] # "start"
        /\ IF active[s] = d /\ QueueOpen(d)
           THEN Stream(d) = ExactStream(d, n)
           ELSE IsPrefix(Stream(d), ExactStream(d, n))
    BY <1>2, <1>10 DEF LinkOK
  <2>2. j \in Nat /\ ExactStream(d, n) = e
    BY <1>1, ExactIs
  <2>3. e \in Seq(Nat) /\ Exact(j, n + 1) = e \o x
    BY <1>2, <2>1, <2>2, ExactType, ExactMore, Zenon
  <2>4. x \in Seq(Nat)
    BY <1>2
  <2>5. got[d] \in Seq(Nat) /\ busy[d] \in Seq(Nat) /\ queue[d] \in Seq(Seq(Nat))
        /\ Stream(d) \in Seq(Nat)
    BY LinkTypes, Zenon
  <2>6. IsPrefix(e, e \o x) /\ IsPrefix(e, e) /\ e \o x \in Seq(Nat)
    <3> HIDE DEF e, x
    <3> QED BY <2>3, <2>4, PrefixConcat
  <2>7. IF active'[s] = d /\ QueueOpen(d)'
        THEN Stream(d)' = e \o x
        ELSE IsPrefix(Stream(d)', e \o x)
    <3>1. CASE active'[s] = d /\ QueueOpen(d)'
      <4>1. active[s] = d /\ QueueOpen(d)
        BY <1>5, <1>7, <3>1
      <4>2. queue'[d] = Append(queue[d], x)
        <5>1. active[s] # None
          BY <4>1
        <5>2. queue' = [queue EXCEPT ![d] = Append(@, x)] \/ active' = [active EXCEPT ![s] = None]
          BY <4>1, <5>1, Zenon DEF FwdOutput
        <5>3. active' # [active EXCEPT ![s] = None]
          BY <1>1, <3>1
        <5> QED BY <1>1, <5>2, <5>3
      <4> DEFINE h == got[d] \o busy[d]
      <4>3. h \in Seq(Nat)
        BY <2>5
      <4>4. Stream(d)' = h \o FlattenSeq(Append(queue[d], x)) /\ Stream(d) = h \o FlattenSeq(queue[d])
        BY <1>3, <4>2 DEF Stream
      <4> HIDE DEF h, x
      <4>5. h \o FlattenSeq(Append(queue[d], x)) = (h \o FlattenSeq(queue[d])) \o x
        BY <2>4, <2>5, <4>3, AppendToStream, Zenon
      <4>6. Stream(d)' = Stream(d) \o x
        BY <4>4, <4>5, Zenon
      <4> QED BY <2>1, <2>2, <3>1, <4>1, <4>6, Zenon
    <3>2. CASE ~(active'[s] = d /\ QueueOpen(d)')
      <4>1. queue'[d] = queue[d]
        <5>1. CASE active[s] = d /\ QueueOpen(d)
          <6>1. active[s] # None /\ active'[s] # active[s]
            BY <1>5, <3>2, <5>1
          <6>2. queue' = queue
            BY <6>1, <5>1, Zenon DEF FwdOutput
          <6> QED BY <6>2
        <5> QED BY <1>8, <5>1
      <4>2. Stream(d)' = Stream(d)
        BY <1>3, <4>1 DEF Stream
      <4>3. IsPrefix(Stream(d), e)
        BY <2>1, <2>2, <2>6, Zenon
      <4> HIDE DEF e, x
      <4>4. IsPrefix(Stream(d), e \o x)
        BY <2>3, <2>5, <2>6, <4>3, PrefixTrans, Zenon
      <4> QED BY <3>2, <4>2, <4>4, Zenon
    <3> QED BY <3>1, <3>2
  <2>8. ExactStream(d, read[tok[d]])' = e \o x
    <3>1. joined'[d] = j /\ read'[tok'[d]] = n + 1
      BY <1>2, <1>3, <1>10
    <3>2. ExactStream(d, read[tok[d]])' = Exact(j, n + 1)
      BY <3>1 DEF ExactStream, Exact
    <3> QED BY <2>3, <3>2
  <2>9. joined'[d] <= read'[s] /\ fwd'[s] # "start" /\ tok'[d] = s /\ pc'[d] = pc[d]
    BY <1>2, <1>3, <1>10, <2>1, <2>2
  <2>10. pc[d] = "opening" => Quiet(d)'
    BY <1>3 DEF LinkOK, Quiet
  <2> HIDE DEF n, e, x
  <2>11. pc'[d] \in {"idle", "attaching", "creating", "opening"} => Quiet(d)'
    BY <1>10, <2>9, <2>10
  <2> QED BY <2>7, <2>8, <2>9, <2>11, Zenon DEF LinkOK
<1> QED BY <1>9, <1>10

(* The scrollback is what was read last. *)
LEMMA ScrollKept ==
    ASSUME SInv, [Next]_vars
    PROVE  ScrollOK'
<1> USE DEF SInv, IInv
<1>1. /\ fwd \in [Sessions -> {"none", "start", "loop", "done"}] /\ read \in [Sessions -> Nat]
      /\ scroll \in [Sessions -> Seq(Nat)]
  BY DEF TypeOK
<1>2. ASSUME NEW s \in Sessions, FwdOutput(s) PROVE ScrollOK'
  <2>1. fwd' = fwd /\ fwd[s] = "loop" /\ read[s] \in Nat
    BY <1>1, <1>2 DEF FwdOutput
  <2>2. scroll[s] = Run(Oldest(read[s]), read[s])
    BY <2>1 DEF ScrollOK
  <2>3. Scrolled(scroll[s], read[s] + 1) = Run(Oldest(read[s] + 1), read[s] + 1)
    BY <2>1, <2>2, ScrolledRun
  <2>4. /\ read'[s] = read[s] + 1 /\ scroll'[s] = Scrolled(scroll[s], read[s] + 1)
        /\ \A t \in Sessions : t # s => read'[t] = read[t] /\ scroll'[t] = scroll[t]
    BY <1>1, <1>2 DEF FwdOutput
  <2>5. scroll'[s] = Run(Oldest(read'[s]), read'[s])
    BY <2>3, <2>4
  <2> QED BY <2>1, <2>4, <2>5 DEF ScrollOK
<1>3. ASSUME NEW s \in Sessions, FwdStart(s) PROVE ScrollOK'
  BY <1>1, <1>3 DEF ScrollOK, FwdStart
<1>4. ASSUME NEW s \in Sessions, FwdEnd(s) PROVE ScrollOK'
  BY <1>1, <1>4 DEF ScrollOK, FwdEnd
<1>5. ASSUME NEW s \in Sessions, NEW c \in Conns, create(c, s) PROVE ScrollOK'
  BY <1>1, <1>5 DEF ScrollOK, create
<1>6. ASSUME fwd' = fwd, read' = read, scroll' = scroll PROVE ScrollOK'
  BY <1>6 DEF ScrollOK
<1>7. ASSUME NEW c \in Conns, Handle(c) PROVE ScrollOK'
  <2>1. CASE \E s \in Sessions : create(c, s)
    BY <1>5, <2>1
  <2>2. CASE ~\E s \in Sessions : create(c, s)
    <3>1. fwd' = fwd /\ read' = read /\ scroll' = scroll
      BY <1>7, <2>2 DEF Handle, HandleOpen, CreateFails, SendOpened, SendOpenedFails, WsDrop,
                        TypeIn, HandleFresh, attach, fwdVars
    <3> QED BY <1>6, <3>1
  <2> QED BY <2>1, <2>2
<1>8. ASSUME NEW c \in Conns, Down(c) PROVE ScrollOK'
  <2>1. fwd' = fwd /\ read' = read /\ scroll' = scroll
    BY <1>8 DEF Down, DownClose, DownRecv, DownExit, DownSent, DownSendFails, fwdVars
  <2> QED BY <1>6, <2>1
<1>9. ASSUME NEW s \in Sessions, FwdAttach(s) PROVE ScrollOK'
  <2>1. fwd' = fwd /\ read' = read /\ scroll' = scroll
    BY <1>9 DEF FwdAttach
  <2> QED BY <1>6, <2>1
<1>10. ASSUME NEW s \in Sessions, Timer(s) \/ Pump(s) PROVE ScrollOK'
  <2>1. UNCHANGED fwdVars
    BY <1>10, PumpType DEF Timer, TimerElapse, TimerRemove, SInv, IInv
  <2> QED BY <1>6, <2>1 DEF fwdVars
<1>11. CASE UNCHANGED vars
  BY <1>6, <1>11 DEF vars, fwdVars
<1> QED BY <1>2, <1>3, <1>4, <1>7, <1>8, <1>9, <1>10, <1>11 DEF Next, forward_output

(* It holds initially. *)
LEMMA InitSInv == Init => SInv
<1> SUFFICES ASSUME Init PROVE SInv
  OBVIOUS
<1>1. IInv
  BY InitIInv
<1>2. Run(Oldest(0), 0) = <<>>
  BY OldestFacts, RunEmpty
<1>3. ScrollOK
  BY <1>2 DEF Init, ScrollOK
<1>4. \A c \in Conns : LinkOK(c)
  BY DEF Init, LinkOK, Quiet
<1> QED BY <1>1, <1>3, <1>4 DEF SInv

(* Every step of the gateway keeps it. *)
LEMMA NextSInv == SInv /\ [Next]_vars => SInv'
<1> SUFFICES ASSUME SInv, [Next]_vars PROVE SInv'
  OBVIOUS
<1>1. IInv'
  BY NextIInv DEF SInv
<1>2. ASSUME NEW d \in Conns PROVE LinkOK(d)'
  <2>1. CASE UNCHANGED vars
    <3>1. Undisturbed(d)
      BY <2>1 DEF vars, fwdVars, connVars, Undisturbed, QueueOpen
    <3> QED BY <3>1, LinkFrame DEF SInv, IInv
  <2>2. ASSUME NEW c \in Conns, Handle(c) PROVE LinkOK(d)'
    BY <2>2, HandleLink, createLink DEF Handle
  <2>3. ASSUME NEW c \in Conns, Down(c) PROVE LinkOK(d)'
    BY <2>3, DownRecvLink, DownSentLink, DownStopLink DEF Down
  <2>4. ASSUME NEW s \in Sessions, forward_output(s) PROVE LinkOK(d)'
    BY <2>4, FwdStartLink, FwdAttachLink, FwdOutputLink, FwdEndLink DEF forward_output
  <2>5. ASSUME NEW s \in Sessions, Timer(s) \/ Pump(s) PROVE LinkOK(d)'
    BY <2>5, OthersLink
  <2> QED BY <2>1, <2>2, <2>3, <2>4, <2>5 DEF Next
<1> QED BY <1>1, <1>2, ScrollKept DEF SInv

(* For any number of units, any capacities and any interleaving of attaches, *)
(* slow browsers and dropped connections: a connection gets the replay of    *)
(* the scrollback, one end-of-replay mark and every unit after it, in order, *)
(* each once; when it is cut off it has a prefix of that.                    *)
THEOREM NothingLostNothingTwice == Spec => []NoLossNoRepeat
<1>1. SInv => NoLossNoRepeat
  BY DEF SInv, LinkOK, NoLossNoRepeat
<1> QED BY <1>1, InitSInv, NextSInv, PTL DEF Spec
=============================================================================
