----------------------------- MODULE SessionPipe ------------------------------
(***************************************************************************)
(* One terminal session from the access layer's handle to the shell: four  *)
(* bounded channels and a socket pair, moved on by three tasks, each of    *)
(* which does one thing at a time.                                         *)
(*                                                                         *)
(*   crates/servers/core/src/client.rs    pump, the gateway end ("gw")     *)
(*   crates/servers/jaild/src/main.rs     handle_conn, jaild's end ("hc")  *)
(*   crates/servers/core/src/link.rs      Link::send, Link::recv           *)
(*   crates/servers/jaild/src/session.rs  pump, between handle_conn and PTY*)
(*                                                                         *)
(*   handle --src[gw]--> gw ==socket==> hc --dst[hc]--> pump --pty--> shell*)
(*   handle <--dst[gw]-- gw <==socket== hc <--src[hc]-- pump <--pty-- shell*)
(*                                                                         *)
(* gw and hc are the same loop: select between a frame from the link and   *)
(* an item of a channel, then wait until the item is passed on.  While     *)
(* they wait they take nothing from the other side.                        *)
(* A DATA frame is a unit; the n-th unit of a direction is n.  A frame has *)
(* a weight of two in a socket buffer, so a send may find room for half of *)
(* it.  Resizes, comment acks and window sizes are left out.               *)
(***************************************************************************)
EXTENDS Naturals, Sequences, FiniteSets, SequencesExt

CONSTANTS ChanCap,   \* items in an mpsc channel (64, 128)
          SockCap,   \* weight a socket buffer takes
          Splits,    \* the kernel may take a part of a record (FreeBSD; not Linux)
          PtyCap,    \* units the PTY buffers in one direction
          Nothing,   \* an empty accumulator
          Garbage,   \* bytes from the middle of a frame
          MaxIn,     \* bound: units typed
          MaxOut     \* bound: units printed

ASSUME CapAssumption ==
    /\ ChanCap \in Nat \ {0} /\ SockCap \in Nat \ {0} /\ PtyCap \in Nat \ {0}
    /\ MaxIn \in Nat /\ MaxOut \in Nat /\ Splits \in BOOLEAN
    /\ Nothing \notin Nat /\ Garbage \notin Nat /\ Nothing # Garbage

Ends == {"gw", "hc"}
Peer(e) == IF e = "gw" THEN "hc" ELSE "gw"

VARIABLES
    held,      \* the access layer holds its SessionHandle
    typed,     \* units it sent
    shown,     \* units it received
    src,       \* for each end: the channel it takes items from
    dst,       \* for each end: the channel it passes frames to
    st,        \* for each end: "select", "sending", "pushing" or "done"
    msg,       \* the unit it is sending or pushing
    half,      \* the first half of msg is sent
    sock,      \* for each end: the fragments it has yet to receive
    acc,       \* what its pending recv has accumulated
    pump,      \* jaild's pump: "select", "writing", "pushing", "closing", "dead"
    pmsg,      \* the unit it is writing or pushing
    ptyIn, ptyOut,
    seen,      \* units the shell read
    printed,   \* units the shell wrote
    exited     \* the shell has exited

accessVars == <<held, typed, shown>>
endVars    == <<st, msg, half, sock, acc>>
ptyVars    == <<ptyIn, ptyOut, seen, printed, exited>>
vars == <<accessVars, src, dst, endVars, pump, pmsg, ptyVars>>

Closed == 0   \* a CLOSED frame; units count from 1

Frag(u, part) == [unit |-> u, part |-> part]
Weight(q) == Len(q) + Cardinality({i \in DOMAIN q : q[i].part = "whole"})

-----------------------------------------------------------------------------
(* The channels: who is at the other end. *)

(* The sender of src is gone: the handle was dropped, jaild's pump returned.*)
SourceGone(e) == IF e = "gw" THEN ~held ELSE pump = "dead"

(* The receiver of dst is gone. *)
SinkGone(e) == IF e = "gw" THEN ~held ELSE pump = "dead"

Finish(e) ==
    /\ st' = [st EXCEPT ![e] = "done"]
    /\ acc' = [acc EXCEPT ![e] = Nothing]

-----------------------------------------------------------------------------
(* Link::send: a record, continued as the buffer empties. *)

AfterSend(e) == IF msg[e] = Closed THEN "done" ELSE "select"

(* The second half joins the first if that is still unread. *)
Completed(q, u) ==
    IF q # <<>> /\ Last(q) = Frag(u, "head")
    THEN Front(q) \o <<Frag(u, "whole")>>
    ELSE q \o <<Frag(u, "tail")>>

LinkSend(e) ==
    LET p == Peer(e)
        room == SockCap - Weight(sock[p])
    IN
    /\ st[e] = "sending"
    /\ st[p] # "done"
    /\ Weight(sock[p]) < SockCap
    /\ \/ /\ ~half[e] /\ room >= 2
          /\ sock' = [sock EXCEPT ![p] = Append(@, Frag(msg[e], "whole"))]
          /\ st' = [st EXCEPT ![e] = AfterSend(e)]
          /\ UNCHANGED half
       \/ /\ Splits /\ ~half[e] /\ room = 1
          /\ sock' = [sock EXCEPT ![p] = Append(@, Frag(msg[e], "head"))]
          /\ half' = [half EXCEPT ![e] = TRUE]
          /\ UNCHANGED st
       \/ /\ half[e]
          /\ sock' = [sock EXCEPT ![p] = Completed(@, msg[e])]
          /\ half' = [half EXCEPT ![e] = FALSE]
          /\ st' = [st EXCEPT ![e] = AfterSend(e)]
    /\ UNCHANGED <<accessVars, src, dst, msg, acc, pump, pmsg, ptyVars>>

(* The other end is closed: the task breaks out of its loop. *)
LinkSendFails(e) ==
    /\ st[e] = "sending"
    /\ st[Peer(e)] = "done"
    /\ Finish(e)
    /\ UNCHANGED <<accessVars, src, dst, msg, half, sock, pump, pmsg, ptyVars>>

-----------------------------------------------------------------------------
(* Link::recv, polled while the task selects. *)

(* A complete frame: DATA is passed on, CLOSED ends the task. *)
Deliver(e, u) ==
    IF u = Closed THEN Finish(e) /\ UNCHANGED msg
    ELSE /\ st' = [st EXCEPT ![e] = "pushing"]
         /\ msg' = [msg EXCEPT ![e] = u]
         /\ acc' = [acc EXCEPT ![e] = Nothing]

(* Bytes from the middle of a frame, read as a header: an error, a frame to *)
(* ignore, a frame of data that was never sent, or a length to wait for.    *)
Misread(e) ==
    \/ Finish(e) /\ UNCHANGED msg
    \/ acc' = [acc EXCEPT ![e] = Nothing] /\ UNCHANGED <<st, msg>>
    \/ acc' = [acc EXCEPT ![e] = Garbage] /\ UNCHANGED <<st, msg>>
    \/ Deliver(e, Garbage)

LinkRecv(e) ==
    /\ st[e] = "select"
    /\ sock[e] # <<>>
    /\ sock' = [sock EXCEPT ![e] = Tail(@)]
    /\ LET f == Head(sock[e]) IN
       \/ /\ f.part = "whole" /\ acc[e] = Nothing
          /\ Deliver(e, f.unit)
       \/ /\ f.part = "head" /\ acc[e] = Nothing
          /\ acc' = [acc EXCEPT ![e] = f.unit]
          /\ UNCHANGED <<st, msg>>
       \/ /\ f.part = "tail" /\ acc[e] = f.unit
          /\ Deliver(e, f.unit)
       \/ /\ acc[e] = Garbage \/ (f.part = "tail" /\ acc[e] # f.unit)
          /\ Misread(e)
    /\ UNCHANGED <<accessVars, src, dst, half, pump, pmsg, ptyVars>>

(* EOF *)
LinkEof(e) ==
    /\ st[e] = "select"
    /\ sock[e] = <<>>
    /\ st[Peer(e)] = "done"
    /\ Finish(e)
    /\ UNCHANGED <<accessVars, src, dst, msg, half, sock, pump, pmsg, ptyVars>>

-----------------------------------------------------------------------------
(* The loop's other branch: an item of the channel.  select! then drops the *)
(* pending recv, and with it what that has accumulated.                     *)
ChannelRecv(e) ==
    /\ st[e] = "select"
    /\ src[e] # <<>>
    /\ src' = [src EXCEPT ![e] = Tail(@)]
    /\ msg' = [msg EXCEPT ![e] = Head(src[e])]
    /\ half' = [half EXCEPT ![e] = FALSE]
    /\ st' = [st EXCEPT ![e] = "sending"]
    /\ acc' = [acc EXCEPT ![e] = Nothing]
    /\ UNCHANGED <<accessVars, dst, sock, pump, pmsg, ptyVars>>

(* The channel is closed.  The gateway's pump stops at once, since its      *)
(* control channel closes with the handle; handle_conn drains the output    *)
(* and announces the end.                                                   *)
ChannelClosed(e) ==
    /\ st[e] = "select"
    /\ SourceGone(e)
    /\ IF e = "gw" THEN Finish(e) /\ UNCHANGED <<msg, half>>
       ELSE /\ src[e] = <<>>
            /\ msg' = [msg EXCEPT ![e] = Closed]
            /\ half' = [half EXCEPT ![e] = FALSE]
            /\ st' = [st EXCEPT ![e] = "sending"]
            /\ acc' = [acc EXCEPT ![e] = Nothing]
    /\ UNCHANGED <<accessVars, src, dst, sock, pump, pmsg, ptyVars>>

(* Mutant: a full channel drops the unit (try_send). *)
PushOrDrop(e) ==
    /\ st[e] = "pushing"
    /\ ~SinkGone(e)
    /\ dst' = [dst EXCEPT ![e] = IF Len(@) < ChanCap THEN Append(@, msg[e]) ELSE @]
    /\ st' = [st EXCEPT ![e] = "select"]
    /\ UNCHANGED <<accessVars, src, msg, half, sock, acc, pump, pmsg, ptyVars>>

(* out.send and input.send wait for room ... *)
Push(e) ==
    /\ st[e] = "pushing"
    /\ ~SinkGone(e)
    /\ Len(dst[e]) < ChanCap
    /\ dst' = [dst EXCEPT ![e] = Append(@, msg[e])]
    /\ st' = [st EXCEPT ![e] = "select"]
    /\ UNCHANGED <<accessVars, src, msg, half, sock, acc, pump, pmsg, ptyVars>>

(* ... or fail when the receiver is gone. *)
PushFails(e) ==
    /\ st[e] = "pushing"
    /\ SinkGone(e)
    /\ Finish(e)
    /\ UNCHANGED <<accessVars, src, dst, msg, half, sock, pump, pmsg, ptyVars>>

-----------------------------------------------------------------------------
(* The access layer *)

SendInput ==
    /\ held
    /\ st["gw"] # "done"
    /\ typed < MaxIn
    /\ Len(src["gw"]) < ChanCap
    /\ typed' = typed + 1
    /\ src' = [src EXCEPT !["gw"] = Append(@, typed + 1)]
    /\ UNCHANGED <<held, shown, dst, endVars, pump, pmsg, ptyVars>>

RecvOutput ==
    /\ held
    /\ dst["gw"] # <<>>
    /\ shown' = Append(shown, Head(dst["gw"]))
    /\ dst' = [dst EXCEPT !["gw"] = Tail(@)]
    /\ UNCHANGED <<held, typed, src, endVars, pump, pmsg, ptyVars>>

DropHandle ==
    /\ held
    /\ held' = FALSE
    /\ UNCHANGED <<typed, shown, src, dst, endVars, pump, pmsg, ptyVars>>

-----------------------------------------------------------------------------
(* jaild's pump *)

PumpInput ==
    /\ pump = "select"
    /\ dst["hc"] # <<>>
    /\ dst' = [dst EXCEPT !["hc"] = Tail(@)]
    /\ pmsg' = Head(dst["hc"])
    /\ pump' = "writing"
    /\ UNCHANGED <<accessVars, src, endVars, ptyVars>>

PumpWrite ==
    /\ pump = "writing"
    /\ \/ Len(ptyIn) < PtyCap /\ ptyIn' = Append(ptyIn, pmsg)
       \/ exited /\ UNCHANGED ptyIn     \* EIO: write_all's error is not looked at
    /\ pump' = "select"
    /\ UNCHANGED <<accessVars, src, dst, endVars, pmsg, ptyOut, seen, printed, exited>>

PumpRead ==
    /\ pump = "select"
    /\ ptyOut # <<>>
    /\ pmsg' = Head(ptyOut)
    /\ ptyOut' = Tail(ptyOut)
    /\ pump' = "pushing"
    /\ UNCHANGED <<accessVars, src, dst, endVars, ptyIn, seen, printed, exited>>

(* Mutant: an unbounded output queue. *)
PumpPushUnbounded ==
    /\ pump = "pushing"
    /\ st["hc"] # "done"
    /\ src' = [src EXCEPT !["hc"] = Append(@, pmsg)]
    /\ pump' = "select"
    /\ UNCHANGED <<accessVars, dst, endVars, pmsg, ptyVars>>

PumpPush ==
    /\ pump = "pushing"
    /\ st["hc"] # "done"
    /\ Len(src["hc"]) < ChanCap
    /\ src' = [src EXCEPT !["hc"] = Append(@, pmsg)]
    /\ pump' = "select"
    /\ UNCHANGED <<accessVars, dst, endVars, pmsg, ptyVars>>

(* The loop ends: the channels of handle_conn are gone, or the PTY is. *)
PumpStops ==
    /\ \/ pump = "select" /\ st["hc"] = "done"
       \/ pump = "pushing" /\ st["hc"] = "done"
       \/ pump = "select" /\ exited /\ ptyOut = <<>>
    /\ pump' = "closing"
    /\ UNCHANGED <<accessVars, src, dst, endVars, pmsg, ptyVars>>

(* Mutant: only the select is subject to the deadline, not the waits in it. *)
IdleTimeoutInSelect ==
    /\ pump = "select"
    /\ pump' = "closing"
    /\ UNCHANGED <<accessVars, src, dst, endVars, pmsg, ptyVars>>

(* idle.deadline: nothing was typed for the idle timeout, or the pump could *)
(* not pass on what it had within that time.                                *)
IdleTimeout ==
    /\ pump \in {"select", "writing", "pushing"}
    /\ pump' = "closing"
    /\ UNCHANGED <<accessVars, src, dst, endVars, pmsg, ptyVars>>

(* SIGHUP, drain, reap and cleanup; only then the channels are dropped. *)
PumpReturns ==
    /\ pump = "closing"
    /\ pump' = "dead"
    /\ exited' = TRUE
    /\ UNCHANGED <<accessVars, src, dst, endVars, pmsg, ptyIn, ptyOut, seen, printed>>

-----------------------------------------------------------------------------
(* The shell *)

ShellRead ==
    /\ ~exited
    /\ ptyIn # <<>>
    /\ seen' = Append(seen, Head(ptyIn))
    /\ ptyIn' = Tail(ptyIn)
    /\ UNCHANGED <<accessVars, src, dst, endVars, pump, pmsg, ptyOut, printed, exited>>

ShellPrint ==
    /\ ~exited
    /\ printed < MaxOut
    /\ Len(ptyOut) < PtyCap
    /\ printed' = printed + 1
    /\ ptyOut' = Append(ptyOut, printed + 1)
    /\ UNCHANGED <<accessVars, src, dst, endVars, pump, pmsg, ptyIn, seen, exited>>

ShellExit ==
    /\ ~exited
    /\ exited' = TRUE
    /\ UNCHANGED <<accessVars, src, dst, endVars, pump, pmsg, ptyIn, ptyOut, seen, printed>>

-----------------------------------------------------------------------------
Init ==
    /\ held = TRUE /\ typed = 0 /\ shown = <<>>
    /\ src = [e \in Ends |-> <<>>] /\ dst = [e \in Ends |-> <<>>]
    /\ st = [e \in Ends |-> "select"]
    /\ msg = [e \in Ends |-> Closed]
    /\ half = [e \in Ends |-> FALSE]
    /\ sock = [e \in Ends |-> <<>>]
    /\ acc = [e \in Ends |-> Nothing]
    /\ pump = "select" /\ pmsg = Closed
    /\ ptyIn = <<>> /\ ptyOut = <<>> /\ seen = <<>> /\ printed = 0
    /\ exited = FALSE

End(e) ==
    \/ LinkSend(e) \/ LinkSendFails(e) \/ LinkRecv(e) \/ LinkEof(e)
    \/ ChannelRecv(e) \/ ChannelClosed(e) \/ Push(e) \/ PushFails(e)

Pump == PumpInput \/ PumpWrite \/ PumpRead \/ PumpPush \/ PumpStops \/ PumpReturns

Next ==
    \/ \E e \in Ends : End(e)
    \/ Pump \/ IdleTimeout
    \/ SendInput \/ RecvOutput \/ DropHandle
    \/ ShellRead \/ ShellPrint \/ ShellExit

Spec == Init /\ [][Next]_vars

(* The tasks run and time passes; the user and the shell need not act. *)
FairSpec ==
    /\ Spec
    /\ \A e \in Ends : WF_vars(End(e))
    /\ WF_vars(Pump) /\ WF_vars(IdleTimeout)
-----------------------------------------------------------------------------
Units == Nat \cup {Garbage}

(* Every variable has its type, and no channel, socket or PTY buffer holds  *)
(* more than its capacity: back-pressure bounds the memory of a session.    *)
TypeOK ==
    /\ held \in BOOLEAN /\ exited \in BOOLEAN
    /\ typed \in Nat /\ printed \in Nat /\ shown \in Seq(Units) /\ seen \in Seq(Units)
    /\ st \in [Ends -> {"select", "sending", "pushing", "done"}]
    /\ pump \in {"select", "writing", "pushing", "closing", "dead"}
    /\ msg \in [Ends -> Units] /\ pmsg \in Units
    /\ half \in [Ends -> BOOLEAN]
    /\ acc \in [Ends -> Units \cup {Nothing}]
    /\ \A e \in Ends : /\ src[e] \in Seq(Units) /\ Len(src[e]) <= ChanCap
                       /\ dst[e] \in Seq(Units) /\ Len(dst[e]) <= ChanCap
                       /\ Weight(sock[e]) <= SockCap
    /\ ptyIn \in Seq(Units) /\ Len(ptyIn) <= PtyCap
    /\ ptyOut \in Seq(Units) /\ Len(ptyOut) <= PtyCap

Run(n) == [i \in 1 .. n |-> i]
InHand(s, u) == IF s THEN <<u>> ELSE <<>>

(* The units completely in a socket; a head, always the last, is still the  *)
(* sender's.                                                                *)
UnitsOf(q) ==
    LET done == IF q # <<>> /\ Last(q).part = "head" THEN Front(q) ELSE q
    IN  [i \in DOMAIN done |-> done[i].unit]

(* What the socket and both of its ends hold on the way from e to its peer. *)
OnLink(e) ==
    LET p == Peer(e) IN
    InHand(st[p] = "pushing", msg[p]) \o UnitsOf(sock[p]) \o InHand(st[e] = "sending", msg[e])

Flowing == /\ \A e \in Ends : st[e] # "done"
           /\ pump \in {"select", "writing", "pushing"}

(* client.rs: "never lose a byte".  As long as the session runs every unit  *)
(* typed and every unit printed is at exactly one place of the pipe, in     *)
(* order, however the tasks wait for each other.  Through the teardown,     *)
(* when what is still on the way is dropped, what arrives is what was sent: *)
(* neither side sees a unit out of order, twice, after a gap or never sent. *)
NothingLost ==
    /\ Flowing =>
        /\ exited \/ seen \o ptyIn \o InHand(pump = "writing", pmsg) \o dst["hc"] \o OnLink("gw")
                      \o src["gw"] = Run(typed)
        /\ shown \o dst["gw"] \o OnLink("hc") \o src["hc"] \o InHand(pump = "pushing", pmsg)
             \o ptyOut = Run(printed)
    /\ seen = Run(Len(seen)) /\ shown = Run(Len(shown))

(* The jail, and the quota slot with it, is given back once the access      *)
(* layer is gone, even if the tasks on the way wait for each other.         *)
SlotFreed == ~held ~> pump = "dead"

(* Each end waits in Link::send, and neither reads. *)
BothSending == \A e \in Ends : st[e] = "sending"

(* client.rs: either end going away tears the whole session down.  The      *)
(* gateway's task ends too once the handle is dropped, whatever it was      *)
(* waiting for, with one exception: the two ends wait for ever in           *)
(* Link::send for each other.                                               *)
LinkReleased == <>[]BothSending \/ (~held ~> st["gw"] = "done")

(* What a session holds is given back when the access layer drops it.       *)
SessionReleased == SlotFreed /\ LinkReleased
=============================================================================
