----------------------------- MODULE CommentFifo ------------------------------
(***************************************************************************)
(* The way of a comment out of a session: visitors' processes write to the *)
(* comment FIFOs of the jail, a fifo_reader per FIFO cuts what it reads    *)
(* into submissions, one comment_worker sends them to commentd, and the    *)
(* notices go back through the pump that owns the terminal.                *)
(*                                                                         *)
(*   crates/servers/jaild/src/session.rs  pump, fifo_reader, drain_fifo,   *)
(*       buffer_fifo_bytes, finalize_fifo_write, comment_worker, send_ack  *)
(*                                                                         *)
(* What a process writes is a sequence of chunks, each named after its     *)
(* writer; the end of a write is known only from NOTE_CLOSE_WRITE, which   *)
(* the kernel keeps as one pending event per FIFO (EV_CLEAR).  A notice is *)
(* counted, its wording is left out; so is the encoding of a comment, and  *)
(* finalize_fifo_write may refuse any of them.                             *)
(***************************************************************************)
EXTENDS Naturals, Sequences, FiniteSets

CONSTANTS Fifos,        \* the comment FIFOs of the session
          Writers,      \* processes in the jail; each opens a FIFO at most once
          MaxChunks,    \* bound: chunks one of them writes
          MaxPayload,   \* MAX_COMMENT_BYTES, in chunks
          MaxComments,  \* MAX_SESSION_COMMENTS
          QueueCap,     \* COMMENT_QUEUE
          AckCap        \* ACK_QUEUE

ASSUME FifoAssumption ==
    /\ IsFiniteSet(Fifos) /\ IsFiniteSet(Writers)
    /\ MaxChunks \in Nat /\ MaxPayload \in Nat /\ MaxComments \in Nat
    /\ QueueCap \in Nat \ {0} /\ AckCap \in Nat \ {0}

VARIABLES
    opened,     \* what each writer has open: a FIFO, "never" or "closed"
    wrote,      \* chunks it wrote
    fifo,       \* the chunks in each FIFO
    closeEv,    \* NOTE_CLOSE_WRITE is pending
    reader,     \* each fifo_reader: "select", "submit", "ack" or "done"
    quits,      \* it finalizes for the last time
    payload,    \* what it has buffered
    overflow,
    cut,        \* the submission it waits to queue
    accepted,   \* submissions of the session, shared by the readers
    queue,      \* submissions for the worker
    worker,     \* "idle", "request", "ack" or "done"
    acks,       \* notices queued for the pump
    pump,       \* "run", "runSend", "readers", "drain", "drainSend", "dead"
    outGone,    \* the receiver of the session's output is gone
    submitted,  \* what client.submit was called with
    finalized,  \* writes that were finalized
    shown,      \* notices passed to the access layer
    gaveUp      \* a deadline, or a lost access layer, cut the delivery short

writerVars == <<opened, wrote, fifo, closeEv>>
readerVars == <<reader, quits, payload, overflow, cut, accepted, finalized>>
workerVars == <<worker, submitted>>
pumpVars   == <<pump, outGone, shown, gaveUp>>
vars == <<writerVars, readerVars, queue, workerVars, acks, pumpVars>>

-----------------------------------------------------------------------------
(* The jail's processes.  SIGHUP does not stop the ones that ignore it; they*)
(* are gone when the jail is.                                               *)

Open(w, f) ==
    /\ pump # "dead"
    /\ opened[w] = "never"
    /\ opened' = [opened EXCEPT ![w] = f]
    /\ UNCHANGED <<wrote, fifo, closeEv, readerVars, queue, workerVars, acks, pumpVars>>

Write(w) ==
    /\ pump # "dead"
    /\ opened[w] \in Fifos
    /\ wrote[w] < MaxChunks
    /\ wrote' = [wrote EXCEPT ![w] = @ + 1]
    /\ fifo' = [fifo EXCEPT ![opened[w]] = Append(@, w)]
    /\ UNCHANGED <<opened, closeEv, readerVars, queue, workerVars, acks, pumpVars>>

Close(w) ==
    /\ pump # "dead"
    /\ opened[w] \in Fifos
    /\ closeEv' = [closeEv EXCEPT ![opened[w]] = TRUE]
    /\ opened' = [opened EXCEPT ![w] = "closed"]
    /\ UNCHANGED <<wrote, fifo, readerVars, queue, workerVars, acks, pumpVars>>

-----------------------------------------------------------------------------
(* fifo_reader *)

(* drain_fifo and buffer_fifo_bytes: the buffer and its overflow flag.      *)
TooLong(f) == overflow[f] \/ Len(payload[f]) + Len(fifo[f]) > MaxPayload
Buffered(f) == IF TooLong(f) THEN <<>> ELSE payload[f] \o fifo[f]

ReaderReads(f) ==
    /\ reader[f] = "select"
    /\ fifo[f] # <<>>
    /\ payload' = [payload EXCEPT ![f] = Buffered(f)]
    /\ overflow' = [overflow EXCEPT ![f] = TooLong(f)]
    /\ fifo' = [fifo EXCEPT ![f] = <<>>]
    /\ UNCHANGED <<opened, wrote, closeEv, reader, quits, cut, accepted, finalized,
                   queue, workerVars, acks, pumpVars>>

(* The end of a finalize: the loop goes on, or it was the last. *)
Resume(f, last) == IF last THEN "done" ELSE "select"

(* Mutant: off by one. *)
SlotFreeLoose == accepted <= MaxComments

SlotFree == accepted < MaxComments

(* finalize_fifo_write of what the buffer holds after a drain. *)
Finalize(f, last) ==
    /\ payload' = [payload EXCEPT ![f] = <<>>]
    /\ overflow' = [overflow EXCEPT ![f] = FALSE]
    /\ fifo' = [fifo EXCEPT ![f] = <<>>]
    /\ quits' = [quits EXCEPT ![f] = last]
    /\ \/ /\ ~TooLong(f) /\ Buffered(f) = <<>>
          /\ reader' = [reader EXCEPT ![f] = Resume(f, last)]
          /\ UNCHANGED <<cut, accepted, finalized>>
       \/ /\ TooLong(f) \/ Buffered(f) # <<>>     \* too long, not UTF-8, or too many
          /\ reader' = [reader EXCEPT ![f] = "ack"]
          /\ finalized' = finalized + 1
          /\ UNCHANGED <<cut, accepted>>
       \/ /\ ~TooLong(f) /\ Buffered(f) # <<>>
          /\ SlotFree
          /\ accepted' = accepted + 1
          /\ cut' = [cut EXCEPT ![f] = Buffered(f)]
          /\ reader' = [reader EXCEPT ![f] = "submit"]
          /\ finalized' = finalized + 1

ReaderClosed(f) ==
    /\ reader[f] = "select"
    /\ closeEv[f]
    /\ closeEv' = [closeEv EXCEPT ![f] = FALSE]
    /\ Finalize(f, FALSE)
    /\ UNCHANGED <<opened, wrote, queue, workerVars, acks, pumpVars>>

ReaderShutdown(f) ==
    /\ reader[f] = "select"
    /\ pump = "readers"
    /\ Finalize(f, TRUE)
    /\ UNCHANGED <<opened, wrote, closeEv, queue, workerVars, acks, pumpVars>>

(* tx.send waits for room in the queue ... *)
ReaderSubmits(f) ==
    /\ reader[f] = "submit"
    /\ Len(queue) < QueueCap
    /\ queue' = Append(queue, cut[f])
    /\ reader' = [reader EXCEPT ![f] = Resume(f, quits[f])]
    /\ UNCHANGED <<writerVars, quits, payload, overflow, cut, accepted, finalized,
                   workerVars, acks, pumpVars>>

(* ... and send_ack among the notices. *)
ReaderAcks(f) ==
    /\ reader[f] = "ack"
    /\ acks < AckCap
    /\ acks' = acks + 1
    /\ reader' = [reader EXCEPT ![f] = Resume(f, quits[f])]
    /\ UNCHANGED <<writerVars, quits, payload, overflow, cut, accepted, finalized,
                   queue, workerVars, pumpVars>>

AllReadersDone == \A f \in Fifos : reader[f] = "done"

-----------------------------------------------------------------------------
(* comment_worker *)

WorkerTakes ==
    /\ worker = "idle"
    /\ queue # <<>>
    /\ queue' = Tail(queue)
    /\ submitted' = Append(submitted, Head(queue))
    /\ worker' = "request"
    /\ UNCHANGED <<writerVars, readerVars, acks, pumpVars>>

(* A notice, whether commentd accepts, refuses or does not answer. *)
WorkerAnswered ==
    /\ worker = "request"
    /\ worker' = "ack"
    /\ UNCHANGED <<writerVars, readerVars, queue, submitted, acks, pumpVars>>

WorkerAcks ==
    /\ worker = "ack"
    /\ acks < AckCap
    /\ acks' = acks + 1
    /\ worker' = "idle"
    /\ UNCHANGED <<writerVars, readerVars, queue, submitted, pumpVars>>

(* The queue is closed once every reader is gone. *)
WorkerDone ==
    /\ worker = "idle"
    /\ queue = <<>>
    /\ AllReadersDone
    /\ worker' = "done"
    /\ UNCHANGED <<writerVars, readerVars, queue, submitted, acks, pumpVars>>

-----------------------------------------------------------------------------
(* pump, as far as notices are concerned *)

(* A notice to the output channel.  It may have to wait for the access      *)
(* layer, which may go away.                                                *)
TakeAck ==
    /\ pump \in {"run", "drain"}
    /\ acks > 0
    /\ acks' = acks - 1
    /\ IF pump = "run" THEN pump' = "runSend" /\ UNCHANGED gaveUp
       ELSE \/ pump' = "drainSend" /\ UNCHANGED gaveUp
            \/ outGone /\ gaveUp' = TRUE /\ UNCHANGED pump    \* ~deliver_acks
    /\ UNCHANGED <<writerVars, readerVars, queue, workerVars, outGone, shown>>

Delivered ==
    /\ pump \in {"runSend", "drainSend"}
    /\ ~outGone
    /\ shown' = shown + 1
    /\ pump' = IF pump = "runSend" THEN "run" ELSE "drain"
    /\ UNCHANGED <<writerVars, readerVars, queue, workerVars, acks, outGone, gaveUp>>

(* out.send fails: the loop ends, or the drain goes on without notices. *)
NotDelivered ==
    /\ pump \in {"runSend", "drainSend"}
    /\ outGone
    /\ gaveUp' = TRUE
    /\ pump' = IF pump = "runSend" THEN "readers" ELSE "drain"
    /\ UNCHANGED <<writerVars, readerVars, queue, workerVars, acks, outGone, shown>>

AccessLayerGone ==
    /\ pump # "dead"
    /\ ~outGone
    /\ outGone' = TRUE
    /\ UNCHANGED <<writerVars, readerVars, queue, workerVars, acks, pump, shown, gaveUp>>

(* The loop ends for any of its reasons; the idle deadline may strike while *)
(* a notice is being sent, which is then lost.                              *)
Stop ==
    /\ pump \in {"run", "runSend"}
    /\ gaveUp' = (gaveUp \/ pump = "runSend")
    /\ pump' = "readers"
    /\ UNCHANGED <<writerVars, readerVars, queue, workerVars, acks, outGone, shown>>

ReadersDone ==
    /\ pump = "readers"
    /\ AllReadersDone
    /\ pump' = "drain"
    /\ UNCHANGED <<writerVars, readerVars, queue, workerVars, acks, outGone, shown, gaveUp>>

(* Mutant: the readers are awaited without a deadline. *)
ReadersAwaited == FALSE /\ UNCHANGED vars

(* The drain deadline passes while readers wait: they are aborted. *)
ReadersTimeout ==
    /\ pump = "readers"
    /\ reader' = [f \in Fifos |-> "done"]
    /\ gaveUp' = TRUE
    /\ pump' = "drain"
    /\ UNCHANGED <<writerVars, quits, payload, overflow, cut, accepted, finalized,
                   queue, workerVars, acks, outGone, shown>>

(* Mutant: the drain ends with the worker. *)
DrainDoneEarly ==
    /\ pump = "drain"
    /\ worker = "done"
    /\ pump' = "dead"
    /\ UNCHANGED <<writerVars, readerVars, queue, workerVars, acks, outGone, shown, gaveUp>>

(* worker_done and ack_done; then the shell is reaped, the jail removed.    *)
DrainDone ==
    /\ pump = "drain"
    /\ worker = "done" /\ AllReadersDone /\ acks = 0
    /\ pump' = "dead"
    /\ UNCHANGED <<writerVars, readerVars, queue, workerVars, acks, outGone, shown, gaveUp>>

(* The drain deadline passes: the worker is aborted. *)
DrainTimeout ==
    /\ pump \in {"drain", "drainSend"}
    /\ worker' = "done"
    /\ gaveUp' = TRUE
    /\ pump' = "dead"
    /\ UNCHANGED <<writerVars, readerVars, queue, submitted, acks, outGone, shown>>

-----------------------------------------------------------------------------
Init ==
    /\ opened = [w \in Writers |-> "never"] /\ wrote = [w \in Writers |-> 0]
    /\ fifo = [f \in Fifos |-> <<>>] /\ closeEv = [f \in Fifos |-> FALSE]
    /\ reader = [f \in Fifos |-> "select"] /\ quits = [f \in Fifos |-> FALSE]
    /\ payload = [f \in Fifos |-> <<>>] /\ overflow = [f \in Fifos |-> FALSE]
    /\ cut = [f \in Fifos |-> <<>>] /\ accepted = 0 /\ finalized = 0
    /\ queue = <<>> /\ worker = "idle" /\ submitted = <<>> /\ acks = 0
    /\ pump = "run" /\ outGone = FALSE /\ shown = 0 /\ gaveUp = FALSE

Guest == \E w \in Writers : Write(w) \/ Close(w) \/ \E f \in Fifos : Open(w, f)

Reader(f) ==
    \/ ReaderReads(f) \/ ReaderClosed(f) \/ ReaderShutdown(f)
    \/ ReaderSubmits(f) \/ ReaderAcks(f)

Worker == WorkerTakes \/ WorkerAnswered \/ WorkerAcks \/ WorkerDone

Pump == TakeAck \/ NotDelivered \/ ReadersDone \/ DrainDone

Deadline == ReadersTimeout \/ DrainTimeout

Next ==
    \/ Guest \/ AccessLayerGone
    \/ \E f \in Fifos : Reader(f)
    \/ Worker \/ Pump \/ Delivered \/ Stop \/ Deadline

Spec == Init /\ [][Next]_vars

(* The tasks run and the drain deadline passes.  Nobody has to read the     *)
(* terminal.                                                                *)
FairSpec ==
    /\ Spec
    /\ \A f \in Fifos : WF_vars(Reader(f))
    /\ WF_vars(Worker) /\ WF_vars(Pump) /\ WF_vars(Deadline)
-----------------------------------------------------------------------------
(* Every variable has its type, and no queue exceeds its capacity, however  *)
(* fast the guests write and however slowly notices are read.  The session, *)
(* whichever FIFOs are used, submits at most MAX_SESSION_COMMENTS comments. *)
TypeOK ==
    /\ opened \in [Writers -> Fifos \cup {"never", "closed"}]
    /\ wrote \in [Writers -> 0 .. MaxChunks]
    /\ fifo \in [Fifos -> Seq(Writers)] /\ closeEv \in [Fifos -> BOOLEAN]
    /\ reader \in [Fifos -> {"select", "submit", "ack", "done"}]
    /\ quits \in [Fifos -> BOOLEAN] /\ overflow \in [Fifos -> BOOLEAN]
    /\ payload \in [Fifos -> Seq(Writers)] /\ cut \in [Fifos -> Seq(Writers)]
    /\ accepted \in Nat
    /\ queue \in Seq(Seq(Writers)) /\ Len(queue) <= QueueCap
    /\ worker \in {"idle", "request", "ack", "done"}
    /\ submitted \in Seq(Seq(Writers)) /\ Len(submitted) <= MaxComments
    /\ finalized \in Nat /\ shown \in Nat
    /\ acks \in 0 .. AckCap
    /\ pump \in {"run", "runSend", "readers", "drain", "drainSend", "dead"}
    /\ outGone \in BOOLEAN /\ gaveUp \in BOOLEAN

Has(b) == IF b THEN 1 ELSE 0

(* Every write that finalize_fifo_write cut is answered by exactly one      *)
(* notice: until something gives up, each is at one place between the       *)
(* reader that cut it and the terminal; and a session whose drain did not   *)
(* run out of time, and whose access layer stayed, ends with all of them    *)
(* passed on.                                                               *)
EachIsAnswered ==
    ~gaveUp =>
     /\ pump = "dead" => shown = finalized
     /\ finalized = shown + acks + Has(pump \in {"runSend", "drainSend"})
                    + Has(worker \in {"request", "ack"}) + Len(queue)
                    + Cardinality({f \in Fifos : reader[f] \in {"submit", "ack"}})

(* The jail is given back: neither a silent commentd, nor a terminal that   *)
(* takes no notices, nor a reader that waits for one to be taken holds it.  *)
SessionEnds == pump = "readers" ~> pump = "dead"
=============================================================================
