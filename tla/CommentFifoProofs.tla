-------------------------- MODULE CommentFifoProofs ----------------------------
(***************************************************************************)
(* Theorems about CommentFifo, for any number of FIFOs and writers and any *)
(* capacities of the queues.                                               *)
(*                                                                         *)
(* The bound on submissions and EachIsAnswered are not inductive.  The     *)
(* first needs that every submission made, queued or about to be queued    *)
(* has taken one of the session's slots (SlotsOK); the second, that        *)
(* without a deadline the worker ends only after the readers and with an   *)
(* empty queue, and the pump only after the worker (EndOK).                *)
(***************************************************************************)
EXTENDS CommentFifo, FiniteSetTheorems, SequenceTheorems, TLAPS

(* The readers that hold a submission, and those that owe a notice. *)
Cutting == {f \in Fifos : reader[f] = "submit"}
Waiting == {f \in Fifos : reader[f] \in {"submit", "ack"}}

(* A slot of MAX_SESSION_COMMENTS for every submission on its way. *)
SlotsOK ==
    /\ accepted <= MaxComments
    /\ Len(submitted) + Len(queue) + Cardinality(Cutting) <= accepted

(* Notices the pump and the worker are about. *)
AtPump   == Has(pump \in {"runSend", "drainSend"})
AtWorker == Has(worker \in {"request", "ack"})

(* Every finalized write is in one place. *)
CountOK ==
    ~gaveUp => finalized = shown + acks + AtPump + AtWorker + Len(queue)
                           + Cardinality(Waiting)

(* The order in which a session comes to its end. *)
EndOK ==
    ~gaveUp => /\ worker = "done" => queue = <<>> /\ AllReadersDone
               /\ pump = "dead" => worker = "done" /\ acks = 0

IInv == TypeOK /\ SlotsOK /\ CountOK /\ EndOK

-----------------------------------------------------------------------------
(* Counting readers. *)

LEMMA ReadersFinite ==
    ASSUME NEW S, S \subseteq Fifos
    PROVE  IsFiniteSet(S) /\ Cardinality(S) \in Nat
  BY FifoAssumption, FS_Subset, FS_CardinalityType

LEMMA OneJoins ==
    ASSUME NEW S, S \subseteq Fifos, NEW f \in Fifos, f \notin S
    PROVE  Cardinality(S \cup {f}) = Cardinality(S) + 1
  BY ReadersFinite, FS_AddElement

LEMMA OneLeaves ==
    ASSUME NEW S, S \subseteq Fifos, NEW f \in S
    PROVE  Cardinality(S) = Cardinality(S \ {f}) + 1 /\ Cardinality(S \ {f}) \in Nat
  <1>1. S \ {f} \subseteq Fifos /\ f \in Fifos /\ f \notin S \ {f} /\ (S \ {f}) \cup {f} = S
    OBVIOUS
  <1> QED BY <1>1, ReadersFinite, OneJoins

(* What a reader does to the counts when it moves from one state to        *)
(* another.                                                                *)
LEMMA ReaderMoves ==
    ASSUME TypeOK, NEW f \in Fifos, NEW x \in {"select", "submit", "ack", "done"},
           reader' = [reader EXCEPT ![f] = x]
    PROVE  /\ Cardinality(Cutting') + Has(reader[f] = "submit")
                = Cardinality(Cutting) + Has(x = "submit")
           /\ Cardinality(Waiting') + Has(reader[f] \in {"submit", "ack"})
                = Cardinality(Waiting) + Has(x \in {"submit", "ack"})
           /\ Cardinality(Cutting') \in Nat /\ Cardinality(Waiting') \in Nat
  <1>1. reader'[f] = x /\ \A g \in Fifos : g # f => reader'[g] = reader[g]
    BY DEF TypeOK
  <1>2. Cutting \subseteq Fifos /\ Waiting \subseteq Fifos
    BY DEF Cutting, Waiting
  <1>3. Cutting' \subseteq Fifos /\ Waiting' \subseteq Fifos
    BY DEF Cutting, Waiting
  <1>4. /\ Cardinality(Cutting) \in Nat /\ Cardinality(Waiting) \in Nat
        /\ Cardinality(Cutting') \in Nat /\ Cardinality(Waiting') \in Nat
    BY <1>2, <1>3, ReadersFinite
  <1>5. /\ f \in Cutting <=> reader[f] = "submit"
        /\ f \in Waiting <=> reader[f] \in {"submit", "ack"}
        /\ Cutting' = IF x = "submit" THEN Cutting \cup {f} ELSE Cutting \ {f}
        /\ Waiting' = IF x \in {"submit", "ack"} THEN Waiting \cup {f} ELSE Waiting \ {f}
    BY <1>1 DEF Cutting, Waiting
  <1>6. \A S \in {Cutting, Waiting} :
            /\ f \in S => Cardinality(S) = Cardinality(S \ {f}) + 1 /\ S \cup {f} = S
            /\ f \notin S => Cardinality(S \cup {f}) = Cardinality(S) + 1 /\ S \ {f} = S
    BY <1>2, OneJoins, OneLeaves
  <1>7. /\ f \in Cutting => Cardinality(Cutting) = Cardinality(Cutting \ {f}) + 1 /\ Cutting \cup {f} = Cutting
        /\ f \notin Cutting => Cardinality(Cutting \cup {f}) = Cardinality(Cutting) + 1 /\ Cutting \ {f} = Cutting
    BY <1>6
  <1>8. /\ f \in Waiting => Cardinality(Waiting) = Cardinality(Waiting \ {f}) + 1 /\ Waiting \cup {f} = Waiting
        /\ f \notin Waiting => Cardinality(Waiting \cup {f}) = Cardinality(Waiting) + 1 /\ Waiting \ {f} = Waiting
    BY <1>6
  <1>9. Cardinality(Cutting') + Has(reader[f] = "submit") = Cardinality(Cutting) + Has(x = "submit")
    BY <1>4, <1>5, <1>7 DEF Has
  <1>10. Cardinality(Waiting') + Has(reader[f] \in {"submit", "ack"})
                = Cardinality(Waiting) + Has(x \in {"submit", "ack"})
    BY <1>4, <1>5, <1>8 DEF Has
  <1> QED BY <1>4, <1>9, <1>10

LEMMA NobodyMoves ==
    ASSUME UNCHANGED reader
    PROVE  Cutting' = Cutting /\ Waiting' = Waiting /\ AllReadersDone' = AllReadersDone
  BY DEF Cutting, Waiting, AllReadersDone

-----------------------------------------------------------------------------
(* The initial state: nothing written, everybody at rest. *)
LEMMA InitIInv == Init => IInv
  <1> SUFFICES ASSUME Init PROVE IInv
    OBVIOUS
  <1> USE FifoAssumption
  <1>1. TypeOK
    <2>1. opened \in [Writers -> Fifos \cup {"never", "closed"}] /\ wrote \in [Writers -> 0 .. MaxChunks]
      BY DEF Init
    <2>2. fifo \in [Fifos -> Seq(Writers)] /\ payload \in [Fifos -> Seq(Writers)]
          /\ cut \in [Fifos -> Seq(Writers)]
      BY DEF Init
    <2>3. closeEv \in [Fifos -> BOOLEAN] /\ quits \in [Fifos -> BOOLEAN] /\ overflow \in [Fifos -> BOOLEAN]
      BY DEF Init
    <2>4. reader \in [Fifos -> {"select", "submit", "ack", "done"}]
      BY DEF Init
    <2>5. queue \in Seq(Seq(Writers)) /\ submitted \in Seq(Seq(Writers))
      BY DEF Init
    <2>6. Len(queue) <= QueueCap /\ Len(submitted) <= MaxComments
      BY DEF Init
    <2>7. accepted \in Nat /\ finalized \in Nat /\ shown \in Nat /\ acks \in 0 .. AckCap
      BY DEF Init
    <2>8. outGone \in BOOLEAN /\ gaveUp \in BOOLEAN
      BY DEF Init
    <2>9. /\ worker \in {"idle", "request", "ack", "done"}
          /\ pump \in {"run", "runSend", "readers", "drain", "drainSend", "dead"}
      BY DEF Init
    <2> QED BY <2>1, <2>2, <2>3, <2>4, <2>5, <2>6, <2>7, <2>8, <2>9 DEF TypeOK
  <1>2. Cutting = {} /\ Waiting = {}
    BY DEF Init, Cutting, Waiting
  <1>3. Cardinality(Cutting) = 0 /\ Cardinality(Waiting) = 0
    BY <1>2, FS_EmptySet
  <1>4. SlotsOK
    BY <1>3 DEF Init, SlotsOK
  <1>5. CountOK /\ EndOK
    BY <1>3 DEF Init, CountOK, EndOK, Has, AtPump, AtWorker
  <1> QED BY <1>1, <1>4, <1>5 DEF IInv

-----------------------------------------------------------------------------
(* Steps that move nothing that is counted. *)
LEMMA QuietKeeps ==
    ASSUME IInv, TypeOK',
           UNCHANGED <<reader, accepted, finalized, queue, worker, submitted, acks, pump,
                       shown, gaveUp>>
    PROVE  IInv'
  <1>1. Cutting' = Cutting /\ Waiting' = Waiting /\ AllReadersDone' = AllReadersDone
    BY NobodyMoves
  <1>2. SlotsOK'
    BY <1>1 DEF IInv, SlotsOK
  <1>3. CountOK'
    BY <1>1 DEF IInv, CountOK, AtPump, AtWorker
  <1>4. EndOK'
    BY <1>1 DEF IInv, EndOK
  <1> QED BY <1>2, <1>3, <1>4 DEF IInv

(* The processes in the jail. *)
LEMMA GuestKeeps == IInv /\ Guest => IInv'
  <1> SUFFICES ASSUME IInv, NEW w \in Writers, Write(w) \/ Close(w) \/ \E f \in Fifos : Open(w, f)
               PROVE  IInv'
    BY DEF Guest
  <1>0. TypeOK
    BY DEF IInv
  <1> USE FifoAssumption DEF readerVars, workerVars, pumpVars
  <1>1. ASSUME NEW f \in Fifos, Open(w, f) PROVE IInv'
    <2>1. TypeOK'
      BY <1>0, <1>1 DEF TypeOK, Open
    <2> QED BY <1>1, <2>1, QuietKeeps DEF Open
  <1>2. CASE Write(w)
    <2>1. wrote' \in [Writers -> 0 .. MaxChunks]
      BY <1>0, <1>2 DEF TypeOK, Write
    <2>2. fifo' \in [Fifos -> Seq(Writers)]
      BY <1>0, <1>2 DEF TypeOK, Write
    <2>3. TypeOK'
      BY <1>0, <1>2, <2>1, <2>2 DEF TypeOK, Write
    <2> QED BY <1>2, <2>3, QuietKeeps DEF Write
  <1>3. CASE Close(w)
    <2>1. TypeOK'
      BY <1>0, <1>3 DEF TypeOK, Close
    <2> QED BY <1>3, <2>1, QuietKeeps DEF Close
  <1> QED BY <1>1, <1>2, <1>3

-----------------------------------------------------------------------------
(* The readers. *)

LEMMA BufferTypes ==
    ASSUME TypeOK, NEW f \in Fifos
    PROVE  TooLong(f) \in BOOLEAN /\ Buffered(f) \in Seq(Writers)
  <1>1. TooLong(f) \in BOOLEAN
    BY DEF TooLong, TypeOK
  <1>2. payload[f] \o fifo[f] \in Seq(Writers)
    BY DEF TypeOK
  <1> QED BY <1>1, <1>2 DEF Buffered

(* A finalize takes a slot for what it submits and owes a notice for what  *)
(* it cut.                                                                 *)
LEMMA FinalizeKeeps ==
    ASSUME IInv, NEW f \in Fifos, NEW last \in BOOLEAN, reader[f] = "select",
           Finalize(f, last), closeEv' \in [Fifos -> BOOLEAN],
           UNCHANGED <<opened, wrote, queue, workerVars, acks, pumpVars>>
    PROVE  IInv'
  <1>0. TypeOK /\ TooLong(f) \in BOOLEAN /\ Buffered(f) \in Seq(Writers)
    BY BufferTypes DEF IInv
  <1> USE FifoAssumption DEF workerVars, pumpVars
  <1>1. /\ payload' \in [Fifos -> Seq(Writers)] /\ overflow' \in [Fifos -> BOOLEAN]
        /\ fifo' \in [Fifos -> Seq(Writers)] /\ quits' \in [Fifos -> BOOLEAN]
    BY <1>0 DEF TypeOK, Finalize
  <1>2. /\ gaveUp' = gaveUp /\ queue' = queue /\ submitted' = submitted /\ acks' = acks
        /\ shown' = shown /\ AtWorker' = AtWorker /\ AtPump' = AtPump
        /\ worker' = worker /\ pump' = pump
    BY DEF AtWorker, AtPump
  <1>3. EndOK'
    <2>1. ~gaveUp => worker # "done"
      BY <1>0 DEF IInv, EndOK, AllReadersDone
    <2> QED BY <1>2, <2>1 DEF IInv, EndOK
  <1>4. /\ Len(submitted) \in Nat /\ Len(queue) \in Nat /\ AtPump \in Nat /\ AtWorker \in Nat
        /\ Cardinality(Cutting) \in Nat /\ Cardinality(Waiting) \in Nat
        /\ finalized \in Nat /\ shown \in Nat /\ acks \in Nat /\ accepted \in Nat
    BY <1>0, ReadersFinite DEF TypeOK, Has, AtPump, AtWorker, Cutting, Waiting
  <1>5. CASE /\ reader' = [reader EXCEPT ![f] = Resume(f, last)]
             /\ UNCHANGED <<cut, accepted, finalized>>
    <2>1. Resume(f, last) \in {"select", "done"}
      BY DEF Resume
    <2>2. TypeOK'
      BY <1>0, <1>1, <1>5, <2>1 DEF TypeOK
    <2>3. /\ Cardinality(Cutting') = Cardinality(Cutting)
          /\ Cardinality(Waiting') = Cardinality(Waiting)
      <3>1. /\ Cardinality(Cutting') + Has(reader[f] = "submit")
                   = Cardinality(Cutting) + Has(Resume(f, last) = "submit")
            /\ Cardinality(Waiting') + Has(reader[f] \in {"submit", "ack"})
                   = Cardinality(Waiting) + Has(Resume(f, last) \in {"submit", "ack"})
            /\ Cardinality(Cutting') \in Nat /\ Cardinality(Waiting') \in Nat
        BY <1>0, <1>5, <2>1, ReaderMoves
      <3> QED BY <1>4, <2>1, <3>1 DEF Has
    <2>4. SlotsOK' /\ CountOK'
      <3>1. SlotsOK'
        BY <1>2, <1>5, <2>3 DEF IInv, SlotsOK
      <3>2. CountOK'
        BY <1>2, <1>5, <2>3 DEF IInv, CountOK
      <3> QED BY <3>1, <3>2
    <2> QED BY <1>3, <2>2, <2>4 DEF IInv
  <1>6. CASE /\ reader' = [reader EXCEPT ![f] = "ack"]
             /\ finalized' = finalized + 1
             /\ UNCHANGED <<cut, accepted>>
    <2>1. TypeOK'
      BY <1>0, <1>1, <1>6 DEF TypeOK
    <2>2. /\ Cardinality(Cutting') = Cardinality(Cutting)
          /\ Cardinality(Waiting') = Cardinality(Waiting) + 1
      <3>1. /\ Cardinality(Cutting') + Has(reader[f] = "submit")
                   = Cardinality(Cutting) + Has("ack" = "submit")
            /\ Cardinality(Waiting') + Has(reader[f] \in {"submit", "ack"})
                   = Cardinality(Waiting) + Has("ack" \in {"submit", "ack"})
            /\ Cardinality(Cutting') \in Nat /\ Cardinality(Waiting') \in Nat
        BY <1>0, <1>6, ReaderMoves
      <3> QED BY <1>4, <3>1 DEF Has
    <2>3. SlotsOK' /\ CountOK'
      <3>1. SlotsOK'
        BY <1>2, <1>4, <1>6, <2>2 DEF IInv, SlotsOK
      <3>2. CountOK'
        BY <1>2, <1>4, <1>6, <2>2 DEF IInv, CountOK
      <3> QED BY <3>1, <3>2
    <2> QED BY <1>3, <2>1, <2>3 DEF IInv
  <1>7. CASE /\ SlotFree
             /\ accepted' = accepted + 1
             /\ cut' = [cut EXCEPT ![f] = Buffered(f)]
             /\ reader' = [reader EXCEPT ![f] = "submit"]
             /\ finalized' = finalized + 1
    <2>1. TypeOK'
      BY <1>0, <1>1, <1>7 DEF TypeOK
    <2>2. /\ Cardinality(Cutting') = Cardinality(Cutting) + 1
          /\ Cardinality(Waiting') = Cardinality(Waiting) + 1
      <3>1. /\ Cardinality(Cutting') + Has(reader[f] = "submit")
                   = Cardinality(Cutting) + Has("submit" = "submit")
            /\ Cardinality(Waiting') + Has(reader[f] \in {"submit", "ack"})
                   = Cardinality(Waiting) + Has("submit" \in {"submit", "ack"})
            /\ Cardinality(Cutting') \in Nat /\ Cardinality(Waiting') \in Nat
        BY <1>0, <1>7, ReaderMoves
      <3> QED BY <1>4, <3>1 DEF Has
    <2>3. SlotsOK' /\ CountOK'
      <3>1. SlotsOK'
        BY <1>2, <1>4, <1>7, <2>2 DEF IInv, SlotsOK, SlotFree
      <3>2. CountOK'
        BY <1>2, <1>4, <1>7, <2>2 DEF IInv, CountOK
      <3> QED BY <3>1, <3>2
    <2> QED BY <1>3, <2>1, <2>3 DEF IInv
  <1> QED BY <1>5, <1>6, <1>7 DEF Finalize

LEMMA ReaderKeeps ==
    ASSUME IInv, NEW f \in Fifos, Reader(f)
    PROVE  IInv'
  <1>0. TypeOK /\ TooLong(f) \in BOOLEAN /\ Buffered(f) \in Seq(Writers)
    BY BufferTypes DEF IInv
  <1> USE FifoAssumption DEF writerVars, workerVars, pumpVars
  <1>1. CASE ReaderReads(f)
    <2>1. TypeOK'
      BY <1>0, <1>1 DEF TypeOK, ReaderReads
    <2> QED BY <1>1, <2>1, QuietKeeps DEF ReaderReads
  <1>2. CASE ReaderClosed(f)
    <2>1. closeEv' \in [Fifos -> BOOLEAN]
      BY <1>0, <1>2 DEF TypeOK, ReaderClosed
    <2> QED BY <1>2, <2>1, FinalizeKeeps DEF ReaderClosed
  <1>3. CASE ReaderShutdown(f)
    <2>1. closeEv' \in [Fifos -> BOOLEAN]
      BY <1>0, <1>3 DEF TypeOK, ReaderShutdown
    <2> QED BY <1>3, <2>1, FinalizeKeeps DEF ReaderShutdown
  <1>4. Resume(f, quits[f]) \in {"select", "done"}
    BY DEF Resume
  <1>5. /\ Len(submitted) \in Nat /\ Len(queue) \in Nat /\ AtPump \in Nat /\ AtWorker \in Nat
        /\ Cardinality(Cutting) \in Nat /\ Cardinality(Waiting) \in Nat
        /\ finalized \in Nat /\ shown \in Nat /\ acks \in Nat /\ accepted \in Nat
    BY <1>0, ReadersFinite DEF TypeOK, Has, AtPump, AtWorker, Cutting, Waiting
  <1>6. CASE ReaderSubmits(f)
    <2>1. /\ queue' \in Seq(Seq(Writers)) /\ Len(queue') = Len(queue) + 1
          /\ Len(queue') <= QueueCap
      BY <1>0, <1>6 DEF TypeOK, ReaderSubmits
    <2>2. reader' \in [Fifos -> {"select", "submit", "ack", "done"}]
      BY <1>0, <1>4, <1>6 DEF TypeOK, ReaderSubmits
    <2>3. TypeOK'
      BY <1>0, <1>6, <2>1, <2>2 DEF TypeOK, ReaderSubmits
    <2>4. /\ Cardinality(Cutting') + 1 = Cardinality(Cutting)
          /\ Cardinality(Waiting') + 1 = Cardinality(Waiting)
          /\ Cardinality(Cutting') \in Nat /\ Cardinality(Waiting') \in Nat
      <3>1. /\ Cardinality(Cutting') + Has(reader[f] = "submit")
                   = Cardinality(Cutting) + Has(Resume(f, quits[f]) = "submit")
            /\ Cardinality(Waiting') + Has(reader[f] \in {"submit", "ack"})
                   = Cardinality(Waiting) + Has(Resume(f, quits[f]) \in {"submit", "ack"})
            /\ Cardinality(Cutting') \in Nat /\ Cardinality(Waiting') \in Nat
        BY <1>0, <1>4, <1>6, ReaderMoves DEF ReaderSubmits
      <3> QED BY <1>4, <1>5, <1>6, <3>1 DEF Has, ReaderSubmits
    <2>5. /\ UNCHANGED <<accepted, submitted, finalized, shown, acks, gaveUp, worker, pump>>
          /\ AtWorker' = AtWorker /\ AtPump' = AtPump
      BY <1>6 DEF ReaderSubmits, AtWorker, AtPump
    <2>6. SlotsOK' /\ CountOK'
      <3>1. SlotsOK'
        BY <1>5, <2>1, <2>4, <2>5 DEF IInv, SlotsOK
      <3>2. CountOK'
        BY <1>5, <2>1, <2>4, <2>5 DEF IInv, CountOK
      <3> QED BY <3>1, <3>2
    <2>7. EndOK'
      BY <1>6, <2>5 DEF IInv, EndOK, AllReadersDone, ReaderSubmits
    <2> QED BY <2>3, <2>6, <2>7 DEF IInv
  <1>7. CASE ReaderAcks(f)
    <2>1. acks' \in 0 .. AckCap /\ acks' = acks + 1
      BY <1>0, <1>7 DEF TypeOK, ReaderAcks
    <2>2. reader' \in [Fifos -> {"select", "submit", "ack", "done"}]
      BY <1>0, <1>4, <1>7 DEF TypeOK, ReaderAcks
    <2>3. TypeOK'
      BY <1>0, <1>7, <2>1, <2>2 DEF TypeOK, ReaderAcks
    <2>4. /\ Cardinality(Cutting') = Cardinality(Cutting)
          /\ Cardinality(Waiting') + 1 = Cardinality(Waiting)
          /\ Cardinality(Cutting') \in Nat /\ Cardinality(Waiting') \in Nat
      <3>1. /\ Cardinality(Cutting') + Has(reader[f] = "submit")
                   = Cardinality(Cutting) + Has(Resume(f, quits[f]) = "submit")
            /\ Cardinality(Waiting') + Has(reader[f] \in {"submit", "ack"})
                   = Cardinality(Waiting) + Has(Resume(f, quits[f]) \in {"submit", "ack"})
            /\ Cardinality(Cutting') \in Nat /\ Cardinality(Waiting') \in Nat
        BY <1>0, <1>4, <1>7, ReaderMoves DEF ReaderAcks
      <3> QED BY <1>4, <1>5, <1>7, <3>1 DEF Has, ReaderAcks
    <2>5. /\ UNCHANGED <<accepted, submitted, finalized, shown, queue, gaveUp, worker, pump>>
          /\ AtWorker' = AtWorker /\ AtPump' = AtPump
      BY <1>7 DEF ReaderAcks, AtWorker, AtPump
    <2>6. SlotsOK' /\ CountOK'
      <3>1. SlotsOK'
        BY <1>5, <2>1, <2>4, <2>5 DEF IInv, SlotsOK
      <3>2. CountOK'
        BY <1>5, <2>1, <2>4, <2>5 DEF IInv, CountOK
      <3> QED BY <3>1, <3>2
    <2>7. EndOK'
      BY <1>7, <2>5 DEF IInv, EndOK, AllReadersDone, ReaderAcks
    <2> QED BY <2>3, <2>6, <2>7 DEF IInv
  <1> QED BY <1>1, <1>2, <1>3, <1>6, <1>7 DEF Reader

-----------------------------------------------------------------------------
(* The numbers of the invariant are naturals. *)
LEMMA CountsAreNat ==
    ASSUME TypeOK
    PROVE  /\ Len(submitted) \in Nat /\ Len(queue) \in Nat /\ AtPump \in Nat /\ AtWorker \in Nat
           /\ Cardinality(Cutting) \in Nat /\ Cardinality(Waiting) \in Nat
           /\ finalized \in Nat /\ shown \in Nat /\ acks \in Nat /\ accepted \in Nat
  BY FifoAssumption, ReadersFinite DEF TypeOK, Has, AtPump, AtWorker, Cutting, Waiting

(* The worker. *)
LEMMA WorkerKeeps == IInv /\ Worker => IInv'
  <1> SUFFICES ASSUME IInv, Worker PROVE IInv'
    OBVIOUS
  <1>0. TypeOK
    BY DEF IInv
  <1> USE FifoAssumption DEF writerVars, readerVars, pumpVars
  <1>1. /\ UNCHANGED <<reader, accepted, finalized, pump, shown, gaveUp>>
        /\ AtPump' = AtPump /\ Cutting' = Cutting /\ Waiting' = Waiting
        /\ AllReadersDone' = AllReadersDone
    <2>1. UNCHANGED <<reader, accepted, finalized, pump, shown, gaveUp>>
      BY DEF Worker, WorkerTakes, WorkerAnswered, WorkerAcks, WorkerDone
    <2> QED BY <2>1, NobodyMoves DEF AtPump
  <1>2. CASE WorkerTakes
    <2>1. queue' \in Seq(Seq(Writers)) /\ submitted' \in Seq(Seq(Writers))
      BY <1>0, <1>2 DEF TypeOK, WorkerTakes
    <2>2. /\ Len(queue') + 1 = Len(queue) /\ Len(submitted') = Len(submitted) + 1
          /\ Len(queue') \in Nat /\ Len(submitted') \in Nat
      BY <1>0, <1>2 DEF TypeOK, WorkerTakes
    <2>3. AtWorker = 0 /\ AtWorker' = 1 /\ acks' = acks
      BY <1>2 DEF WorkerTakes, AtWorker, Has
    <2>4. /\ Len(submitted) \in Nat /\ Len(queue) \in Nat /\ AtPump \in Nat
          /\ Cardinality(Cutting) \in Nat /\ Cardinality(Waiting) \in Nat
          /\ shown \in Nat /\ acks \in Nat /\ accepted \in Nat
          /\ Len(queue) <= QueueCap
      BY <1>0, CountsAreNat DEF TypeOK
    <2>5. SlotsOK' /\ Len(queue') <= QueueCap /\ Len(submitted') <= MaxComments
      BY <1>1, <2>2, <2>4 DEF IInv, SlotsOK
    <2>6. CountOK'
      <3>1. ~gaveUp => finalized = shown + acks + AtPump + AtWorker + Len(queue) + Cardinality(Waiting)
        BY DEF IInv, CountOK
      <3>2. ~gaveUp => finalized' = shown' + acks' + AtPump' + AtWorker' + Len(queue')
                                    + Cardinality(Waiting')
        BY <1>1, <2>2, <2>3, <2>4, <3>1
      <3> QED BY <1>1, <3>2 DEF CountOK
    <2>7. EndOK'
      BY <1>1, <1>2 DEF IInv, EndOK, WorkerTakes
    <2>8. TypeOK'
      BY <1>0, <1>2, <2>1, <2>5 DEF TypeOK, WorkerTakes
    <2> QED BY <2>5, <2>6, <2>7, <2>8 DEF IInv
  <1>3. CASE WorkerAnswered
    <2>1. TypeOK'
      BY <1>0, <1>3 DEF TypeOK, WorkerAnswered
    <2>2. AtWorker' = AtWorker /\ UNCHANGED <<queue, submitted, acks>>
      BY <1>3 DEF WorkerAnswered, AtWorker, Has
    <2>3. SlotsOK' /\ CountOK'
      BY <1>1, <2>2 DEF IInv, SlotsOK, CountOK
    <2>4. EndOK'
      BY <1>1, <1>3 DEF IInv, EndOK, WorkerAnswered
    <2> QED BY <2>1, <2>3, <2>4 DEF IInv
  <1>4. CASE WorkerAcks
    <2>1. acks' \in 0 .. AckCap /\ acks' = acks + 1
      BY <1>0, <1>4 DEF TypeOK, WorkerAcks
    <2>2. TypeOK'
      BY <1>0, <1>4, <2>1 DEF TypeOK, WorkerAcks
    <2>3. AtWorker = 1 /\ AtWorker' = 0 /\ UNCHANGED <<queue, submitted>>
      BY <1>4 DEF WorkerAcks, AtWorker, Has
    <2>4. SlotsOK'
      BY <1>1, <2>3 DEF IInv, SlotsOK
    <2>5. CountOK'
      BY <1>0, <1>1, <2>1, <2>3, CountsAreNat DEF IInv, CountOK
    <2>6. EndOK'
      BY <1>1, <1>4 DEF IInv, EndOK, WorkerAcks
    <2> QED BY <2>2, <2>4, <2>5, <2>6 DEF IInv
  <1>5. CASE WorkerDone
    <2>1. TypeOK'
      BY <1>0, <1>5 DEF TypeOK, WorkerDone
    <2>2. AtWorker' = AtWorker /\ UNCHANGED <<queue, submitted, acks>>
      BY <1>5 DEF WorkerDone, AtWorker, Has
    <2>3. SlotsOK' /\ CountOK'
      BY <1>1, <2>2 DEF IInv, SlotsOK, CountOK
    <2>4. EndOK'
      BY <1>1, <1>5 DEF IInv, EndOK, WorkerDone
    <2> QED BY <2>1, <2>3, <2>4 DEF IInv
  <1> QED BY <1>2, <1>3, <1>4, <1>5 DEF Worker

(* Steps of the pump that neither take nor deliver a notice while the      *)
(* session has not given up.                                               *)
LEMMA PumpMoves ==
    ASSUME IInv, TypeOK',
           UNCHANGED <<reader, accepted, finalized, queue, worker, submitted, acks, shown>>,
           gaveUp => gaveUp', ~gaveUp' => AtPump' = AtPump,
           ~gaveUp' /\ pump' = "dead" => pump = "dead" \/ (worker = "done" /\ acks = 0)
    PROVE  IInv'
  <1>1. Cutting' = Cutting /\ Waiting' = Waiting /\ AllReadersDone' = AllReadersDone
    BY NobodyMoves
  <1>2. AtWorker' = AtWorker
    BY DEF AtWorker
  <1>3. SlotsOK'
    BY <1>1 DEF IInv, SlotsOK
  <1>4. CountOK'
    BY <1>1, <1>2 DEF IInv, CountOK
  <1>5. EndOK'
    BY <1>1 DEF IInv, EndOK
  <1> QED BY <1>3, <1>4, <1>5 DEF IInv

LEMMA PumpKeeps == IInv /\ (Pump \/ Delivered \/ Stop) => IInv'
  <1> SUFFICES ASSUME IInv, Pump \/ Delivered \/ Stop PROVE IInv'
    OBVIOUS
  <1>0. TypeOK
    BY DEF IInv
  <1> USE FifoAssumption DEF writerVars, readerVars, workerVars
  <1>1. CASE TakeAck
    <2>1. acks' \in 0 .. AckCap /\ acks = acks' + 1
      BY <1>0, <1>1 DEF TypeOK, TakeAck
    <2>2. /\ gaveUp' \in BOOLEAN /\ gaveUp => gaveUp'
          /\ pump' \in {"run", "runSend", "readers", "drain", "drainSend", "dead"}
          /\ pump' # "dead"
      BY <1>0, <1>1 DEF TypeOK, TakeAck
    <2>3. UNCHANGED <<reader, accepted, finalized, queue, worker, submitted, shown>>
      BY <1>1 DEF TakeAck
    <2>4. TypeOK'
      BY <1>0, <1>1, <2>1, <2>2 DEF TypeOK, TakeAck
    <2>5. Cutting' = Cutting /\ Waiting' = Waiting /\ AllReadersDone' = AllReadersDone
      BY <2>3, NobodyMoves
    <2>6. AtWorker' = AtWorker
      BY <2>3 DEF AtWorker
    <2>7. ~gaveUp' => ~gaveUp /\ AtPump = 0 /\ AtPump' = 1
      BY <1>1 DEF TakeAck, AtPump, Has
    <2>8. SlotsOK'
      BY <2>3, <2>5 DEF IInv, SlotsOK
    <2>9. CountOK'
      BY <1>0, <2>1, <2>3, <2>5, <2>6, <2>7, CountsAreNat DEF IInv, CountOK
    <2>10. EndOK'
      BY <2>2, <2>3, <2>5, <2>7 DEF IInv, EndOK
    <2> QED BY <2>4, <2>8, <2>9, <2>10 DEF IInv
  <1>2. CASE Delivered
    <2>1. /\ UNCHANGED <<reader, accepted, finalized, queue, worker, submitted, acks, gaveUp>>
          /\ pump' # "dead" /\ shown' = shown + 1
      BY <1>2 DEF Delivered
    <2>2. TypeOK'
      BY <1>0, <1>2 DEF TypeOK, Delivered
    <2>3. Cutting' = Cutting /\ Waiting' = Waiting /\ AllReadersDone' = AllReadersDone
      BY <2>1, NobodyMoves
    <2>4. AtWorker' = AtWorker /\ AtPump = 1 /\ AtPump' = 0
      BY <1>2, <2>1 DEF Delivered, AtWorker, AtPump, Has
    <2>5. SlotsOK'
      BY <2>1, <2>3 DEF IInv, SlotsOK
    <2>6. CountOK'
      BY <1>0, <2>1, <2>3, <2>4, CountsAreNat DEF IInv, CountOK
    <2>7. EndOK'
      BY <2>1, <2>3 DEF IInv, EndOK
    <2> QED BY <2>2, <2>5, <2>6, <2>7 DEF IInv
  <1>3. CASE NotDelivered
    <2>1. TypeOK'
      BY <1>0, <1>3 DEF TypeOK, NotDelivered
    <2> QED BY <1>3, <2>1, PumpMoves DEF NotDelivered
  <1>4. CASE ReadersDone
    <2>1. TypeOK'
      BY <1>0, <1>4 DEF TypeOK, ReadersDone
    <2>2. AtPump' = AtPump
      BY <1>4 DEF ReadersDone, AtPump, Has
    <2> QED BY <1>4, <2>1, <2>2, PumpMoves DEF ReadersDone
  <1>5. CASE DrainDone
    <2>1. TypeOK'
      BY <1>0, <1>5 DEF TypeOK, DrainDone
    <2>2. AtPump' = AtPump
      BY <1>5 DEF DrainDone, AtPump, Has
    <2> QED BY <1>5, <2>1, <2>2, PumpMoves DEF DrainDone
  <1>6. CASE Stop
    <2>1. gaveUp' \in BOOLEAN /\ (gaveUp => gaveUp')
      BY <1>6 DEF Stop
    <2>2. /\ pump' = "readers" /\ pump \in {"run", "runSend"}
          /\ UNCHANGED <<writerVars, readerVars, queue, workerVars, acks, outGone, shown>>
      BY <1>6 DEF Stop
    <2>3. TypeOK'
      BY <1>0, <2>1, <2>2 DEF TypeOK
    <2>4. ~gaveUp' => pump = "run"
      BY <1>6 DEF Stop
    <2>5. ~gaveUp' => AtPump' = AtPump
      BY <2>2, <2>4 DEF AtPump, Has
    <2> QED BY <2>1, <2>2, <2>3, <2>5, PumpMoves
  <1> QED BY <1>1, <1>2, <1>3, <1>4, <1>5, <1>6 DEF Pump

(* A deadline gives up, and nothing is promised about notices from then    *)
(* on; the slots of the aborted readers stay taken.                        *)
LEMMA DeadlineKeeps == IInv /\ Deadline => IInv'
  <1> SUFFICES ASSUME IInv, Deadline PROVE IInv'
    OBVIOUS
  <1>0. TypeOK
    BY DEF IInv
  <1> USE FifoAssumption DEF writerVars, readerVars, workerVars
  <1>1. gaveUp' = TRUE /\ UNCHANGED <<accepted, queue, submitted>>
    BY DEF Deadline, ReadersTimeout, DrainTimeout
  <1>2. CountOK' /\ EndOK'
    BY <1>1 DEF CountOK, EndOK
  <1>3. CASE ReadersTimeout
    <2>1. reader' \in [Fifos -> {"select", "submit", "ack", "done"}]
      BY <1>3 DEF ReadersTimeout
    <2>2. TypeOK'
      BY <1>0, <1>3, <2>1 DEF TypeOK, ReadersTimeout
    <2>3. Cutting' = {}
      BY <1>3 DEF ReadersTimeout, Cutting
    <2>4. Cardinality(Cutting') = 0
      BY <2>3, FS_EmptySet
    <2>5. SlotsOK'
      BY <1>0, <1>1, <2>4, CountsAreNat DEF IInv, SlotsOK
    <2> QED BY <1>2, <2>2, <2>5 DEF IInv
  <1>4. CASE DrainTimeout
    <2>1. TypeOK'
      BY <1>0, <1>4 DEF TypeOK, DrainTimeout
    <2>2. Cutting' = Cutting
      BY <1>4 DEF DrainTimeout, Cutting
    <2>3. SlotsOK'
      BY <1>1, <2>2 DEF IInv, SlotsOK
    <2> QED BY <1>2, <2>1, <2>3 DEF IInv
  <1> QED BY <1>3, <1>4 DEF Deadline

LEMMA NextIInv == IInv /\ [Next]_vars => IInv'
  <1> SUFFICES ASSUME IInv, [Next]_vars PROVE IInv'
    OBVIOUS
  <1>1. CASE AccessLayerGone
    <2>1. TypeOK'
      BY <1>1 DEF IInv, TypeOK, AccessLayerGone, writerVars, readerVars, workerVars
    <2> QED BY <1>1, <2>1, QuietKeeps DEF AccessLayerGone, readerVars, workerVars
  <1>2. CASE UNCHANGED vars
    <2>1. TypeOK'
      BY <1>2 DEF IInv, TypeOK, vars, writerVars, readerVars, workerVars, pumpVars
    <2> QED BY <1>2, <2>1, QuietKeeps DEF vars, readerVars, workerVars, pumpVars
  <1>3. ASSUME NEW f \in Fifos, Reader(f) PROVE IInv'
    BY <1>3, ReaderKeeps
  <1> QED BY <1>1, <1>2, <1>3, GuestKeeps, WorkerKeeps, PumpKeeps, DeadlineKeeps DEF Next

(* The inductive invariant holds in every state of the session. *)
THEOREM InductiveInvariant == Spec => []IInv
  BY InitIInv, NextIInv, PTL DEF Spec

(* Types and capacities; in particular the readers of a session together   *)
(* submit no more than MAX_SESSION_COMMENTS, although each checks the      *)
(* shared counter by itself.                                               *)
THEOREM TypeCorrect == Spec => []TypeOK
  <1>1. IInv => TypeOK
    BY DEF IInv
  <1> QED BY <1>1, InductiveInvariant, PTL

(* Every write that finalize_fifo_write cut has exactly one notice on its  *)
(* way, and a session that gives up nowhere ends with all of them passed   *)
(* to the terminal.                                                        *)
THEOREM AllAnswered == Spec => []EachIsAnswered
  <1>1. IInv => EachIsAnswered
    <2> SUFFICES ASSUME IInv, ~gaveUp
                 PROVE  /\ pump = "dead" => shown = finalized
                        /\ finalized = shown + acks + Has(pump \in {"runSend", "drainSend"})
                                       + Has(worker \in {"request", "ack"}) + Len(queue)
                                       + Cardinality({f \in Fifos : reader[f] \in {"submit", "ack"}})
      BY DEF EachIsAnswered
    <2>1. finalized = shown + acks + AtPump + AtWorker + Len(queue) + Cardinality(Waiting)
      BY DEF IInv, CountOK
    <2>2. ASSUME pump = "dead" PROVE shown = finalized
      <3>1. worker = "done" /\ acks = 0 /\ queue = <<>> /\ AllReadersDone
        BY <2>2 DEF IInv, EndOK
      <3>2. AtPump = 0 /\ AtWorker = 0
        BY <2>2, <3>1 DEF AtPump, AtWorker, Has
      <3>3. Waiting = {}
        BY <3>1 DEF Waiting, AllReadersDone
      <3>4. Cardinality(Waiting) = 0 /\ Len(queue) = 0
        BY <3>1, <3>3, FS_EmptySet
      <3> QED BY <2>1, <3>1, <3>2, <3>4, CountsAreNat DEF IInv
    <2> QED BY <2>1, <2>2 DEF AtPump, AtWorker, Waiting
  <1> QED BY <1>1, InductiveInvariant, PTL
=============================================================================
