-------------------------- MODULE SessionPipeProofs --------------------------
(***************************************************************************)
(* Proofs about the pipe of a session, for any capacities and any number   *)
(* of units.                                                               *)
(*                                                                         *)
(* Each direction is a row of places.  What is in the places, read from    *)
(* the sink on, counts up from 1; when a task is done, what is in front of *)
(* it still does.  The number up to which a place has been filled is the   *)
(* sum of the lengths of the places before it.                             *)
(***************************************************************************)
EXTENDS SessionPipe, FiniteSetTheorems, SequenceTheorems, TLAPS

Frags == [unit : Units, part : {"whole", "head", "tail"}]

\* The types of what TypeOK leaves out.
MoreTypes ==
    /\ src \in [Ends -> Seq(Units)] /\ dst \in [Ends -> Seq(Units)]
    /\ sock \in [Ends -> Seq(Frags)]

\* A kernel that keeps records whole: no halves, and nothing to accumulate.
WholeOK ==
    /\ \A e \in Ends : ~half[e] /\ acc[e] = Nothing
    /\ \A e \in Ends : \A i \in DOMAIN sock[e] : sock[e][i].part = "whole"

\* The elements of q count up from a + 1.
IsRun(q, a) == \A i \in DOMAIN q : q[i] = a + i

\* So do the units of the fragments in q, but for a CLOSED at its end.
UnitRun(q, a) == \A i \in DOMAIN q : q[i].unit = a + i
ClosedRun(q, a) == \A i \in DOMAIN q : q[i].unit = a + i \/ (q[i].unit = Closed /\ i = Len(q))

\* How many units are in a place.  A task has one in its hand, or none.
PtyIn   == Len(ptyIn)
DstIn   == Len(dst["hc"])
SockIn  == Len(sock["hc"])
SrcIn   == Len(src["gw"])
DstOut  == Len(dst["gw"])
SockOut == Len(sock["gw"])
SrcOut  == Len(src["hc"])
PtyOut  == Len(ptyOut)
Writing    == IF pump = "writing" THEN 1 ELSE 0
PushingIn  == IF st["hc"] = "pushing" THEN 1 ELSE 0
SendingIn  == IF st["gw"] = "sending" THEN 1 ELSE 0
PushingOut == IF st["gw"] = "pushing" THEN 1 ELSE 0
SendingOut == IF st["hc"] = "sending" THEN 1 ELSE 0
Passing    == IF pump = "pushing" THEN 1 ELSE 0
Alive      == pump \in {"select", "writing", "pushing"}

\* How many units typed are in front of each place.
In1 == Len(seen)
In2 == In1 + PtyIn
In3 == In2 + Writing
In4 == In3 + DstIn
In5 == In4 + PushingIn
In6 == In5 + SockIn
In7 == In6 + SendingIn

InputOK ==
    /\ IsRun(seen, 0)
    /\ ~exited =>
       /\ pump # "dead" /\ IsRun(ptyIn, In1)
       /\ Alive =>
          /\ pump = "writing" => pmsg = In2 + 1
          /\ IsRun(dst["hc"], In3)
          /\ st["hc"] # "done" =>
             /\ st["hc"] = "pushing" => msg["hc"] = In4 + 1
             /\ UnitRun(sock["hc"], In5)
             /\ st["gw"] # "done" =>
                /\ st["gw"] = "sending" => msg["gw"] = In6 + 1
                /\ IsRun(src["gw"], In7)
                /\ typed = In7 + SrcIn

\* How many units printed are in front of each place.
Out1 == Len(shown)
Out2 == Out1 + DstOut
Out3 == Out2 + PushingOut
Out4 == Out3 + SockOut
Out5 == Out4 + SendingOut
Out6 == Out5 + SrcOut
Out7 == Out6 + Passing

\* CLOSED is the last frame of handle_conn, sent when the output is drained.
OutputOK ==
    /\ IsRun(shown, 0)
    /\ IsRun(dst["gw"], Out1)
    /\ st["gw"] # "done" =>
       /\ st["gw"] = "pushing" => msg["gw"] = Out2 + 1
       /\ ClosedRun(sock["gw"], Out3)
       /\ st["hc"] # "done" =>
          /\ UnitRun(sock["gw"], Out3)
          /\ st["hc"] = "sending" =>
                msg["hc"] = Out4 + 1 \/ (msg["hc"] = Closed /\ pump = "dead" /\ src["hc"] = <<>>)
          /\ IsRun(src["hc"], Out5)
          /\ Alive =>
             /\ pump = "pushing" => pmsg = Out6 + 1
             /\ IsRun(ptyOut, Out7)
             /\ printed = Out7 + PtyOut

IInv == TypeOK /\ MoreTypes /\ (~Splits => WholeOK /\ InputOK /\ OutputOK)

-----------------------------------------------------------------------------
(* The places.                                                             *)

\* The first element of a run is taken.
LEMMA RunTail ==
    ASSUME NEW S, NEW q \in Seq(S), q # <<>>, NEW a \in Nat, IsRun(q, a)
    PROVE  /\ Head(q) = a + 1 /\ IsRun(Tail(q), a + 1)
           /\ Tail(q) \in Seq(S) /\ Len(Tail(q)) = Len(q) - 1 /\ Len(q) \in Nat /\ Head(q) \in S
<1>1. Len(q) \in Nat /\ Len(q) # 0 /\ 1 \in DOMAIN q /\ Head(q) = q[1]
  OBVIOUS
<1>2. /\ DOMAIN Tail(q) = 1 .. (Len(q) - 1) /\ Len(Tail(q)) = Len(q) - 1
      /\ \A i \in 1 .. (Len(q) - 1) : Tail(q)[i] = q[i + 1] /\ i + 1 \in DOMAIN q
  BY <1>1
<1>3. ASSUME NEW i \in 1 .. (Len(q) - 1)
      PROVE  Tail(q)[i] = (a + 1) + i
  <2>1. i \in Nat /\ (a + 1) + i = a + (i + 1)
    BY <1>1
  <2>2. q[i + 1] = a + (i + 1)
    BY <1>2 DEF IsRun
  <2>3. QED
    BY <1>2, <2>1, <2>2
<1>4. Head(q) = a + 1 /\ Head(q) \in S /\ Tail(q) \in Seq(S)
  BY <1>1 DEF IsRun
<1>5. QED
  BY <1>1, <1>2, <1>3, <1>4 DEF IsRun

\* The next number is appended to a run.
LEMMA RunAppend ==
    ASSUME NEW S, NEW q \in Seq(S), NEW a \in Nat, NEW u, u = a + Len(q) + 1, IsRun(q, a)
    PROVE  IsRun(Append(q, u), a)
<1>1. Len(q) \in Nat /\ DOMAIN Append(q, u) = 1 .. (Len(q) + 1) /\ DOMAIN q = 1 .. Len(q)
  OBVIOUS
<1>2. ASSUME NEW i \in 1 .. (Len(q) + 1) PROVE Append(q, u)[i] = a + i
  <2>1. CASE i = Len(q) + 1
    <3>1. Append(q, u)[i] = u
      BY <1>1, <2>1
    <3>2. QED
      BY <1>1, <2>1, <3>1
  <2>2. CASE i # Len(q) + 1
    <3>1. i \in 1 .. Len(q)
      BY <1>1, <2>2
    <3>2. Append(q, u)[i] = q[i]
      BY <3>1
    <3>3. QED
      BY <1>1, <3>1, <3>2 DEF IsRun
  <2>3. QED
    BY <2>1, <2>2
<1>3. QED
  BY <1>1, <1>2 DEF IsRun

\* The first fragment is taken from a socket.
LEMMA UnitTail ==
    ASSUME NEW q \in Seq(Frags), q # <<>>, NEW a \in Nat
    PROVE  /\ Tail(q) \in Seq(Frags) /\ Len(Tail(q)) = Len(q) - 1 /\ Len(q) \in Nat
           /\ Head(q) \in Frags
           /\ \A i \in DOMAIN Tail(q) : i + 1 \in DOMAIN q /\ Tail(q)[i] = q[i + 1]
           /\ UnitRun(q, a) => Head(q).unit = a + 1 /\ UnitRun(Tail(q), a + 1)
           /\ ClosedRun(q, a) => Head(q).unit \in {a + 1, Closed} /\ ClosedRun(Tail(q), a + 1)
<1>1. Len(q) \in Nat /\ Len(q) # 0 /\ 1 \in DOMAIN q /\ Head(q) = q[1] /\ DOMAIN q = 1 .. Len(q)
  OBVIOUS
<1>2. /\ DOMAIN Tail(q) = 1 .. (Len(q) - 1) /\ Len(Tail(q)) = Len(q) - 1
      /\ \A i \in 1 .. (Len(q) - 1) : Tail(q)[i] = q[i + 1] /\ i + 1 \in DOMAIN q
  BY <1>1
<1>3. Head(q) \in Frags /\ Tail(q) \in Seq(Frags)
  BY <1>1
<1>4. UnitRun(q, a) => Head(q).unit = a + 1 /\ UnitRun(Tail(q), a + 1)
  <2>1. SUFFICES ASSUME UnitRun(q, a) PROVE Head(q).unit = a + 1 /\ UnitRun(Tail(q), a + 1)
    OBVIOUS
  <2>2. ASSUME NEW i \in 1 .. (Len(q) - 1) PROVE Tail(q)[i].unit = (a + 1) + i
    <3>1. Tail(q)[i] = q[i + 1] /\ q[i + 1].unit = a + (i + 1)
      BY <1>2, <2>1 DEF UnitRun
    <3>2. QED
      BY <1>1, <3>1
  <2>3. QED
    BY <1>1, <1>2, <2>1, <2>2 DEF UnitRun
<1>5. ClosedRun(q, a) => Head(q).unit \in {a + 1, Closed} /\ ClosedRun(Tail(q), a + 1)
  <2>1. SUFFICES ASSUME ClosedRun(q, a)
                 PROVE  Head(q).unit \in {a + 1, Closed} /\ ClosedRun(Tail(q), a + 1)
    OBVIOUS
  <2>2. ASSUME NEW i \in 1 .. (Len(q) - 1)
        PROVE  Tail(q)[i].unit = (a + 1) + i \/ (Tail(q)[i].unit = Closed /\ i = Len(q) - 1)
    <3>1. /\ Tail(q)[i] = q[i + 1]
          /\ q[i + 1].unit = a + (i + 1) \/ (q[i + 1].unit = Closed /\ i + 1 = Len(q))
      BY <1>2, <2>1 DEF ClosedRun
    <3>2. i \in Nat /\ Len(q) \in Nat
      BY <1>1
    <3>3. (a + 1) + i = a + (i + 1)
      BY <3>2
    <3>4. i + 1 = Len(q) => i = Len(q) - 1
      BY <3>2
    <3>5. QED
      BY <3>1, <3>3, <3>4
  <2>3. QED
    BY <1>1, <1>2, <2>1, <2>2 DEF ClosedRun
<1>6. QED
  BY <1>1, <1>2, <1>3, <1>4, <1>5

\* A whole frame is put into a socket.
LEMMA UnitAppend ==
    ASSUME NEW q \in Seq(Frags), NEW a \in Nat, NEW f, UnitRun(q, a)
    PROVE  /\ ClosedRun(q, a)
           /\ f.unit = a + Len(q) + 1 => UnitRun(Append(q, f), a)
           /\ f.unit = a + Len(q) + 1 \/ f.unit = Closed => ClosedRun(Append(q, f), a)
<1>1. /\ Len(q) \in Nat /\ DOMAIN Append(q, f) = 1 .. (Len(q) + 1) /\ DOMAIN q = 1 .. Len(q)
      /\ Len(Append(q, f)) = Len(q) + 1
  OBVIOUS
<1>2. /\ \A i \in 1 .. Len(q) : Append(q, f)[i].unit = a + i
      /\ Append(q, f)[Len(q) + 1] = f
  BY <1>1 DEF UnitRun
<1>3. \A i \in 1 .. (Len(q) + 1) : i \in 1 .. Len(q) \/ i = Len(q) + 1
  BY <1>1
<1>4. f.unit = a + Len(q) + 1 => UnitRun(Append(q, f), a)
  BY <1>1, <1>2, <1>3 DEF UnitRun
<1>5. f.unit = a + Len(q) + 1 \/ f.unit = Closed => ClosedRun(Append(q, f), a)
  BY <1>1, <1>2, <1>3 DEF ClosedRun
<1>6. QED
  BY <1>4, <1>5 DEF UnitRun, ClosedRun

\* The weight of a socket.
LEMMA WeightNat ==
    ASSUME NEW q \in Seq(Frags)
    PROVE  /\ Weight(q) \in Nat
           /\ IsFiniteSet({i \in DOMAIN q : q[i].part = "whole"})
           /\ Cardinality({i \in DOMAIN q : q[i].part = "whole"}) \in Nat
<1> DEFINE W == {i \in DOMAIN q : q[i].part = "whole"}
<1>1. Len(q) \in Nat /\ W \in SUBSET (1 .. Len(q))
  OBVIOUS
<1>2. IsFiniteSet(1 .. Len(q))
  BY <1>1, FS_Interval
<1>3. IsFiniteSet(W) /\ Cardinality(W) \in Nat
  BY <1>1, <1>2, FS_Subset, FS_CardinalityType
<1>4. QED
  BY <1>1, <1>3 DEF Weight

\* A fragment weighs two if it is a whole frame, and one otherwise.
LEMMA WeightAppend ==
    ASSUME NEW q \in Seq(Frags), NEW f \in Frags
    PROVE  /\ Weight(Append(q, f)) <= Weight(q) + 2
           /\ f.part # "whole" => Weight(Append(q, f)) <= Weight(q) + 1
<1> DEFINE W == {i \in DOMAIN q : q[i].part = "whole"}
           V == {i \in DOMAIN Append(q, f) : Append(q, f)[i].part = "whole"}
<1>1. /\ Len(q) \in Nat /\ DOMAIN Append(q, f) = 1 .. (Len(q) + 1) /\ DOMAIN q = 1 .. Len(q)
      /\ Len(Append(q, f)) = Len(q) + 1
  OBVIOUS
<1>2. \A i \in 1 .. Len(q) : Append(q, f)[i] = q[i]
  BY <1>1
<1>3. Append(q, f)[Len(q) + 1] = f
  BY <1>1
<1>4. \A i \in 1 .. (Len(q) + 1) : i \in 1 .. Len(q) \/ i = Len(q) + 1
  BY <1>1
<1>5. V \subseteq W \cup {Len(q) + 1} /\ (f.part # "whole" => V \subseteq W)
  BY <1>1, <1>2, <1>3, <1>4
<1>6. IsFiniteSet(W) /\ Cardinality(W) \in Nat
  BY WeightNat
<1> HIDE DEF W, V
<1>7. /\ IsFiniteSet(W \cup {Len(q) + 1})
      /\ Cardinality(W \cup {Len(q) + 1})
            = IF Len(q) + 1 \in W THEN Cardinality(W) ELSE Cardinality(W) + 1
  BY <1>6, FS_AddElement
<1>8. IsFiniteSet(V) /\ Cardinality(V) <= Cardinality(W \cup {Len(q) + 1})
  BY <1>5, <1>7, FS_Subset
<1>9. f.part # "whole" => Cardinality(V) <= Cardinality(W)
  BY <1>5, <1>6, FS_Subset
<1>10. Cardinality(V) \in Nat
  BY <1>8, FS_CardinalityType
<1>11. Weight(q) = Len(q) + Cardinality(W) /\ Weight(Append(q, f)) = Len(q) + 1 + Cardinality(V)
  BY <1>1 DEF Weight, W, V
<1>12. Cardinality(V) <= Cardinality(W) + 1
  BY <1>6, <1>7, <1>8, <1>10
<1>13. QED
  BY <1>1, <1>6, <1>9, <1>10, <1>11, <1>12

\* Taking a fragment makes room.
LEMMA WeightTail ==
    ASSUME NEW q \in Seq(Frags), q # <<>>
    PROVE  Weight(Tail(q)) <= Weight(q)
<1> DEFINE W == {i \in DOMAIN q : q[i].part = "whole"}
           V == {i \in DOMAIN Tail(q) : Tail(q)[i].part = "whole"}
           g == [i \in V |-> i + 1]
<1>1. /\ Tail(q) \in Seq(Frags) /\ Len(Tail(q)) = Len(q) - 1 /\ Len(q) \in Nat
      /\ \A i \in DOMAIN Tail(q) : i + 1 \in DOMAIN q /\ Tail(q)[i] = q[i + 1]
  BY UnitTail
<1>2. \A i \in V : i \in Nat /\ i + 1 \in W
  BY <1>1
<1>3. IsFiniteSet(W) /\ Cardinality(W) \in Nat /\ IsFiniteSet(V) /\ Cardinality(V) \in Nat
  BY <1>1, WeightNat
<1> HIDE DEF W, V
<1>4. g \in Injection(V, W)
  BY <1>2 DEF Injection, IsInjective
<1> HIDE DEF g
<1>5. Cardinality(V) <= Cardinality(W)
  BY <1>3, <1>4, FS_Injection
<1>6. Weight(q) = Len(q) + Cardinality(W) /\ Weight(Tail(q)) = Len(q) - 1 + Cardinality(V)
  BY <1>1 DEF Weight, W, V
<1>7. QED
  BY <1>1, <1>3, <1>5, <1>6

\* The second half of a frame weighs one, wherever it goes.
LEMMA WeightCompleted ==
    ASSUME NEW q \in Seq(Frags), NEW u \in Units
    PROVE  Completed(q, u) \in Seq(Frags) /\ Weight(Completed(q, u)) <= Weight(q) + 1
<1> DEFINE t == Frag(u, "tail")
           w == Frag(u, "whole")
<1>1. t \in Frags /\ t.part # "whole" /\ w \in Frags /\ w.part = "whole"
  BY DEF Frag, Frags
<1> HIDE DEF t, w
<1>2. CASE q # <<>> /\ Last(q) = Frag(u, "head")
  <2> DEFINE n == Len(q)
             r == Append(Front(q), w)
             W == {i \in DOMAIN q : q[i].part = "whole"}
             V == {i \in DOMAIN r : r[i].part = "whole"}
  <2>1. n \in Nat /\ n # 0 /\ DOMAIN q = 1 .. n /\ q[n].part = "head"
    BY <1>2 DEF Last, Frag
  <2>2. /\ Front(q) \in Seq(Frags) /\ Len(Front(q)) = n - 1
        /\ \A i \in 1 .. (n - 1) : Front(q)[i] = q[i]
    BY <2>1 DEF Front
  <2>3. Completed(q, u) = r
    BY <1>2, <2>2 DEF Completed, w
  <2> HIDE DEF n
  <2>4. r \in Seq(Frags) /\ Len(r) = n /\ DOMAIN r = 1 .. n
    BY <1>1, <2>1, <2>2
  <2>5. \A i \in 1 .. (n - 1) : r[i] = q[i]
    BY <2>1, <2>2
  <2>6. \A i \in 1 .. n : i \in 1 .. (n - 1) \/ i = n
    BY <2>1
  <2> HIDE DEF r
  <2>7. V \subseteq W \cup {n}
    BY <2>1, <2>4, <2>5, <2>6
  <2>8. IsFiniteSet(W) /\ Cardinality(W) \in Nat /\ Cardinality(V) \in Nat
    BY <2>4, WeightNat
  <2> HIDE DEF W, V
  <2>9. /\ IsFiniteSet(W \cup {n})
        /\ Cardinality(W \cup {n}) = IF n \in W THEN Cardinality(W) ELSE Cardinality(W) + 1
    BY <2>8, FS_AddElement
  <2>10. Cardinality(V) <= Cardinality(W \cup {n})
    BY <2>7, <2>9, FS_Subset
  <2>11. Cardinality(V) <= Cardinality(W) + 1
    BY <2>8, <2>9, <2>10
  <2>12. Weight(q) = n + Cardinality(W) /\ Weight(r) = n + Cardinality(V)
    BY <2>4 DEF Weight, W, V, n
  <2>13. QED
    BY <2>1, <2>3, <2>4, <2>8, <2>11, <2>12
<1>3. CASE ~(q # <<>> /\ Last(q) = Frag(u, "head"))
  <2>1. Completed(q, u) = Append(q, t)
    BY <1>3 DEF Completed, t
  <2>2. QED
    BY <1>1, <2>1, WeightAppend
<1>4. QED
  BY <1>2, <1>3

\* The sums are numbers.
LEMMA InNumbers ==
    ASSUME TypeOK, MoreTypes
    PROVE  /\ In1 \in Nat /\ In2 \in Nat /\ In3 \in Nat /\ In4 \in Nat /\ In5 \in Nat /\ In6 \in Nat
           /\ In7 \in Nat
  BY DEF TypeOK, MoreTypes, Ends, In1, In2, In3, In4, In5, In6, In7,
         PtyIn, DstIn, SockIn, Writing, PushingIn, SendingIn

LEMMA OutNumbers ==
    ASSUME TypeOK, MoreTypes
    PROVE  /\ Out1 \in Nat /\ Out2 \in Nat /\ Out3 \in Nat /\ Out4 \in Nat /\ Out5 \in Nat
           /\ Out6 \in Nat /\ Out7 \in Nat
  BY DEF TypeOK, MoreTypes, Ends, Out1, Out2, Out3, Out4, Out5, Out6, Out7,
         DstOut, SockOut, SrcOut, Passing, PushingOut, SendingOut

-----------------------------------------------------------------------------
(* The steps.                                                              *)

\* A frame, or a half of one, goes into the socket of the peer.
LEMMA LinkSendKeeps ==
    ASSUME IInv, NEW e \in Ends, LinkSend(e)
    PROVE  IInv'
<1> DEFINE p == Peer(e)
<1>1. /\ p \in Ends /\ sock' = [sock EXCEPT ![p] = sock'[p]]
      /\ sock'[p] \in Seq(Frags) /\ Weight(sock'[p]) <= SockCap
  <2>1. /\ p \in Ends /\ sock \in [Ends -> Seq(Frags)] /\ sock[p] \in Seq(Frags)
        /\ msg[e] \in Units
        /\ Weight(sock[p]) < SockCap
    BY DEF LinkSend, Peer, Ends, IInv, TypeOK, MoreTypes
  <2>2. Weight(sock[p]) \in Nat /\ SockCap \in Nat
    BY <2>1, WeightNat, CapAssumption
  <2>3. \A f : f \in {Frag(msg[e], "whole"), Frag(msg[e], "head")} => f \in Frags
    BY <2>1 DEF Frag, Frags
  <2>4. CASE /\ SockCap - Weight(sock[p]) >= 2
             /\ sock' = [sock EXCEPT ![p] = Append(@, Frag(msg[e], "whole"))]
    <3>1. sock'[p] = Append(sock[p], Frag(msg[e], "whole"))
      BY <2>1, <2>4
    <3>2. sock'[p] \in Seq(Frags)
      BY <2>1, <2>3, <3>1
    <3>3. Weight(sock'[p]) <= Weight(sock[p]) + 2 /\ Weight(sock'[p]) \in Nat
      BY <2>1, <2>3, <3>1, <3>2, WeightAppend, WeightNat
    <3>4. Weight(sock'[p]) <= SockCap
      BY <2>2, <2>4, <3>3
    <3>5. QED
      BY <2>1, <2>4, <3>1, <3>2, <3>4
  <2>5. CASE sock' = [sock EXCEPT ![p] = Append(@, Frag(msg[e], "head"))]
    <3>1. sock'[p] = Append(sock[p], Frag(msg[e], "head")) /\ Frag(msg[e], "head").part # "whole"
      BY <2>1, <2>5 DEF Frag
    <3>2. sock'[p] \in Seq(Frags)
      BY <2>1, <2>3, <3>1
    <3>3. Weight(sock'[p]) <= Weight(sock[p]) + 1 /\ Weight(sock'[p]) \in Nat
      BY <2>1, <2>3, <3>1, <3>2, WeightAppend, WeightNat
    <3>4. Weight(sock'[p]) <= SockCap
      BY <2>1, <2>2, <3>3
    <3>5. QED
      BY <2>1, <2>5, <3>1, <3>2, <3>4
  <2>6. CASE sock' = [sock EXCEPT ![p] = Completed(@, msg[e])]
    <3>1. sock'[p] = Completed(sock[p], msg[e])
      BY <2>1, <2>6
    <3>2. sock'[p] \in Seq(Frags) /\ Weight(sock'[p]) <= Weight(sock[p]) + 1
      BY <2>1, <3>1, WeightCompleted
    <3>3. Weight(sock'[p]) \in Nat
      BY <3>2, WeightNat
    <3>4. Weight(sock'[p]) <= SockCap
      BY <2>1, <2>2, <3>2, <3>3
    <3>5. QED
      BY <2>1, <2>6, <3>1, <3>2, <3>4
  <2>7. QED
    BY <2>4, <2>5, <2>6 DEF LinkSend
<1> HIDE DEF p
<1>2. TypeOK'
  <2>1. \A d \in Ends : Weight(sock'[d]) <= SockCap
    BY <1>1 DEF IInv, TypeOK, MoreTypes
  <2>2. /\ st' \in [Ends -> {"select", "sending", "pushing", "done"}]
        /\ half' \in [Ends -> BOOLEAN]
    BY DEF LinkSend, AfterSend, IInv, TypeOK
  <2>3. QED
    BY <2>1, <2>2 DEF LinkSend, accessVars, ptyVars, IInv, TypeOK
<1>3. MoreTypes'
  BY <1>1 DEF LinkSend, IInv, MoreTypes
<1>4. ASSUME ~Splits PROVE WholeOK'
  <2>1. WholeOK /\ half[e] = FALSE
    BY <1>4 DEF IInv, WholeOK
  <2>2. /\ sock' = [sock EXCEPT ![p] = Append(@, Frag(msg[e], "whole"))] /\ UNCHANGED <<half,
                                                                                        acc>>
        /\ sock \in [Ends -> Seq(Frags)] /\ sock[p] \in Seq(Frags)
    BY <1>1, <1>4, <2>1 DEF LinkSend, IInv, MoreTypes, p
  <2>3. \A i \in DOMAIN Append(sock[p], Frag(msg[e], "whole")) :
           \/ i \in DOMAIN sock[p] /\ Append(sock[p], Frag(msg[e], "whole"))[i] = sock[p][i]
           \/ Append(sock[p], Frag(msg[e], "whole"))[i] = Frag(msg[e], "whole")
    BY <2>2
  <2>4. \A i \in DOMAIN sock'[p] : sock'[p][i].part = "whole"
    BY <1>1, <2>1, <2>2, <2>3 DEF WholeOK, Frag
  <2>5. QED
    BY <1>1, <2>1, <2>2, <2>4 DEF WholeOK
<1>5. ASSUME ~Splits PROVE InputOK'
  <2>1. CASE e = "gw"
    <3>1. /\ st["gw"] = "sending" /\ st'["gw"] \in {"select", "done"} /\ st["hc"] # "done"
          /\ sock'["hc"] = Append(sock["hc"], Frag(msg["gw"], "whole"))
          /\ UNCHANGED <<exited, pump, pmsg, seen, ptyIn, dst["hc"], st["hc"], msg["hc"],
                         msg["gw"], src["gw"], typed>>
      BY <1>5, <2>1 DEF LinkSend, Peer, AfterSend, accessVars, ptyVars, IInv, TypeOK, MoreTypes,
         WholeOK, Ends
    <3>2. /\ In1 \in Nat /\ In2 \in Nat /\ In3 \in Nat /\ In4 \in Nat /\ In5 \in Nat
          /\ In6 \in Nat /\ In7 \in Nat
      BY InNumbers DEF IInv
    <3>3. /\ InputOK
          /\ seen \in Seq(Units) /\ ptyIn \in Seq(Units) /\ dst["hc"] \in Seq(Units)
          /\ sock["hc"] \in Seq(Frags) /\ src["gw"] \in Seq(Units)
      BY <1>5 DEF IInv, TypeOK, MoreTypes, Ends
    <3>4. /\ Len(seen) \in Nat /\ Len(ptyIn) \in Nat /\ Len(dst["hc"]) \in Nat
          /\ Len(sock["hc"]) \in Nat /\ Len(src["gw"]) \in Nat
          /\ Len(sock'["hc"]) = Len(sock["hc"]) + 1
          /\ Len(seen') = Len(seen) /\ Len(ptyIn') = Len(ptyIn)
          /\ Len(dst'["hc"]) = Len(dst["hc"]) /\ Len(src'["gw"]) = Len(src["gw"])
      BY <3>1, <3>3
    <3>5. /\ Writing \in Nat /\ PushingIn \in Nat /\ SendingIn \in Nat
          /\ Writing' = Writing
          /\ PushingIn' = PushingIn
          /\ SendingIn = 1 /\ SendingIn' = 0
          /\ In1' = In1
          /\ PtyIn \in Nat /\ PtyIn' = PtyIn
          /\ DstIn \in Nat /\ DstIn' = DstIn
          /\ SockIn \in Nat /\ SockIn' = SockIn + 1
          /\ SrcIn \in Nat /\ SrcIn' = SrcIn
      BY <3>1, <3>4 DEF In1, PtyIn, DstIn, SockIn, SrcIn, Writing, PushingIn, SendingIn
    <3>6. /\ In1' = In1 /\ In2' = In2 /\ In3' = In3 /\ In4' = In4
          /\ In5' = In5 /\ In6' = In6 + 1 /\ In7' = In7
      <4>1. In1' = In1 /\ In2' = In2 /\ In3' = In3 /\ In4' = In4 /\ In5' = In5
        BY <3>2, <3>5 DEF In2, In3, In4, In5
      <4>2. In6' = In6 + 1
        BY <3>2, <3>5, <4>1 DEF In6
      <4>3. In7' = In7
        BY <3>2, <3>5, <4>2 DEF In7
      <4>4. QED
        BY <4>1, <4>2, <4>3
    <3>7. ASSUME ~exited, Alive PROVE UnitRun(sock'["hc"], In5)
      <4>1. UnitRun(sock["hc"], In5) /\ msg["gw"] = In6 + 1
        BY <3>1, <3>3, <3>7 DEF InputOK
      <4>2. In6 = In5 + Len(sock["hc"])
        BY <3>2, <3>5 DEF In5, In6, SockIn
      <4>3. QED
        BY <3>2, <3>1, <3>3, <3>4, <3>7, <4>1, <4>2, UnitAppend DEF Frag
    <3>8. QED
      BY <3>2, <3>1, <3>3, <3>5, <3>6, <3>7 DEF InputOK, Alive
  <2>2. CASE e = "hc"
    BY <1>5, <2>2 DEF LinkSend, Peer, AfterSend, accessVars, ptyVars, IInv, TypeOK, MoreTypes,
       Ends, InputOK, In1, In2, In3, In4, In5, In6, In7, PtyIn, DstIn, SockIn, SrcIn, Writing,
       PushingIn, SendingIn, Alive
  <2>3. QED
    BY <2>1, <2>2 DEF Ends
<1>6. ASSUME ~Splits PROVE OutputOK'
  <2>1. CASE e = "gw"
    BY <1>6, <2>1 DEF LinkSend, Peer, AfterSend, accessVars, ptyVars, IInv, TypeOK, MoreTypes,
       Ends, OutputOK, Out1, Out2, Out3, Out4, Out5, Out6, Out7, DstOut, SockOut, SrcOut, PtyOut,
       Passing, PushingOut, SendingOut, Alive
  <2>2. CASE e = "hc"
    <3>1. /\ st["hc"] = "sending" /\ st["gw"] # "done"
          /\ st'["hc"] = (IF msg["hc"] = Closed THEN "done" ELSE "select")
          /\ sock'["gw"] = Append(sock["gw"], Frag(msg["hc"], "whole"))
          /\ UNCHANGED <<pump, pmsg, shown, dst["gw"], st["gw"], msg["gw"], msg["hc"], src["hc"],
                         ptyOut, printed>>
      BY <1>6, <2>2 DEF LinkSend, Peer, AfterSend, accessVars, ptyVars, IInv, TypeOK, MoreTypes,
         WholeOK, Ends
    <3>2. /\ Out1 \in Nat /\ Out2 \in Nat /\ Out3 \in Nat /\ Out4 \in Nat /\ Out5 \in Nat
          /\ Out6 \in Nat /\ Out7 \in Nat
      BY OutNumbers DEF IInv
    <3>3. /\ OutputOK
          /\ shown \in Seq(Units) /\ dst["gw"] \in Seq(Units) /\ sock["gw"] \in Seq(Frags)
          /\ src["hc"] \in Seq(Units) /\ ptyOut \in Seq(Units)
      BY <1>6 DEF IInv, TypeOK, MoreTypes, Ends
    <3>4. /\ Len(shown) \in Nat /\ Len(dst["gw"]) \in Nat /\ Len(sock["gw"]) \in Nat
          /\ Len(src["hc"]) \in Nat /\ Len(ptyOut) \in Nat
          /\ Len(sock'["gw"]) = Len(sock["gw"]) + 1
          /\ Len(shown') = Len(shown) /\ Len(dst'["gw"]) = Len(dst["gw"])
          /\ Len(src'["hc"]) = Len(src["hc"]) /\ Len(ptyOut') = Len(ptyOut)
      BY <3>1, <3>3
    <3>5. /\ PushingOut \in Nat /\ SendingOut \in Nat /\ Passing \in Nat
          /\ PushingOut' = PushingOut
          /\ SendingOut = 1 /\ SendingOut' = 0
          /\ Passing' = Passing
          /\ Out1' = Out1
          /\ DstOut \in Nat /\ DstOut' = DstOut
          /\ SockOut \in Nat /\ SockOut' = SockOut + 1
          /\ SrcOut \in Nat /\ SrcOut' = SrcOut
          /\ PtyOut \in Nat /\ PtyOut' = PtyOut
      BY <3>1, <3>4 DEF Out1, DstOut, SockOut, SrcOut, PtyOut, Passing, PushingOut, SendingOut
    <3>6. /\ Out1' = Out1 /\ Out2' = Out2 /\ Out3' = Out3 /\ Out4' = Out4 + 1
          /\ Out5' = Out5 /\ Out6' = Out6 /\ Out7' = Out7
      <4>1. Out1' = Out1 /\ Out2' = Out2 /\ Out3' = Out3
        BY <3>2, <3>5 DEF Out2, Out3
      <4>2. Out4' = Out4 + 1
        BY <3>2, <3>5, <4>1 DEF Out4
      <4>3. Out5' = Out5
        BY <3>2, <3>5, <4>2 DEF Out5
      <4>4. Out6' = Out6 /\ Out7' = Out7
        BY <3>2, <3>5, <4>3 DEF Out6, Out7
      <4>5. QED
        BY <4>1, <4>2, <4>3, <4>4
    <3>7. ClosedRun(sock'["gw"], Out3) /\ (msg["hc"] # Closed => UnitRun(sock'["gw"], Out3))
      <4>1. UnitRun(sock["gw"], Out3) /\ (msg["hc"] = Closed \/ msg["hc"] = Out4 + 1)
        BY <3>1, <3>3 DEF OutputOK
      <4>2. Out4 = Out3 + Len(sock["gw"])
        BY <3>2, <3>5 DEF Out3, Out4, SockOut
      <4>3. QED
        BY <3>2, <3>1, <3>3, <3>4, <4>1, <4>2, UnitAppend DEF Frag
    <3>8. QED
      BY <3>2, <3>1, <3>3, <3>5, <3>6, <3>7 DEF OutputOK, Alive
  <2>3. QED
    BY <2>1, <2>2 DEF Ends
<1>7. QED
  BY <1>2, <1>3, <1>4, <1>5, <1>6 DEF IInv

\* The peer is gone, and the task ends.
LEMMA LinkSendFailsKeeps ==
    ASSUME IInv, NEW e \in Ends, LinkSendFails(e)
    PROVE  IInv'
<1>1. TypeOK'
  BY DEF LinkSendFails, Finish, accessVars, ptyVars, IInv, TypeOK
<1>2. MoreTypes'
  BY DEF LinkSendFails, Finish, IInv, MoreTypes
<1>3. ASSUME ~Splits PROVE WholeOK'
  BY <1>3 DEF LinkSendFails, Finish, IInv, WholeOK
<1>4. ASSUME ~Splits PROVE InputOK'
  <2>1. CASE e = "gw"
    BY <1>4, <2>1 DEF LinkSendFails, Finish, ptyVars, IInv, TypeOK, Ends, InputOK, In1, In2, In3,
       In4, In5, In6, In7, PtyIn, DstIn, SockIn, SrcIn, Writing, PushingIn, SendingIn, Alive
  <2>2. CASE e = "hc"
    BY <1>4, <2>2 DEF LinkSendFails, Finish, ptyVars, IInv, TypeOK, InputOK, In1, In2, In3, In4,
       In5, In6, In7, PtyIn, DstIn, SockIn, SrcIn, Writing, PushingIn, SendingIn, Alive
  <2>3. QED
    BY <2>1, <2>2 DEF Ends
<1>5. ASSUME ~Splits PROVE OutputOK'
  <2>1. CASE e = "gw"
    BY <1>5, <2>1 DEF LinkSendFails, Finish, accessVars, IInv, TypeOK, OutputOK, Out1, Out2,
       Out3, Out4, Out5, Out6, Out7, DstOut, SockOut, SrcOut, PtyOut, Passing, PushingOut,
       SendingOut
  <2>2. CASE e = "hc"
    BY <1>5, <2>2 DEF LinkSendFails, Finish, accessVars, IInv, TypeOK, Ends, OutputOK, Out1,
       Out2, Out3, Out4, Out5, Out6, Out7, DstOut, SockOut, SrcOut, PtyOut, Passing, PushingOut,
       SendingOut
  <2>3. QED
    BY <2>1, <2>2 DEF Ends
<1>6. QED
  BY <1>1, <1>2, <1>3, <1>4, <1>5 DEF IInv

\* A frame is taken from the socket; a unit is then passed on, CLOSED ends the task.
LEMMA LinkRecvKeeps ==
    ASSUME IInv, NEW e \in Ends, LinkRecv(e)
    PROVE  IInv'
<1>1. /\ sock[e] \in Seq(Frags) /\ sock[e] # <<>> /\ sock' = [sock EXCEPT ![e] = Tail(sock[e])]
      /\ Tail(sock[e]) \in Seq(Frags) /\ Head(sock[e]) \in Frags
      /\ Weight(Tail(sock[e])) <= SockCap
      /\ Head(sock[e]).unit \in Units /\ Garbage \in Units
  <2>1. sock[e] \in Seq(Frags) /\ sock[e] # <<>> /\ sock' = [sock EXCEPT ![e] = Tail(sock[e])]
    BY DEF LinkRecv, IInv, MoreTypes
  <2>2. Tail(sock[e]) \in Seq(Frags) /\ Head(sock[e]) \in Frags
    BY <2>1
  <2>3. /\ Weight(Tail(sock[e])) <= Weight(sock[e]) /\ Weight(sock[e]) <= SockCap
        /\ Weight(Tail(sock[e])) \in Nat /\ Weight(sock[e]) \in Nat
    BY <2>1, <2>2, WeightTail, WeightNat DEF IInv, TypeOK
  <2>4. Weight(Tail(sock[e])) <= SockCap
    BY <2>3, CapAssumption
  <2>5. Head(sock[e]).unit \in Units /\ Garbage \in Units
    BY <2>2 DEF Frags, Units
  <2>6. QED
    BY <2>1, <2>2, <2>4, <2>5
<1>2. TypeOK'
  <2>1. \A d \in Ends : Weight(sock'[d]) <= SockCap
    BY <1>1 DEF IInv, TypeOK
  <2>2. /\ st' \in [Ends -> {"select", "sending", "pushing", "done"}] /\ msg' \in [Ends -> Units]
        /\ acc' \in [Ends -> Units \cup {Nothing}]
    BY <1>1 DEF LinkRecv, Misread, Deliver, Finish, IInv, TypeOK
  <2>3. QED
    BY <2>1, <2>2 DEF LinkRecv, accessVars, ptyVars, IInv, TypeOK
<1>3. MoreTypes'
  BY DEF LinkRecv, Deliver, Misread, Finish, IInv, MoreTypes
<1>4. ASSUME ~Splits PROVE WholeOK'
  <2>1. \A i \in DOMAIN Tail(sock[e]) : i + 1 \in DOMAIN sock[e] /\ Tail(sock[e])[i]
          = sock[e][i + 1]
    BY <1>1, UnitTail
  <2>2. /\ WholeOK /\ acc \in [Ends -> Units \cup {Nothing}] /\ 1 \in DOMAIN sock[e]
        /\ Head(sock[e]) = sock[e][1]
    BY <1>1, <1>4 DEF IInv, TypeOK
  <2>3. \A i \in DOMAIN Tail(sock[e]) : Tail(sock[e])[i].part = "whole"
    BY <2>1, <2>2 DEF WholeOK
  <2>4. \A d \in Ends : \A i \in DOMAIN sock'[d] : sock'[d][i].part = "whole"
    BY <1>1, <2>2, <2>3 DEF WholeOK, IInv
  <2>5. acc[e] = Nothing /\ Head(sock[e]).part = "whole"
    BY <2>2 DEF WholeOK
  <2>6. \A d \in Ends : acc'[d] = Nothing
    BY <2>2, <2>5, CapAssumption DEF LinkRecv, Deliver, Finish, WholeOK
  <2>7. QED
    BY <2>2, <2>4, <2>6 DEF LinkRecv, WholeOK
<1>5. ASSUME ~Splits PROVE InputOK'
  <2>1. CASE e = "gw"
    BY <1>5, <2>1, ZenonT(60) DEF LinkRecv, Deliver, Misread, Finish, accessVars, ptyVars, IInv, TypeOK,
       MoreTypes, Ends, InputOK, In1, In2, In3, In4, In5, In6, In7, PtyIn, DstIn, SockIn, SrcIn,
       Writing, PushingIn, SendingIn, Alive
  <2>2. CASE e = "hc"
    <3>1. /\ st["hc"] = "select" /\ sock["hc"] # <<>> /\ sock'["hc"] = Tail(sock["hc"])
          /\ \/ st'["hc"] = "done"
             \/ st'["hc"] = "pushing" /\ msg'["hc"] = Head(sock["hc"]).unit
          /\ UNCHANGED <<exited, pump, pmsg, seen, ptyIn, dst["hc"], st["gw"], msg["gw"],
                         src["gw"], typed>>
      BY <1>5, <2>2, CapAssumption DEF LinkRecv, Deliver, Misread, Finish, accessVars, ptyVars,
         IInv, TypeOK, MoreTypes, WholeOK, Ends
    <3>2. /\ In1 \in Nat /\ In2 \in Nat /\ In3 \in Nat /\ In4 \in Nat /\ In5 \in Nat
          /\ In6 \in Nat /\ In7 \in Nat
      BY InNumbers DEF IInv
    <3>3. /\ InputOK
          /\ seen \in Seq(Units) /\ ptyIn \in Seq(Units) /\ dst["hc"] \in Seq(Units)
          /\ sock["hc"] \in Seq(Frags) /\ src["gw"] \in Seq(Units)
      BY <1>5 DEF IInv, TypeOK, MoreTypes, Ends
    <3>4. /\ Len(seen) \in Nat /\ Len(ptyIn) \in Nat /\ Len(dst["hc"]) \in Nat
          /\ Len(sock["hc"]) \in Nat /\ Len(src["gw"]) \in Nat
          /\ Len(sock'["hc"]) \in Nat /\ Len(sock["hc"]) = Len(sock'["hc"]) + 1
          /\ Len(seen') = Len(seen) /\ Len(ptyIn') = Len(ptyIn)
          /\ Len(dst'["hc"]) = Len(dst["hc"]) /\ Len(src'["gw"]) = Len(src["gw"])
      BY <3>1, <3>3
    <3>5. /\ Writing \in Nat /\ PushingIn \in Nat /\ SendingIn \in Nat
          /\ Writing' = Writing
          /\ PushingIn = 0 /\ (st'["hc"] = "pushing" => PushingIn' = 1)
          /\ SendingIn' = SendingIn
          /\ In1' = In1
          /\ PtyIn \in Nat /\ PtyIn' = PtyIn
          /\ DstIn \in Nat /\ DstIn' = DstIn
          /\ SockIn \in Nat /\ SockIn' \in Nat /\ SockIn = SockIn' + 1
          /\ SrcIn \in Nat /\ SrcIn' = SrcIn
      BY <3>1, <3>4 DEF In1, PtyIn, DstIn, SockIn, SrcIn, Writing, PushingIn, SendingIn
    <3>6. /\ In1' = In1 /\ In2' = In2 /\ In3' = In3 /\ In4' = In4
          /\ st'["hc"] = "pushing" => In5' = In5 + 1 /\ In6' = In6 /\ In7' = In7
      <4>1. In1' = In1 /\ In2' = In2 /\ In3' = In3 /\ In4' = In4
        BY <3>2, <3>5 DEF In2, In3, In4
      <4>2. st'["hc"] = "pushing" =>
               In5' = In5 + 1
        BY <3>2, <3>5, <4>1 DEF In5
      <4>3. st'["hc"] = "pushing" =>
               In6' = In6
        BY <3>2, <3>5, <4>2 DEF In6
      <4>4. st'["hc"] = "pushing" =>
               In7' = In7
        BY <3>2, <3>5, <4>3 DEF In7
      <4>5. QED
        BY <4>1, <4>2, <4>3, <4>4
    <3>7. ASSUME ~exited, Alive PROVE Head(sock["hc"]).unit
            = In4 + 1 /\ UnitRun(sock'["hc"], In5 + 1)
      <4>1. UnitRun(sock["hc"], In5)
        BY <3>1, <3>3, <3>7 DEF InputOK
      <4>2. In5 = In4
        BY <3>2, <3>5 DEF In4, In5
      <4>3. QED
        BY <3>2, <3>1, <3>3, <3>4, <3>7, <4>1, <4>2, UnitTail
    <3>8. QED
      BY <3>2, <3>1, <3>3, <3>5, <3>6, <3>7 DEF InputOK, Alive
  <2>3. QED
    BY <2>1, <2>2 DEF Ends
<1>6. ASSUME ~Splits PROVE OutputOK'
  <2>1. CASE e = "gw"
    <3>1. /\ st["gw"] = "select" /\ sock["gw"] # <<>> /\ sock'["gw"] = Tail(sock["gw"])
          /\ \/ st'["gw"] = "done"
             \/ /\ st'["gw"] = "pushing" /\ msg'["gw"] = Head(sock["gw"]).unit
                /\ msg'["gw"] # Closed
          /\ UNCHANGED <<pump, pmsg, shown, dst["gw"], st["hc"], msg["hc"], src["hc"], ptyOut,
                         printed>>
      BY <1>6, <2>1, CapAssumption DEF LinkRecv, Deliver, Misread, Finish, accessVars, ptyVars,
         IInv, TypeOK, MoreTypes, WholeOK, Ends
    <3>2. /\ Out1 \in Nat /\ Out2 \in Nat /\ Out3 \in Nat /\ Out4 \in Nat /\ Out5 \in Nat
          /\ Out6 \in Nat /\ Out7 \in Nat
      BY OutNumbers DEF IInv
    <3>3. /\ OutputOK
          /\ shown \in Seq(Units) /\ dst["gw"] \in Seq(Units) /\ sock["gw"] \in Seq(Frags)
          /\ src["hc"] \in Seq(Units) /\ ptyOut \in Seq(Units)
      BY <1>6 DEF IInv, TypeOK, MoreTypes, Ends
    <3>4. /\ Len(shown) \in Nat /\ Len(dst["gw"]) \in Nat /\ Len(sock["gw"]) \in Nat
          /\ Len(src["hc"]) \in Nat /\ Len(ptyOut) \in Nat
          /\ Len(sock'["gw"]) \in Nat /\ Len(sock["gw"]) = Len(sock'["gw"]) + 1
          /\ Len(shown') = Len(shown) /\ Len(dst'["gw"]) = Len(dst["gw"])
          /\ Len(src'["hc"]) = Len(src["hc"]) /\ Len(ptyOut') = Len(ptyOut)
      BY <3>1, <3>3
    <3>5. /\ PushingOut \in Nat /\ SendingOut \in Nat /\ Passing \in Nat
          /\ PushingOut = 0 /\ (st'["gw"] = "pushing" => PushingOut' = 1)
          /\ SendingOut' = SendingOut
          /\ Passing' = Passing
          /\ Out1' = Out1
          /\ DstOut \in Nat /\ DstOut' = DstOut
          /\ SockOut \in Nat /\ SockOut' \in Nat /\ SockOut = SockOut' + 1
          /\ SrcOut \in Nat /\ SrcOut' = SrcOut
          /\ PtyOut \in Nat /\ PtyOut' = PtyOut
      BY <3>1, <3>4 DEF Out1, DstOut, SockOut, SrcOut, PtyOut, Passing, PushingOut, SendingOut
    <3>6. /\ Out1' = Out1 /\ Out2' = Out2
          /\ st'["gw"] = "pushing" => Out3' = Out3 + 1 /\ Out4' = Out4 /\ Out5' = Out5
             /\ Out6' = Out6 /\ Out7' = Out7
      <4>1. Out1' = Out1 /\ Out2' = Out2
        BY <3>2, <3>5 DEF Out2
      <4>2. st'["gw"] = "pushing" =>
               Out3' = Out3 + 1
        BY <3>2, <3>5, <4>1 DEF Out3
      <4>3. st'["gw"] = "pushing" =>
               Out4' = Out4
        BY <3>2, <3>5, <4>2 DEF Out4
      <4>4. st'["gw"] = "pushing" =>
               /\ Out5' = Out5 /\ Out6' = Out6 /\ Out7' = Out7
        BY <3>2, <3>5, <4>3 DEF Out5, Out6, Out7
      <4>5. QED
        BY <4>1, <4>2, <4>3, <4>4
    <3>7. CASE st'["gw"] = "done"
      BY <3>1, <3>3, <3>6, <3>7 DEF OutputOK
    <3>8. CASE st'["gw"] # "done"
      <4>1. st'["gw"] = "pushing" /\ msg'["gw"] = Head(sock["gw"]).unit /\ msg'["gw"] # Closed
        BY <3>1, <3>8
      <4>2. ClosedRun(sock["gw"], Out3) /\ (st["hc"] # "done" => UnitRun(sock["gw"], Out3))
        BY <3>1, <3>3, <3>8 DEF OutputOK
      <4>3. Out3 = Out2
        BY <3>2, <3>5 DEF Out3
      <4>4. /\ Head(sock["gw"]).unit \in {Out2 + 1, Closed} /\ ClosedRun(sock'["gw"], Out3 + 1)
            /\ st["hc"] # "done" => UnitRun(sock'["gw"], Out3 + 1)
        BY <3>2, <3>1, <3>3, <4>2, <4>3, UnitTail
      <4>5. msg'["gw"] = Out2 + 1
        BY <4>1, <4>4
      <4>6. QED
        BY <3>2, <3>1, <3>3, <3>5, <3>6, <3>8, <4>1, <4>4, <4>5 DEF OutputOK, Alive
    <3>9. QED
      BY <3>7, <3>8
  <2>2. CASE e = "hc"
    BY <1>6, <2>2, ZenonT(60) DEF LinkRecv, Deliver, Misread, Finish, accessVars, ptyVars, IInv, TypeOK,
       MoreTypes, Ends, OutputOK, Out1, Out2, Out3, Out4, Out5, Out6, Out7, DstOut, SockOut,
       SrcOut, PtyOut, Passing, PushingOut, SendingOut, Alive
  <2>3. QED
    BY <2>1, <2>2 DEF Ends
<1>7. QED
  BY <1>2, <1>3, <1>4, <1>5, <1>6 DEF IInv

\* The peer is gone and nothing is left to read.
LEMMA LinkEofKeeps ==
    ASSUME IInv, NEW e \in Ends, LinkEof(e)
    PROVE  IInv'
<1>1. TypeOK'
  BY DEF LinkEof, Finish, accessVars, ptyVars, IInv, TypeOK
<1>2. MoreTypes'
  BY DEF LinkEof, Finish, IInv, MoreTypes
<1>3. ASSUME ~Splits PROVE WholeOK'
  BY <1>3 DEF LinkEof, Finish, IInv, WholeOK
<1>4. ASSUME ~Splits PROVE InputOK'
  <2>1. CASE e = "gw"
    BY <1>4, <2>1 DEF LinkEof, Finish, ptyVars, IInv, TypeOK, Ends, InputOK, In1, In2, In3, In4,
       In5, In6, In7, PtyIn, DstIn, SockIn, SrcIn, Writing, PushingIn, SendingIn, Alive
  <2>2. CASE e = "hc"
    BY <1>4, <2>2 DEF LinkEof, Finish, ptyVars, IInv, TypeOK, InputOK, In1, In2, In3, In4, In5,
       In6, In7, PtyIn, DstIn, SockIn, SrcIn, Writing, PushingIn, SendingIn, Alive
  <2>3. QED
    BY <2>1, <2>2 DEF Ends
<1>5. ASSUME ~Splits PROVE OutputOK'
  <2>1. CASE e = "gw"
    BY <1>5, <2>1 DEF LinkEof, Finish, accessVars, IInv, TypeOK, OutputOK, Out1, Out2, Out3,
       Out4, Out5, Out6, Out7, DstOut, SockOut, SrcOut, PtyOut, Passing, PushingOut, SendingOut
  <2>2. CASE e = "hc"
    BY <1>5, <2>2 DEF LinkEof, Finish, accessVars, IInv, TypeOK, Ends, OutputOK, Out1, Out2,
       Out3, Out4, Out5, Out6, Out7, DstOut, SockOut, SrcOut, PtyOut, Passing, PushingOut,
       SendingOut
  <2>3. QED
    BY <2>1, <2>2 DEF Ends
<1>6. QED
  BY <1>1, <1>2, <1>3, <1>4, <1>5 DEF IInv

\* A unit is taken from the channel, to be sent.
LEMMA ChannelRecvKeeps ==
    ASSUME IInv, NEW e \in Ends, ChannelRecv(e)
    PROVE  IInv'
<1>1. TypeOK'
  BY CapAssumption DEF ChannelRecv, accessVars, ptyVars, IInv, TypeOK
<1>2. MoreTypes'
  <2>1. src[e] \in Seq(Units) /\ src[e] # <<>>
    BY DEF ChannelRecv, IInv, MoreTypes
  <2>2. Tail(src[e]) \in Seq(Units)
    BY <2>1
  <2>3. QED
    BY <2>2 DEF ChannelRecv, IInv, MoreTypes
<1>3. ASSUME ~Splits PROVE WholeOK'
  BY <1>3 DEF ChannelRecv, IInv, WholeOK
<1>4. ASSUME ~Splits PROVE InputOK'
  <2>1. CASE e = "gw"
    <3>1. /\ st["gw"] = "select" /\ st'["gw"] = "sending" /\ src["gw"] # <<>>
          /\ msg'["gw"] = Head(src["gw"]) /\ src'["gw"] = Tail(src["gw"])
          /\ UNCHANGED <<exited, pump, pmsg, seen, ptyIn, dst["hc"], st["hc"], msg["hc"],
                         sock["hc"], typed>>
      BY <1>4, <2>1 DEF ChannelRecv, accessVars, ptyVars, IInv, TypeOK, MoreTypes
    <3>2. /\ In1 \in Nat /\ In2 \in Nat /\ In3 \in Nat /\ In4 \in Nat /\ In5 \in Nat
          /\ In6 \in Nat /\ In7 \in Nat
      BY InNumbers DEF IInv
    <3>3. /\ InputOK
          /\ seen \in Seq(Units) /\ ptyIn \in Seq(Units) /\ dst["hc"] \in Seq(Units)
          /\ sock["hc"] \in Seq(Frags) /\ src["gw"] \in Seq(Units)
      BY <1>4 DEF IInv, TypeOK, MoreTypes, Ends
    <3>4. /\ Len(seen) \in Nat /\ Len(ptyIn) \in Nat /\ Len(dst["hc"]) \in Nat
          /\ Len(sock["hc"]) \in Nat /\ Len(src["gw"]) \in Nat
          /\ Len(src'["gw"]) \in Nat /\ Len(src["gw"]) = Len(src'["gw"]) + 1
          /\ Len(seen') = Len(seen) /\ Len(ptyIn') = Len(ptyIn)
          /\ Len(dst'["hc"]) = Len(dst["hc"]) /\ Len(sock'["hc"]) = Len(sock["hc"])
      BY <3>1, <3>3
    <3>5. /\ Writing \in Nat /\ PushingIn \in Nat /\ SendingIn \in Nat
          /\ Writing' = Writing
          /\ PushingIn' = PushingIn
          /\ SendingIn = 0 /\ SendingIn' = 1
          /\ In1' = In1
          /\ PtyIn \in Nat /\ PtyIn' = PtyIn
          /\ DstIn \in Nat /\ DstIn' = DstIn
          /\ SockIn \in Nat /\ SockIn' = SockIn
          /\ SrcIn \in Nat /\ SrcIn' \in Nat /\ SrcIn = SrcIn' + 1
      BY <3>1, <3>4 DEF In1, PtyIn, DstIn, SockIn, SrcIn, Writing, PushingIn, SendingIn
    <3>6. /\ In1' = In1 /\ In2' = In2 /\ In3' = In3 /\ In4' = In4
          /\ In5' = In5 /\ In6' = In6 /\ In7' = In7 + 1
      <4>1. In1' = In1 /\ In2' = In2 /\ In3' = In3 /\ In4' = In4 /\ In5' = In5 /\ In6' = In6
        BY <3>2, <3>5 DEF In2, In3, In4, In5, In6
      <4>2. In7' = In7 + 1
        BY <3>2, <3>5, <4>1 DEF In7
      <4>3. QED
        BY <4>1, <4>2
    <3>7. ASSUME ~exited, Alive, st["hc"] # "done" PROVE msg'["gw"]
            = In6 + 1 /\ IsRun(src'["gw"], In7 + 1) /\ typed = (In7 + 1) + SrcIn'
      <4>1. IsRun(src["gw"], In7) /\ typed = In7 + SrcIn
        BY <3>1, <3>3, <3>7 DEF InputOK
      <4>2. In7 = In6
        BY <3>2, <3>5 DEF In6, In7
      <4>3. typed = (In7 + 1) + SrcIn'
        BY <3>2, <3>5, <4>1
      <4>4. QED
        BY <3>2, <3>1, <3>3, <3>4, <3>7, <4>1, <4>2, <4>3, RunTail
    <3>8. QED
      BY <3>2, <3>1, <3>3, <3>5, <3>6, <3>7 DEF InputOK, Alive
  <2>2. CASE e = "hc"
    BY <1>4, <2>2 DEF ChannelRecv, accessVars, ptyVars, IInv, TypeOK, MoreTypes, Ends, InputOK,
       In1, In2, In3, In4, In5, In6, In7, PtyIn, DstIn, SockIn, SrcIn, Writing, PushingIn,
       SendingIn, Alive
  <2>3. QED
    BY <2>1, <2>2 DEF Ends
<1>5. ASSUME ~Splits PROVE OutputOK'
  <2>1. CASE e = "gw"
    BY <1>5, <2>1 DEF ChannelRecv, accessVars, ptyVars, IInv, TypeOK, MoreTypes, Ends, OutputOK,
       Out1, Out2, Out3, Out4, Out5, Out6, Out7, DstOut, SockOut, SrcOut, PtyOut, Passing,
       PushingOut, SendingOut, Alive
  <2>2. CASE e = "hc"
    <3>1. /\ st["hc"] = "select" /\ st'["hc"] = "sending" /\ src["hc"] # <<>>
          /\ msg'["hc"] = Head(src["hc"]) /\ src'["hc"] = Tail(src["hc"])
          /\ UNCHANGED <<pump, pmsg, shown, dst["gw"], st["gw"], msg["gw"], sock["gw"], ptyOut,
                         printed>>
      BY <1>5, <2>2 DEF ChannelRecv, accessVars, ptyVars, IInv, TypeOK, MoreTypes
    <3>2. /\ Out1 \in Nat /\ Out2 \in Nat /\ Out3 \in Nat /\ Out4 \in Nat /\ Out5 \in Nat
          /\ Out6 \in Nat /\ Out7 \in Nat
      BY OutNumbers DEF IInv
    <3>3. /\ OutputOK
          /\ shown \in Seq(Units) /\ dst["gw"] \in Seq(Units) /\ sock["gw"] \in Seq(Frags)
          /\ src["hc"] \in Seq(Units) /\ ptyOut \in Seq(Units)
      BY <1>5 DEF IInv, TypeOK, MoreTypes, Ends
    <3>4. /\ Len(shown) \in Nat /\ Len(dst["gw"]) \in Nat /\ Len(sock["gw"]) \in Nat
          /\ Len(src["hc"]) \in Nat /\ Len(ptyOut) \in Nat
          /\ Len(src'["hc"]) \in Nat /\ Len(src["hc"]) = Len(src'["hc"]) + 1
          /\ Len(shown') = Len(shown) /\ Len(dst'["gw"]) = Len(dst["gw"])
          /\ Len(sock'["gw"]) = Len(sock["gw"]) /\ Len(ptyOut') = Len(ptyOut)
      BY <3>1, <3>3
    <3>5. /\ PushingOut \in Nat /\ SendingOut \in Nat /\ Passing \in Nat
          /\ PushingOut' = PushingOut
          /\ SendingOut = 0 /\ SendingOut' = 1
          /\ Passing' = Passing
          /\ Out1' = Out1
          /\ DstOut \in Nat /\ DstOut' = DstOut
          /\ SockOut \in Nat /\ SockOut' = SockOut
          /\ SrcOut \in Nat /\ SrcOut' \in Nat /\ SrcOut = SrcOut' + 1
          /\ PtyOut \in Nat /\ PtyOut' = PtyOut
      BY <3>1, <3>4 DEF Out1, DstOut, SockOut, SrcOut, PtyOut, Passing, PushingOut, SendingOut
    <3>6. /\ Out1' = Out1 /\ Out2' = Out2 /\ Out3' = Out3 /\ Out4' = Out4
          /\ Out5' = Out5 + 1 /\ Out6' = Out6 /\ Out7' = Out7
      <4>1. Out1' = Out1 /\ Out2' = Out2 /\ Out3' = Out3 /\ Out4' = Out4
        BY <3>2, <3>5 DEF Out2, Out3, Out4
      <4>2. Out5' = Out5 + 1
        BY <3>2, <3>5, <4>1 DEF Out5
      <4>3. Out6' = Out6
        BY <3>2, <3>5, <4>2 DEF Out6
      <4>4. Out7' = Out7
        BY <3>2, <3>5, <4>3 DEF Out7
      <4>5. QED
        BY <4>1, <4>2, <4>3, <4>4
    <3>7. ASSUME st["gw"] # "done" PROVE msg'["hc"] = Out4 + 1 /\ IsRun(src'["hc"], Out5 + 1)
      <4>1. IsRun(src["hc"], Out5)
        BY <3>1, <3>3, <3>7 DEF OutputOK
      <4>2. Out5 = Out4
        BY <3>2, <3>5 DEF Out4, Out5
      <4>3. QED
        BY <3>2, <3>1, <3>3, <3>4, <3>7, <4>1, <4>2, RunTail
    <3>8. QED
      BY <3>2, <3>1, <3>3, <3>5, <3>6, <3>7 DEF OutputOK, Alive
  <2>3. QED
    BY <2>1, <2>2 DEF Ends
<1>6. QED
  BY <1>1, <1>2, <1>3, <1>4, <1>5 DEF IInv

\* The channel has no sender any more: handle_conn announces the end.
LEMMA ChannelClosedKeeps ==
    ASSUME IInv, NEW e \in Ends, ChannelClosed(e)
    PROVE  IInv'
<1>1. TypeOK'
  <2>1. CASE e = "gw"
    BY <2>1 DEF ChannelClosed, Finish, accessVars, ptyVars, IInv, TypeOK
  <2>2. CASE e # "gw"
    <3>1. Closed \in Units
      BY DEF Closed, Units
    <3>2. /\ msg' = [msg EXCEPT ![e] = Closed] /\ half' = [half EXCEPT ![e] = FALSE]
          /\ st' = [st EXCEPT ![e] = "sending"] /\ acc' = [acc EXCEPT ![e] = Nothing]
      BY <2>2 DEF ChannelClosed
    <3>3. msg' \in [Ends -> Units]
      BY <3>1, <3>2 DEF IInv, TypeOK
    <3>4. half' \in [Ends -> BOOLEAN]
      BY <3>2 DEF IInv, TypeOK
    <3>5. QED
      BY <3>2, <3>3, <3>4 DEF ChannelClosed, accessVars, ptyVars, IInv, TypeOK
  <2>3. QED
    BY <2>1, <2>2
<1>2. MoreTypes'
  BY DEF ChannelClosed, SourceGone, Finish, IInv, MoreTypes
<1>3. ASSUME ~Splits PROVE WholeOK'
  BY <1>3 DEF ChannelClosed, SourceGone, Finish, IInv, TypeOK, WholeOK
<1>4. ASSUME ~Splits PROVE InputOK'
  <2>1. CASE e = "gw"
    BY <1>4, <2>1 DEF ChannelClosed, SourceGone, Finish, ptyVars, IInv, TypeOK, Ends, InputOK,
       In1, In2, In3, In4, In5, In6, In7, PtyIn, DstIn, SockIn, SrcIn, Writing, PushingIn,
       SendingIn, Alive
  <2>2. CASE e = "hc"
    BY <1>4, <2>2 DEF ChannelClosed, SourceGone, Finish, ptyVars, IInv, InputOK, In1, In2, In3,
       In4, In5, In6, In7, PtyIn, DstIn, SockIn, SrcIn, Writing, PushingIn, SendingIn
  <2>3. QED
    BY <2>1, <2>2 DEF Ends
<1>5. ASSUME ~Splits PROVE OutputOK'
  <2>1. CASE e = "gw"
    BY <1>5, <2>1 DEF ChannelClosed, SourceGone, Finish, accessVars, IInv, TypeOK, OutputOK,
       Out1, Out2, Out3, Out4, Out5, Out6, Out7, DstOut, SockOut, SrcOut, PtyOut, Passing,
       PushingOut, SendingOut, Closed
  <2>2. CASE e = "hc"
    <3>1. /\ st["hc"] = "select" /\ st'["hc"] = "sending" /\ src["hc"] = <<>> /\ pump = "dead"
          /\ msg'["hc"] = Closed
          /\ UNCHANGED <<pump, pmsg, shown, dst["gw"], st["gw"], msg["gw"], sock["gw"],
                         src["hc"], ptyOut, printed>>
      BY <1>5, <2>2 DEF ChannelClosed, SourceGone, Finish, accessVars, ptyVars, IInv, TypeOK, Ends
    <3>2. /\ Out1 \in Nat /\ Out2 \in Nat /\ Out3 \in Nat /\ Out4 \in Nat /\ Out5 \in Nat
          /\ Out6 \in Nat /\ Out7 \in Nat
      BY OutNumbers DEF IInv
    <3>3. /\ OutputOK
          /\ shown \in Seq(Units) /\ dst["gw"] \in Seq(Units) /\ sock["gw"] \in Seq(Frags)
          /\ src["hc"] \in Seq(Units) /\ ptyOut \in Seq(Units)
      BY <1>5 DEF IInv, TypeOK, MoreTypes, Ends
    <3>4. /\ Len(shown) \in Nat /\ Len(dst["gw"]) \in Nat /\ Len(sock["gw"]) \in Nat
          /\ Len(src["hc"]) \in Nat /\ Len(ptyOut) \in Nat
          /\ Len(shown') = Len(shown) /\ Len(dst'["gw"]) = Len(dst["gw"])
          /\ Len(sock'["gw"]) = Len(sock["gw"]) /\ Len(src'["hc"]) = Len(src["hc"])
          /\ Len(ptyOut') = Len(ptyOut)
      BY <3>1, <3>3
    <3>5. /\ PushingOut \in Nat /\ SendingOut \in Nat /\ Passing \in Nat
          /\ PushingOut' = PushingOut
          /\ SendingOut = 0 /\ SendingOut' = 1
          /\ Passing' = Passing
          /\ Out1' = Out1
          /\ DstOut \in Nat /\ DstOut' = DstOut
          /\ SockOut \in Nat /\ SockOut' = SockOut
          /\ SrcOut \in Nat /\ SrcOut' = SrcOut
          /\ PtyOut \in Nat /\ PtyOut' = PtyOut
      BY <3>1, <3>4 DEF Out1, DstOut, SockOut, SrcOut, PtyOut, Passing, PushingOut, SendingOut
    <3>6. /\ Out1' = Out1 /\ Out2' = Out2 /\ Out3' = Out3 /\ Out4' = Out4
          /\ Out5' = Out5 + 1 /\ Out6' = Out6 + 1 /\ Out7' = Out7 + 1
      <4>1. Out1' = Out1 /\ Out2' = Out2 /\ Out3' = Out3 /\ Out4' = Out4
        BY <3>2, <3>5 DEF Out2, Out3, Out4
      <4>2. Out5' = Out5 + 1
        BY <3>2, <3>5, <4>1 DEF Out5
      <4>3. Out6' = Out6 + 1
        BY <3>2, <3>5, <4>2 DEF Out6
      <4>4. Out7' = Out7 + 1
        BY <3>2, <3>5, <4>3 DEF Out7
      <4>5. QED
        BY <4>1, <4>2, <4>3, <4>4
    <3>7. IsRun(src["hc"], Out5 + 1)
      <4>1. src["hc"] = <<>>
        BY <3>1, <3>3 DEF OutputOK
      <4>2. QED
        BY <3>2, <3>1, <3>3, <3>4, <4>1 DEF IsRun
    <3>8. QED
      BY <3>2, <3>1, <3>3, <3>5, <3>6, <3>7 DEF OutputOK, Alive
  <2>3. QED
    BY <2>1, <2>2 DEF Ends
<1>6. QED
  BY <1>1, <1>2, <1>3, <1>4, <1>5 DEF IInv

\* A unit goes into the channel.
LEMMA PushKeeps ==
    ASSUME IInv, NEW e \in Ends, Push(e)
    PROVE  IInv'
<1>1. TypeOK'
  BY CapAssumption DEF Push, SinkGone, accessVars, ptyVars, IInv, TypeOK
<1>2. MoreTypes'
  BY DEF Push, SinkGone, IInv, TypeOK, MoreTypes
<1>3. ASSUME ~Splits PROVE WholeOK'
  BY <1>3 DEF Push, SinkGone, IInv, WholeOK
<1>4. ASSUME ~Splits PROVE InputOK'
  <2>1. CASE e = "gw"
    BY <1>4, <2>1 DEF Push, SinkGone, accessVars, ptyVars, IInv, TypeOK, MoreTypes, Ends,
       InputOK, In1, In2, In3, In4, In5, In6, In7, PtyIn, DstIn, SockIn, SrcIn, Writing,
       PushingIn, SendingIn, Alive
  <2>2. CASE e = "hc"
    <3>1. /\ st["hc"] = "pushing" /\ st'["hc"] = "select"
          /\ dst'["hc"] = Append(dst["hc"], msg["hc"])
          /\ UNCHANGED <<exited, pump, pmsg, seen, ptyIn, msg["hc"], sock["hc"], st["gw"],
                         msg["gw"], src["gw"], typed>>
      BY <1>4, <2>2 DEF Push, SinkGone, accessVars, ptyVars, IInv, TypeOK, MoreTypes
    <3>2. /\ In1 \in Nat /\ In2 \in Nat /\ In3 \in Nat /\ In4 \in Nat /\ In5 \in Nat
          /\ In6 \in Nat /\ In7 \in Nat
      BY InNumbers DEF IInv
    <3>3. /\ InputOK
          /\ seen \in Seq(Units) /\ ptyIn \in Seq(Units) /\ dst["hc"] \in Seq(Units)
          /\ sock["hc"] \in Seq(Frags) /\ src["gw"] \in Seq(Units)
      BY <1>4 DEF IInv, TypeOK, MoreTypes, Ends
    <3>4. /\ Len(seen) \in Nat /\ Len(ptyIn) \in Nat /\ Len(dst["hc"]) \in Nat
          /\ Len(sock["hc"]) \in Nat /\ Len(src["gw"]) \in Nat
          /\ Len(dst'["hc"]) = Len(dst["hc"]) + 1
          /\ Len(seen') = Len(seen) /\ Len(ptyIn') = Len(ptyIn)
          /\ Len(sock'["hc"]) = Len(sock["hc"]) /\ Len(src'["gw"]) = Len(src["gw"])
      BY <3>1, <3>3
    <3>5. /\ Writing \in Nat /\ PushingIn \in Nat /\ SendingIn \in Nat
          /\ Writing' = Writing
          /\ PushingIn = 1 /\ PushingIn' = 0
          /\ SendingIn' = SendingIn
          /\ In1' = In1
          /\ PtyIn \in Nat /\ PtyIn' = PtyIn
          /\ DstIn \in Nat /\ DstIn' = DstIn + 1
          /\ SockIn \in Nat /\ SockIn' = SockIn
          /\ SrcIn \in Nat /\ SrcIn' = SrcIn
      BY <3>1, <3>4 DEF In1, PtyIn, DstIn, SockIn, SrcIn, Writing, PushingIn, SendingIn
    <3>6. /\ In1' = In1 /\ In2' = In2 /\ In3' = In3 /\ In4' = In4 + 1
          /\ In5' = In5 /\ In6' = In6 /\ In7' = In7
      <4>1. In1' = In1 /\ In2' = In2 /\ In3' = In3
        BY <3>2, <3>5 DEF In2, In3
      <4>2. In4' = In4 + 1
        BY <3>2, <3>5, <4>1 DEF In4
      <4>3. In5' = In5
        BY <3>2, <3>5, <4>2 DEF In5
      <4>4. In6' = In6 /\ In7' = In7
        BY <3>2, <3>5, <4>3 DEF In6, In7
      <4>5. QED
        BY <4>1, <4>2, <4>3, <4>4
    <3>7. ASSUME ~exited, Alive PROVE IsRun(dst'["hc"], In3)
      <4>1. IsRun(dst["hc"], In3) /\ msg["hc"] = In4 + 1
        BY <3>1, <3>3, <3>7 DEF InputOK
      <4>2. In4 = In3 + Len(dst["hc"])
        BY <3>2, <3>5 DEF In3, In4, DstIn
      <4>3. QED
        BY <3>2, <3>1, <3>3, <3>4, <3>7, <4>1, <4>2, RunAppend
    <3>8. QED
      BY <3>2, <3>1, <3>3, <3>5, <3>6, <3>7 DEF InputOK, Alive
  <2>3. QED
    BY <2>1, <2>2 DEF Ends
<1>5. ASSUME ~Splits PROVE OutputOK'
  <2>1. CASE e = "gw"
    <3>1. /\ st["gw"] = "pushing" /\ st'["gw"] = "select"
          /\ dst'["gw"] = Append(dst["gw"], msg["gw"])
          /\ UNCHANGED <<pump, pmsg, shown, msg["gw"], sock["gw"], st["hc"], msg["hc"],
                         src["hc"], ptyOut, printed>>
      BY <1>5, <2>1 DEF Push, SinkGone, accessVars, ptyVars, IInv, TypeOK, MoreTypes
    <3>2. /\ Out1 \in Nat /\ Out2 \in Nat /\ Out3 \in Nat /\ Out4 \in Nat /\ Out5 \in Nat
          /\ Out6 \in Nat /\ Out7 \in Nat
      BY OutNumbers DEF IInv
    <3>3. /\ OutputOK
          /\ shown \in Seq(Units) /\ dst["gw"] \in Seq(Units) /\ sock["gw"] \in Seq(Frags)
          /\ src["hc"] \in Seq(Units) /\ ptyOut \in Seq(Units)
      BY <1>5 DEF IInv, TypeOK, MoreTypes, Ends
    <3>4. /\ Len(shown) \in Nat /\ Len(dst["gw"]) \in Nat /\ Len(sock["gw"]) \in Nat
          /\ Len(src["hc"]) \in Nat /\ Len(ptyOut) \in Nat
          /\ Len(dst'["gw"]) = Len(dst["gw"]) + 1
          /\ Len(shown') = Len(shown) /\ Len(sock'["gw"]) = Len(sock["gw"])
          /\ Len(src'["hc"]) = Len(src["hc"]) /\ Len(ptyOut') = Len(ptyOut)
      BY <3>1, <3>3
    <3>5. /\ PushingOut \in Nat /\ SendingOut \in Nat /\ Passing \in Nat
          /\ PushingOut = 1 /\ PushingOut' = 0
          /\ SendingOut' = SendingOut
          /\ Passing' = Passing
          /\ Out1' = Out1
          /\ DstOut \in Nat /\ DstOut' = DstOut + 1
          /\ SockOut \in Nat /\ SockOut' = SockOut
          /\ SrcOut \in Nat /\ SrcOut' = SrcOut
          /\ PtyOut \in Nat /\ PtyOut' = PtyOut
      BY <3>1, <3>4 DEF Out1, DstOut, SockOut, SrcOut, PtyOut, Passing, PushingOut, SendingOut
    <3>6. /\ Out1' = Out1 /\ Out2' = Out2 + 1 /\ Out3' = Out3 /\ Out4' = Out4
          /\ Out5' = Out5 /\ Out6' = Out6 /\ Out7' = Out7
      <4>1. Out1' = Out1
        BY <3>2, <3>5
      <4>2. Out2' = Out2 + 1
        BY <3>2, <3>5, <4>1 DEF Out2
      <4>3. Out3' = Out3
        BY <3>2, <3>5, <4>2 DEF Out3
      <4>4. Out4' = Out4 /\ Out5' = Out5 /\ Out6' = Out6 /\ Out7' = Out7
        BY <3>2, <3>5, <4>3 DEF Out4, Out5, Out6, Out7
      <4>5. QED
        BY <4>1, <4>2, <4>3, <4>4
    <3>7. IsRun(dst'["gw"], Out1)
      <4>1. IsRun(dst["gw"], Out1) /\ msg["gw"] = Out2 + 1
        BY <3>1, <3>3 DEF OutputOK
      <4>2. Out2 = Out1 + Len(dst["gw"])
        BY <3>2, <3>5 DEF Out1, Out2, DstOut
      <4>3. QED
        BY <3>2, <3>1, <3>3, <3>4, <4>1, <4>2, RunAppend
    <3>8. QED
      BY <3>2, <3>1, <3>3, <3>5, <3>6, <3>7 DEF OutputOK, Alive
  <2>2. CASE e = "hc"
    BY <1>5, <2>2 DEF Push, SinkGone, accessVars, ptyVars, IInv, TypeOK, MoreTypes, Ends,
       OutputOK, Out1, Out2, Out3, Out4, Out5, Out6, Out7, DstOut, SockOut, SrcOut, PtyOut,
       Passing, PushingOut, SendingOut, Alive
  <2>3. QED
    BY <2>1, <2>2 DEF Ends
<1>6. QED
  BY <1>1, <1>2, <1>3, <1>4, <1>5 DEF IInv

\* Its receiver is gone.
LEMMA PushFailsKeeps ==
    ASSUME IInv, NEW e \in Ends, PushFails(e)
    PROVE  IInv'
<1>1. TypeOK'
  BY DEF PushFails, SinkGone, Finish, accessVars, ptyVars, IInv, TypeOK
<1>2. MoreTypes'
  BY DEF PushFails, SinkGone, Finish, IInv, MoreTypes
<1>3. ASSUME ~Splits PROVE WholeOK'
  BY <1>3 DEF PushFails, SinkGone, Finish, IInv, WholeOK
<1>4. ASSUME ~Splits PROVE InputOK'
  <2>1. CASE e = "gw"
    BY <1>4, <2>1 DEF PushFails, SinkGone, Finish, ptyVars, IInv, TypeOK, Ends, InputOK, In1,
       In2, In3, In4, In5, In6, In7, PtyIn, DstIn, SockIn, SrcIn, Writing, PushingIn, SendingIn,
       Alive
  <2>2. CASE e = "hc"
    BY <1>4, <2>2 DEF PushFails, SinkGone, Finish, ptyVars, IInv, InputOK, In1, In2, In3, In4,
       In5, In6, In7, PtyIn, DstIn, SockIn, SrcIn, Writing, PushingIn, SendingIn
  <2>3. QED
    BY <2>1, <2>2 DEF Ends
<1>5. ASSUME ~Splits PROVE OutputOK'
  <2>1. CASE e = "gw"
    BY <1>5, <2>1 DEF PushFails, SinkGone, Finish, accessVars, IInv, TypeOK, OutputOK, Out1,
       Out2, Out3, Out4, Out5, Out6, Out7, DstOut, SockOut, SrcOut, PtyOut, Passing, PushingOut,
       SendingOut
  <2>2. CASE e = "hc"
    BY <1>5, <2>2 DEF PushFails, SinkGone, Finish, accessVars, IInv, TypeOK, Ends, OutputOK,
       Out1, Out2, Out3, Out4, Out5, Out6, Out7, DstOut, SockOut, SrcOut, PtyOut, Passing,
       PushingOut, SendingOut
  <2>3. QED
    BY <2>1, <2>2 DEF Ends
<1>6. QED
  BY <1>1, <1>2, <1>3, <1>4, <1>5 DEF IInv

\* The pump takes a unit typed,
LEMMA PumpInputKeeps ==
    ASSUME IInv, PumpInput
    PROVE  IInv'
<1>1. TypeOK'
  BY CapAssumption DEF PumpInput, accessVars, endVars, ptyVars, IInv, TypeOK, Ends
<1>2. MoreTypes'
  BY DEF PumpInput, endVars, IInv, MoreTypes, Ends
<1>3. ASSUME ~Splits PROVE WholeOK'
  BY <1>3 DEF PumpInput, endVars, IInv, WholeOK
<1>4. ASSUME ~Splits PROVE InputOK'
  <2>1. /\ pump = "select" /\ pump' = "writing" /\ dst["hc"] # <<>>
        /\ pmsg' = Head(dst["hc"]) /\ dst'["hc"] = Tail(dst["hc"])
        /\ UNCHANGED <<exited, seen, ptyIn, st["hc"], msg["hc"], sock["hc"], st["gw"], msg["gw"],
                       src["gw"], typed>>
    BY <1>4 DEF PumpInput, accessVars, endVars, ptyVars, IInv, MoreTypes, Ends
  <2>2. /\ In1 \in Nat /\ In2 \in Nat /\ In3 \in Nat /\ In4 \in Nat /\ In5 \in Nat
        /\ In6 \in Nat /\ In7 \in Nat
    BY InNumbers DEF IInv
  <2>3. /\ InputOK
        /\ seen \in Seq(Units) /\ ptyIn \in Seq(Units) /\ dst["hc"] \in Seq(Units)
        /\ sock["hc"] \in Seq(Frags) /\ src["gw"] \in Seq(Units)
    BY <1>4 DEF IInv, TypeOK, MoreTypes, Ends
  <2>4. /\ Len(seen) \in Nat /\ Len(ptyIn) \in Nat /\ Len(dst["hc"]) \in Nat
        /\ Len(sock["hc"]) \in Nat /\ Len(src["gw"]) \in Nat
        /\ Len(dst'["hc"]) \in Nat /\ Len(dst["hc"]) = Len(dst'["hc"]) + 1
        /\ Len(seen') = Len(seen) /\ Len(ptyIn') = Len(ptyIn)
        /\ Len(sock'["hc"]) = Len(sock["hc"]) /\ Len(src'["gw"]) = Len(src["gw"])
    BY <2>1, <2>3
  <2>5. /\ Writing \in Nat /\ PushingIn \in Nat /\ SendingIn \in Nat
        /\ Writing = 0 /\ Writing' = 1
        /\ PushingIn' = PushingIn
        /\ SendingIn' = SendingIn
        /\ In1' = In1
        /\ PtyIn \in Nat /\ PtyIn' = PtyIn
        /\ DstIn \in Nat /\ DstIn' \in Nat /\ DstIn = DstIn' + 1
        /\ SockIn \in Nat /\ SockIn' = SockIn
        /\ SrcIn \in Nat /\ SrcIn' = SrcIn
    BY <2>1, <2>4 DEF In1, PtyIn, DstIn, SockIn, SrcIn, Writing, PushingIn, SendingIn
  <2>6. /\ In1' = In1 /\ In2' = In2 /\ In3' = In3 + 1 /\ In4' = In4
        /\ In5' = In5 /\ In6' = In6 /\ In7' = In7
    <3>1. In1' = In1 /\ In2' = In2
      BY <2>2, <2>5 DEF In2
    <3>2. In3' = In3 + 1
      BY <2>2, <2>5, <3>1 DEF In3
    <3>3. In4' = In4
      BY <2>2, <2>5, <3>2 DEF In4
    <3>4. In5' = In5 /\ In6' = In6 /\ In7' = In7
      BY <2>2, <2>5, <3>3 DEF In5, In6, In7
    <3>5. QED
      BY <3>1, <3>2, <3>3, <3>4
  <2>7. ASSUME ~exited PROVE pmsg' = In2 + 1 /\ IsRun(dst'["hc"], In3 + 1)
    <3>1. IsRun(dst["hc"], In3)
      BY <2>1, <2>3, <2>7 DEF InputOK, Alive
    <3>2. In3 = In2
      BY <2>2, <2>5 DEF In2, In3
    <3>3. QED
      BY <2>2, <2>1, <2>3, <2>4, <2>7, <3>1, <3>2, RunTail
  <2>8. QED
    BY <2>2, <2>1, <2>3, <2>5, <2>6, <2>7 DEF InputOK, Alive
<1>5. ASSUME ~Splits PROVE OutputOK'
  BY <1>5 DEF PumpInput, accessVars, endVars, ptyVars, IInv, MoreTypes, Ends, OutputOK, Out1,
     Out2, Out3, Out4, Out5, Out6, Out7, DstOut, SockOut, SrcOut, PtyOut, Passing, PushingOut,
     SendingOut, Alive
<1>6. QED
  BY <1>1, <1>2, <1>3, <1>4, <1>5 DEF IInv

\* and writes it to the PTY.
LEMMA PumpWriteKeeps ==
    ASSUME IInv, PumpWrite
    PROVE  IInv'
<1>1. TypeOK'
  <2>1. CASE Len(ptyIn) < PtyCap /\ ptyIn' = Append(ptyIn, pmsg)
    <3>1. ptyIn' \in Seq(Units) /\ Len(ptyIn') = Len(ptyIn) + 1 /\ Len(ptyIn) \in Nat
      BY <2>1 DEF IInv, TypeOK
    <3>2. Len(ptyIn') <= PtyCap
      BY <2>1, <3>1, CapAssumption
    <3>3. QED
      BY <3>1, <3>2 DEF PumpWrite, accessVars, endVars, IInv, TypeOK
  <2>2. CASE UNCHANGED ptyIn
    BY <2>2 DEF PumpWrite, accessVars, endVars, IInv, TypeOK
  <2>3. QED
    BY <2>1, <2>2 DEF PumpWrite
<1>2. MoreTypes'
  BY DEF PumpWrite, endVars, IInv, MoreTypes
<1>3. ASSUME ~Splits PROVE WholeOK'
  BY <1>3 DEF PumpWrite, endVars, IInv, WholeOK
<1>4. ASSUME ~Splits PROVE InputOK'
  <2>1. CASE ~exited
    <3>1. /\ pump = "writing" /\ pump' = "select" /\ ptyIn' = Append(ptyIn, pmsg)
          /\ UNCHANGED <<exited, pmsg, seen, dst["hc"], st["hc"], msg["hc"], sock["hc"],
                         st["gw"], msg["gw"], src["gw"], typed>>
      BY <1>4, <2>1 DEF PumpWrite, accessVars, endVars, IInv
    <3>2. /\ In1 \in Nat /\ In2 \in Nat /\ In3 \in Nat /\ In4 \in Nat /\ In5 \in Nat
          /\ In6 \in Nat /\ In7 \in Nat
      BY InNumbers DEF IInv
    <3>3. /\ InputOK
          /\ seen \in Seq(Units) /\ ptyIn \in Seq(Units) /\ dst["hc"] \in Seq(Units)
          /\ sock["hc"] \in Seq(Frags) /\ src["gw"] \in Seq(Units)
      BY <1>4 DEF IInv, TypeOK, MoreTypes, Ends
    <3>4. /\ Len(seen) \in Nat /\ Len(ptyIn) \in Nat /\ Len(dst["hc"]) \in Nat
          /\ Len(sock["hc"]) \in Nat /\ Len(src["gw"]) \in Nat
          /\ Len(ptyIn') = Len(ptyIn) + 1
          /\ Len(seen') = Len(seen) /\ Len(dst'["hc"]) = Len(dst["hc"])
          /\ Len(sock'["hc"]) = Len(sock["hc"]) /\ Len(src'["gw"]) = Len(src["gw"])
      BY <3>1, <3>3
    <3>5. /\ Writing \in Nat /\ PushingIn \in Nat /\ SendingIn \in Nat
          /\ Writing = 1 /\ Writing' = 0
          /\ PushingIn' = PushingIn
          /\ SendingIn' = SendingIn
          /\ In1' = In1
          /\ PtyIn \in Nat /\ PtyIn' = PtyIn + 1
          /\ DstIn \in Nat /\ DstIn' = DstIn
          /\ SockIn \in Nat /\ SockIn' = SockIn
          /\ SrcIn \in Nat /\ SrcIn' = SrcIn
      BY <3>1, <3>4 DEF In1, PtyIn, DstIn, SockIn, SrcIn, Writing, PushingIn, SendingIn
    <3>6. /\ In1' = In1 /\ In2' = In2 + 1 /\ In3' = In3 /\ In4' = In4
          /\ In5' = In5 /\ In6' = In6 /\ In7' = In7
      <4>1. In1' = In1
        BY <3>2, <3>5
      <4>2. In2' = In2 + 1
        BY <3>2, <3>5, <4>1 DEF In2
      <4>3. In3' = In3
        BY <3>2, <3>5, <4>2 DEF In3
      <4>4. In4' = In4 /\ In5' = In5 /\ In6' = In6 /\ In7' = In7
        BY <3>2, <3>5, <4>3 DEF In4, In5, In6, In7
      <4>5. QED
        BY <4>1, <4>2, <4>3, <4>4
    <3>7. IsRun(ptyIn', In1)
      <4>1. IsRun(ptyIn, In1) /\ pmsg = In2 + 1
        BY <2>1, <3>1, <3>3 DEF InputOK, Alive
      <4>2. In2 = In1 + Len(ptyIn)
        BY <3>2, <3>5 DEF In1, In2, PtyIn
      <4>3. QED
        BY <3>2, <3>1, <3>3, <3>4, <4>1, <4>2, RunAppend
    <3>8. QED
      BY <2>1, <3>2, <3>1, <3>3, <3>5, <3>6, <3>7 DEF InputOK, Alive
  <2>2. CASE exited
    BY <1>4, <2>2 DEF PumpWrite, IInv, InputOK
  <2>3. QED
    BY <2>1, <2>2
<1>5. ASSUME ~Splits PROVE OutputOK'
  BY <1>5 DEF PumpWrite, accessVars, endVars, IInv, OutputOK, Out1, Out2, Out3, Out4, Out5, Out6,
     Out7, DstOut, SockOut, SrcOut, PtyOut, Passing, PushingOut, SendingOut, Alive
<1>6. QED
  BY <1>1, <1>2, <1>3, <1>4, <1>5 DEF IInv

\* The pump takes a unit printed,
LEMMA PumpReadKeeps ==
    ASSUME IInv, PumpRead
    PROVE  IInv'
<1>1. TypeOK'
  BY CapAssumption DEF PumpRead, accessVars, endVars, IInv, TypeOK
<1>2. MoreTypes'
  BY DEF PumpRead, endVars, IInv, MoreTypes
<1>3. ASSUME ~Splits PROVE WholeOK'
  BY <1>3 DEF PumpRead, endVars, IInv, WholeOK
<1>4. ASSUME ~Splits PROVE InputOK'
  BY <1>4 DEF PumpRead, accessVars, endVars, IInv, InputOK, In1, In2, In3, In4, In5, In6, In7,
     PtyIn, DstIn, SockIn, SrcIn, Writing, PushingIn, SendingIn, Alive
<1>5. ASSUME ~Splits PROVE OutputOK'
  <2>1. /\ pump = "select" /\ pump' = "pushing" /\ ptyOut # <<>> /\ pmsg' = Head(ptyOut)
        /\ ptyOut' = Tail(ptyOut)
        /\ UNCHANGED <<shown, dst["gw"], st["gw"], msg["gw"], sock["gw"], st["hc"], msg["hc"],
                       src["hc"], printed>>
    BY <1>5 DEF PumpRead, accessVars, endVars, IInv
  <2>2. /\ Out1 \in Nat /\ Out2 \in Nat /\ Out3 \in Nat /\ Out4 \in Nat /\ Out5 \in Nat
        /\ Out6 \in Nat /\ Out7 \in Nat
    BY OutNumbers DEF IInv
  <2>3. /\ OutputOK
        /\ shown \in Seq(Units) /\ dst["gw"] \in Seq(Units) /\ sock["gw"] \in Seq(Frags)
        /\ src["hc"] \in Seq(Units) /\ ptyOut \in Seq(Units)
    BY <1>5 DEF IInv, TypeOK, MoreTypes, Ends
  <2>4. /\ Len(shown) \in Nat /\ Len(dst["gw"]) \in Nat /\ Len(sock["gw"]) \in Nat
        /\ Len(src["hc"]) \in Nat /\ Len(ptyOut) \in Nat
        /\ Len(ptyOut') \in Nat /\ Len(ptyOut) = Len(ptyOut') + 1
        /\ Len(shown') = Len(shown) /\ Len(dst'["gw"]) = Len(dst["gw"])
        /\ Len(sock'["gw"]) = Len(sock["gw"]) /\ Len(src'["hc"]) = Len(src["hc"])
    BY <2>1, <2>3
  <2>5. /\ PushingOut \in Nat /\ SendingOut \in Nat /\ Passing \in Nat
        /\ PushingOut' = PushingOut
        /\ SendingOut' = SendingOut
        /\ Passing = 0 /\ Passing' = 1
        /\ Out1' = Out1
        /\ DstOut \in Nat /\ DstOut' = DstOut
        /\ SockOut \in Nat /\ SockOut' = SockOut
        /\ SrcOut \in Nat /\ SrcOut' = SrcOut
        /\ PtyOut \in Nat /\ PtyOut' \in Nat /\ PtyOut = PtyOut' + 1
    BY <2>1, <2>4 DEF Out1, DstOut, SockOut, SrcOut, PtyOut, Passing, PushingOut, SendingOut
  <2>6. /\ Out1' = Out1 /\ Out2' = Out2 /\ Out3' = Out3 /\ Out4' = Out4
        /\ Out5' = Out5 /\ Out6' = Out6 /\ Out7' = Out7 + 1
    <3>1. /\ Out1' = Out1 /\ Out2' = Out2 /\ Out3' = Out3 /\ Out4' = Out4 /\ Out5' = Out5
          /\ Out6' = Out6
      BY <2>2, <2>5 DEF Out2, Out3, Out4, Out5, Out6
    <3>2. Out7' = Out7 + 1
      BY <2>2, <2>5, <3>1 DEF Out7
    <3>3. QED
      BY <3>1, <3>2
  <2>7. ASSUME st["gw"] # "done", st["hc"] # "done" PROVE /\ pmsg' = Out6 + 1
                                                          /\ IsRun(ptyOut', Out7 + 1)
                   /\ printed = (Out7 + 1) + PtyOut'
    <3>1. IsRun(ptyOut, Out7) /\ printed = Out7 + PtyOut
      BY <2>1, <2>3, <2>7 DEF OutputOK, Alive
    <3>2. Out7 = Out6
      BY <2>2, <2>5 DEF Out6, Out7
    <3>3. printed = (Out7 + 1) + PtyOut'
      BY <2>2, <2>5, <3>1
    <3>4. QED
      BY <2>2, <2>1, <2>3, <2>4, <2>7, <3>1, <3>2, <3>3, RunTail
  <2>8. QED
    BY <2>2, <2>1, <2>3, <2>5, <2>6, <2>7 DEF OutputOK
<1>6. QED
  BY <1>1, <1>2, <1>3, <1>4, <1>5 DEF IInv

\* and passes it on.
LEMMA PumpPushKeeps ==
    ASSUME IInv, PumpPush
    PROVE  IInv'
<1>1. TypeOK'
  BY CapAssumption DEF PumpPush, accessVars, endVars, ptyVars, IInv, TypeOK
<1>2. MoreTypes'
  BY DEF PumpPush, endVars, IInv, TypeOK, MoreTypes, Ends
<1>3. ASSUME ~Splits PROVE WholeOK'
  BY <1>3 DEF PumpPush, endVars, IInv, WholeOK
<1>4. ASSUME ~Splits PROVE InputOK'
  BY <1>4 DEF PumpPush, accessVars, endVars, ptyVars, IInv, MoreTypes, Ends, InputOK, In1, In2,
     In3, In4, In5, In6, In7, PtyIn, DstIn, SockIn, SrcIn, Writing, PushingIn, SendingIn, Alive
<1>5. ASSUME ~Splits PROVE OutputOK'
  <2>1. /\ pump = "pushing" /\ pump' = "select" /\ st["hc"] # "done"
        /\ src'["hc"] = Append(src["hc"], pmsg)
        /\ UNCHANGED <<pmsg, shown, dst["gw"], st["gw"], msg["gw"], sock["gw"], st["hc"],
                       msg["hc"], ptyOut, printed>>
    BY <1>5 DEF PumpPush, accessVars, endVars, ptyVars, IInv, MoreTypes, Ends
  <2>2. /\ Out1 \in Nat /\ Out2 \in Nat /\ Out3 \in Nat /\ Out4 \in Nat /\ Out5 \in Nat
        /\ Out6 \in Nat /\ Out7 \in Nat
    BY OutNumbers DEF IInv
  <2>3. /\ OutputOK
        /\ shown \in Seq(Units) /\ dst["gw"] \in Seq(Units) /\ sock["gw"] \in Seq(Frags)
        /\ src["hc"] \in Seq(Units) /\ ptyOut \in Seq(Units)
    BY <1>5 DEF IInv, TypeOK, MoreTypes, Ends
  <2>4. /\ Len(shown) \in Nat /\ Len(dst["gw"]) \in Nat /\ Len(sock["gw"]) \in Nat
        /\ Len(src["hc"]) \in Nat /\ Len(ptyOut) \in Nat
        /\ Len(src'["hc"]) = Len(src["hc"]) + 1
        /\ Len(shown') = Len(shown) /\ Len(dst'["gw"]) = Len(dst["gw"])
        /\ Len(sock'["gw"]) = Len(sock["gw"]) /\ Len(ptyOut') = Len(ptyOut)
    BY <2>1, <2>3
  <2>5. /\ PushingOut \in Nat /\ SendingOut \in Nat /\ Passing \in Nat
        /\ PushingOut' = PushingOut
        /\ SendingOut' = SendingOut
        /\ Passing = 1 /\ Passing' = 0
        /\ Out1' = Out1
        /\ DstOut \in Nat /\ DstOut' = DstOut
        /\ SockOut \in Nat /\ SockOut' = SockOut
        /\ SrcOut \in Nat /\ SrcOut' = SrcOut + 1
        /\ PtyOut \in Nat /\ PtyOut' = PtyOut
    BY <2>1, <2>4 DEF Out1, DstOut, SockOut, SrcOut, PtyOut, Passing, PushingOut, SendingOut
  <2>6. /\ Out1' = Out1 /\ Out2' = Out2 /\ Out3' = Out3 /\ Out4' = Out4
        /\ Out5' = Out5 /\ Out6' = Out6 + 1 /\ Out7' = Out7
    <3>1. Out1' = Out1 /\ Out2' = Out2 /\ Out3' = Out3 /\ Out4' = Out4 /\ Out5' = Out5
      BY <2>2, <2>5 DEF Out2, Out3, Out4, Out5
    <3>2. Out6' = Out6 + 1
      BY <2>2, <2>5, <3>1 DEF Out6
    <3>3. Out7' = Out7
      BY <2>2, <2>5, <3>2 DEF Out7
    <3>4. QED
      BY <3>1, <3>2, <3>3
  <2>7. ASSUME st["gw"] # "done" PROVE IsRun(src'["hc"], Out5)
    <3>1. IsRun(src["hc"], Out5) /\ pmsg = Out6 + 1
      BY <2>1, <2>3, <2>7 DEF OutputOK, Alive
    <3>2. Out6 = Out5 + Len(src["hc"])
      BY <2>2, <2>5 DEF Out5, Out6, SrcOut
    <3>3. QED
      BY <2>2, <2>1, <2>3, <2>4, <2>7, <3>1, <3>2, RunAppend
  <2>8. QED
    BY <2>2, <2>1, <2>3, <2>5, <2>6, <2>7 DEF OutputOK, Alive
<1>6. QED
  BY <1>1, <1>2, <1>3, <1>4, <1>5 DEF IInv

\* The pump stops;
LEMMA PumpStopsKeeps ==
    ASSUME IInv, PumpStops
    PROVE  IInv'
<1>1. TypeOK'
  BY DEF PumpStops, accessVars, endVars, ptyVars, IInv, TypeOK
<1>2. MoreTypes'
  BY DEF PumpStops, endVars, IInv, MoreTypes
<1>3. ASSUME ~Splits PROVE WholeOK'
  BY <1>3 DEF PumpStops, endVars, IInv, WholeOK
<1>4. ASSUME ~Splits PROVE InputOK'
  BY <1>4 DEF PumpStops, ptyVars, IInv, InputOK, In1, In2, In3, In4, In5, In6, In7, PtyIn, DstIn,
     SockIn, SrcIn, Writing, PushingIn, SendingIn, Alive
<1>5. ASSUME ~Splits PROVE OutputOK'
  BY <1>5 DEF PumpStops, accessVars, endVars, IInv, OutputOK, Out1, Out2, Out3, Out4, Out5, Out6,
     Out7, DstOut, SockOut, SrcOut, PtyOut, Passing, PushingOut, SendingOut, Alive
<1>6. QED
  BY <1>1, <1>2, <1>3, <1>4, <1>5 DEF IInv

\* so it does when its deadline passes,
LEMMA IdleTimeoutKeeps ==
    ASSUME IInv, IdleTimeout
    PROVE  IInv'
<1>1. TypeOK'
  BY DEF IdleTimeout, accessVars, endVars, ptyVars, IInv, TypeOK
<1>2. MoreTypes'
  BY DEF IdleTimeout, endVars, IInv, MoreTypes
<1>3. ASSUME ~Splits PROVE WholeOK'
  BY <1>3 DEF IdleTimeout, endVars, IInv, WholeOK
<1>4. ASSUME ~Splits PROVE InputOK'
  BY <1>4 DEF IdleTimeout, ptyVars, IInv, InputOK, In1, In2, In3, In4, In5, In6, In7, PtyIn,
     DstIn, SockIn, SrcIn, Writing, PushingIn, SendingIn, Alive
<1>5. ASSUME ~Splits PROVE OutputOK'
  BY <1>5 DEF IdleTimeout, accessVars, endVars, IInv, OutputOK, Out1, Out2, Out3, Out4, Out5,
     Out6, Out7, DstOut, SockOut, SrcOut, PtyOut, Passing, PushingOut, SendingOut, Alive
<1>6. QED
  BY <1>1, <1>2, <1>3, <1>4, <1>5 DEF IInv

\* and the shell is gone when it returns.
LEMMA PumpReturnsKeeps ==
    ASSUME IInv, PumpReturns
    PROVE  IInv'
<1>1. TypeOK'
  BY DEF PumpReturns, accessVars, endVars, IInv, TypeOK
<1>2. MoreTypes'
  BY DEF PumpReturns, endVars, IInv, MoreTypes
<1>3. ASSUME ~Splits PROVE WholeOK'
  BY <1>3 DEF PumpReturns, endVars, IInv, WholeOK
<1>4. ASSUME ~Splits PROVE InputOK'
  BY <1>4 DEF PumpReturns, IInv, InputOK, In1, In2, In3, In4, In5, In6, In7, PtyIn, DstIn,
     SockIn, SrcIn, Writing, PushingIn, SendingIn
<1>5. ASSUME ~Splits PROVE OutputOK'
  BY <1>5 DEF PumpReturns, accessVars, endVars, IInv, OutputOK, Out1, Out2, Out3, Out4, Out5,
     Out6, Out7, DstOut, SockOut, SrcOut, PtyOut, Passing, PushingOut, SendingOut, Alive
<1>6. QED
  BY <1>1, <1>2, <1>3, <1>4, <1>5 DEF IInv

\* A unit is typed.
LEMMA SendInputKeeps ==
    ASSUME IInv, SendInput
    PROVE  IInv'
<1>1. TypeOK'
  BY CapAssumption DEF SendInput, endVars, ptyVars, IInv, TypeOK, MoreTypes, Units, Ends
<1>2. MoreTypes'
  BY DEF SendInput, endVars, IInv, TypeOK, MoreTypes, Units, Ends
<1>3. ASSUME ~Splits PROVE WholeOK'
  BY <1>3 DEF SendInput, endVars, IInv, WholeOK
<1>4. ASSUME ~Splits PROVE InputOK'
  <2>1. /\ st["gw"] # "done" /\ typed' = typed + 1 /\ src'["gw"] = Append(src["gw"], typed + 1)
        /\ UNCHANGED <<exited, pump, pmsg, seen, ptyIn, dst["hc"], st["hc"], msg["hc"],
                       sock["hc"], st["gw"], msg["gw"]>>
    BY <1>4 DEF SendInput, endVars, ptyVars, IInv, MoreTypes, Ends
  <2>2. /\ In1 \in Nat /\ In2 \in Nat /\ In3 \in Nat /\ In4 \in Nat /\ In5 \in Nat
        /\ In6 \in Nat /\ In7 \in Nat
    BY InNumbers DEF IInv
  <2>3. /\ InputOK
        /\ seen \in Seq(Units) /\ ptyIn \in Seq(Units) /\ dst["hc"] \in Seq(Units)
        /\ sock["hc"] \in Seq(Frags) /\ src["gw"] \in Seq(Units)
    BY <1>4 DEF IInv, TypeOK, MoreTypes, Ends
  <2>4. /\ Len(seen) \in Nat /\ Len(ptyIn) \in Nat /\ Len(dst["hc"]) \in Nat
        /\ Len(sock["hc"]) \in Nat /\ Len(src["gw"]) \in Nat
        /\ Len(src'["gw"]) = Len(src["gw"]) + 1
        /\ Len(seen') = Len(seen) /\ Len(ptyIn') = Len(ptyIn)
        /\ Len(dst'["hc"]) = Len(dst["hc"]) /\ Len(sock'["hc"]) = Len(sock["hc"])
    BY <2>1, <2>3
  <2>5. /\ Writing \in Nat /\ PushingIn \in Nat /\ SendingIn \in Nat
        /\ Writing' = Writing
        /\ PushingIn' = PushingIn
        /\ SendingIn' = SendingIn
        /\ In1' = In1
        /\ PtyIn \in Nat /\ PtyIn' = PtyIn
        /\ DstIn \in Nat /\ DstIn' = DstIn
        /\ SockIn \in Nat /\ SockIn' = SockIn
        /\ SrcIn \in Nat /\ SrcIn' = SrcIn + 1
    BY <2>1, <2>4 DEF In1, PtyIn, DstIn, SockIn, SrcIn, Writing, PushingIn, SendingIn
  <2>6. /\ In1' = In1 /\ In2' = In2 /\ In3' = In3 /\ In4' = In4
        /\ In5' = In5 /\ In6' = In6 /\ In7' = In7
    BY <2>2, <2>5 DEF In2, In3, In4, In5, In6, In7
  <2>7. ASSUME ~exited, Alive, st["hc"] # "done" PROVE IsRun(src'["gw"], In7)
    <3>1. IsRun(src["gw"], In7) /\ typed = In7 + SrcIn
      BY <2>1, <2>3, <2>7 DEF InputOK
    <3>2. SrcIn = Len(src["gw"])
      BY <2>2, <2>5 DEF SrcIn
    <3>3. QED
      BY <2>2, <2>1, <2>3, <2>4, <2>7, <3>1, <3>2, RunAppend
  <2>8. QED
    BY <2>2, <2>1, <2>3, <2>5, <2>6, <2>7 DEF InputOK, Alive
<1>5. ASSUME ~Splits PROVE OutputOK'
  BY <1>5 DEF SendInput, endVars, ptyVars, IInv, MoreTypes, Ends, OutputOK, Out1, Out2, Out3,
     Out4, Out5, Out6, Out7, DstOut, SockOut, SrcOut, PtyOut, Passing, PushingOut, SendingOut,
     Alive
<1>6. QED
  BY <1>1, <1>2, <1>3, <1>4, <1>5 DEF IInv

\* A unit is shown.
LEMMA RecvOutputKeeps ==
    ASSUME IInv, RecvOutput
    PROVE  IInv'
<1>1. TypeOK'
  BY CapAssumption DEF RecvOutput, endVars, ptyVars, IInv, TypeOK, Ends
<1>2. MoreTypes'
  BY DEF RecvOutput, endVars, IInv, MoreTypes, Ends
<1>3. ASSUME ~Splits PROVE WholeOK'
  BY <1>3 DEF RecvOutput, endVars, IInv, WholeOK
<1>4. ASSUME ~Splits PROVE InputOK'
  BY <1>4 DEF RecvOutput, endVars, ptyVars, IInv, MoreTypes, Ends, InputOK, In1, In2, In3, In4,
     In5, In6, In7, PtyIn, DstIn, SockIn, SrcIn, Writing, PushingIn, SendingIn, Alive
<1>5. ASSUME ~Splits PROVE OutputOK'
  <2>1. /\ dst["gw"] # <<>> /\ shown' = Append(shown, Head(dst["gw"]))
        /\ dst'["gw"] = Tail(dst["gw"])
        /\ UNCHANGED <<pump, pmsg, st["gw"], msg["gw"], sock["gw"], st["hc"], msg["hc"],
                       src["hc"], ptyOut, printed>>
    BY <1>5 DEF RecvOutput, endVars, ptyVars, IInv, MoreTypes, Ends
  <2>2. /\ Out1 \in Nat /\ Out2 \in Nat /\ Out3 \in Nat /\ Out4 \in Nat /\ Out5 \in Nat
        /\ Out6 \in Nat /\ Out7 \in Nat
    BY OutNumbers DEF IInv
  <2>3. /\ OutputOK
        /\ shown \in Seq(Units) /\ dst["gw"] \in Seq(Units) /\ sock["gw"] \in Seq(Frags)
        /\ src["hc"] \in Seq(Units) /\ ptyOut \in Seq(Units)
    BY <1>5 DEF IInv, TypeOK, MoreTypes, Ends
  <2>4. /\ Len(shown) \in Nat /\ Len(dst["gw"]) \in Nat /\ Len(sock["gw"]) \in Nat
        /\ Len(src["hc"]) \in Nat /\ Len(ptyOut) \in Nat
        /\ Len(dst'["gw"]) \in Nat /\ Len(dst["gw"]) = Len(dst'["gw"]) + 1
        /\ Len(shown') = Len(shown) + 1
        /\ Len(sock'["gw"]) = Len(sock["gw"]) /\ Len(src'["hc"]) = Len(src["hc"])
        /\ Len(ptyOut') = Len(ptyOut)
    BY <2>1, <2>3
  <2>5. /\ PushingOut \in Nat /\ SendingOut \in Nat /\ Passing \in Nat
        /\ PushingOut' = PushingOut
        /\ SendingOut' = SendingOut
        /\ Passing' = Passing
        /\ Out1' = Out1 + 1
        /\ DstOut \in Nat /\ DstOut' \in Nat /\ DstOut = DstOut' + 1
        /\ SockOut \in Nat /\ SockOut' = SockOut
        /\ SrcOut \in Nat /\ SrcOut' = SrcOut
        /\ PtyOut \in Nat /\ PtyOut' = PtyOut
    BY <2>1, <2>4 DEF Out1, DstOut, SockOut, SrcOut, PtyOut, Passing, PushingOut, SendingOut
  <2>6. /\ Out1' = Out1 + 1 /\ Out2' = Out2 /\ Out3' = Out3 /\ Out4' = Out4
        /\ Out5' = Out5 /\ Out6' = Out6 /\ Out7' = Out7
    <3>1. Out1' = Out1 + 1
      BY <2>2, <2>5
    <3>2. Out2' = Out2
      BY <2>2, <2>5, <3>1 DEF Out2
    <3>3. Out3' = Out3 /\ Out4' = Out4 /\ Out5' = Out5 /\ Out6' = Out6 /\ Out7' = Out7
      BY <2>2, <2>5, <3>2 DEF Out3, Out4, Out5, Out6, Out7
    <3>4. QED
      BY <3>1, <3>2, <3>3
  <2>7. IsRun(shown', 0) /\ IsRun(dst'["gw"], Out1 + 1)
    <3>1. IsRun(shown, 0) /\ IsRun(dst["gw"], Out1)
      BY <2>1, <2>3 DEF OutputOK
    <3>2. Out1 = Len(shown)
      BY <2>2, <2>5 DEF Out1
    <3>3. Head(dst["gw"]) = Out1 + 1 /\ IsRun(Tail(dst["gw"]), Out1 + 1)
      BY <2>2, <2>1, <2>3, <3>1, RunTail
    <3>4. IsRun(dst'["gw"], Out1 + 1)
      BY <2>1, <3>3
    <3>5. IsRun(shown', 0)
      <4>1. Head(dst["gw"]) = 0 + Len(shown) + 1
        BY <2>2, <2>4, <3>2, <3>3
      <4>2. QED
        BY <2>1, <2>3, <3>1, <4>1, RunAppend
    <3>6. QED
      BY <2>2, <2>1, <2>3, <2>4, <3>1, <3>2, <3>4, <3>5
  <2>8. QED
    BY <2>2, <2>1, <2>3, <2>5, <2>6, <2>7 DEF OutputOK, Alive
<1>6. QED
  BY <1>1, <1>2, <1>3, <1>4, <1>5 DEF IInv

\* The handle is dropped.
LEMMA DropHandleKeeps ==
    ASSUME IInv, DropHandle
    PROVE  IInv'
<1>1. TypeOK'
  BY DEF DropHandle, endVars, ptyVars, IInv, TypeOK
<1>2. MoreTypes'
  BY DEF DropHandle, endVars, IInv, MoreTypes
<1>3. ASSUME ~Splits PROVE WholeOK'
  BY <1>3 DEF DropHandle, endVars, IInv, WholeOK
<1>4. ASSUME ~Splits PROVE InputOK'
  BY <1>4 DEF DropHandle, endVars, ptyVars, IInv, InputOK, In1, In2, In3, In4, In5, In6, In7,
     PtyIn, DstIn, SockIn, SrcIn, Writing, PushingIn, SendingIn, Alive
<1>5. ASSUME ~Splits PROVE OutputOK'
  BY <1>5 DEF DropHandle, endVars, ptyVars, IInv, OutputOK, Out1, Out2, Out3, Out4, Out5, Out6,
     Out7, DstOut, SockOut, SrcOut, PtyOut, Passing, PushingOut, SendingOut, Alive
<1>6. QED
  BY <1>1, <1>2, <1>3, <1>4, <1>5 DEF IInv

\* The shell reads a unit.
LEMMA ShellReadKeeps ==
    ASSUME IInv, ShellRead
    PROVE  IInv'
<1>1. TypeOK'
  BY CapAssumption DEF ShellRead, accessVars, endVars, IInv, TypeOK
<1>2. MoreTypes'
  BY DEF ShellRead, endVars, IInv, MoreTypes
<1>3. ASSUME ~Splits PROVE WholeOK'
  BY <1>3 DEF ShellRead, endVars, IInv, WholeOK
<1>4. ASSUME ~Splits PROVE InputOK'
  <2>1. /\ ~exited /\ ptyIn # <<>> /\ seen' = Append(seen, Head(ptyIn)) /\ ptyIn' = Tail(ptyIn)
        /\ UNCHANGED <<exited, pump, pmsg, dst["hc"], st["hc"], msg["hc"], sock["hc"], st["gw"],
                       msg["gw"], src["gw"], typed>>
    BY <1>4 DEF ShellRead, accessVars, endVars, IInv
  <2>2. /\ In1 \in Nat /\ In2 \in Nat /\ In3 \in Nat /\ In4 \in Nat /\ In5 \in Nat
        /\ In6 \in Nat /\ In7 \in Nat
    BY InNumbers DEF IInv
  <2>3. /\ InputOK
        /\ seen \in Seq(Units) /\ ptyIn \in Seq(Units) /\ dst["hc"] \in Seq(Units)
        /\ sock["hc"] \in Seq(Frags) /\ src["gw"] \in Seq(Units)
    BY <1>4 DEF IInv, TypeOK, MoreTypes, Ends
  <2>4. /\ Len(seen) \in Nat /\ Len(ptyIn) \in Nat /\ Len(dst["hc"]) \in Nat
        /\ Len(sock["hc"]) \in Nat /\ Len(src["gw"]) \in Nat
        /\ Len(ptyIn') \in Nat /\ Len(ptyIn) = Len(ptyIn') + 1
        /\ Len(seen') = Len(seen) + 1
        /\ Len(dst'["hc"]) = Len(dst["hc"]) /\ Len(sock'["hc"]) = Len(sock["hc"])
        /\ Len(src'["gw"]) = Len(src["gw"])
    BY <2>1, <2>3
  <2>5. /\ Writing \in Nat /\ PushingIn \in Nat /\ SendingIn \in Nat
        /\ Writing' = Writing
        /\ PushingIn' = PushingIn
        /\ SendingIn' = SendingIn
        /\ In1' = In1 + 1
        /\ PtyIn \in Nat /\ PtyIn' \in Nat /\ PtyIn = PtyIn' + 1
        /\ DstIn \in Nat /\ DstIn' = DstIn
        /\ SockIn \in Nat /\ SockIn' = SockIn
        /\ SrcIn \in Nat /\ SrcIn' = SrcIn
    BY <2>1, <2>4 DEF In1, PtyIn, DstIn, SockIn, SrcIn, Writing, PushingIn, SendingIn
  <2>6. /\ In1' = In1 + 1 /\ In2' = In2 /\ In3' = In3 /\ In4' = In4
        /\ In5' = In5 /\ In6' = In6 /\ In7' = In7
    <3>1. In1' = In1 + 1
      BY <2>2, <2>5
    <3>2. In2' = In2
      BY <2>2, <2>5, <3>1 DEF In2
    <3>3. In3' = In3 /\ In4' = In4 /\ In5' = In5 /\ In6' = In6 /\ In7' = In7
      BY <2>2, <2>5, <3>2 DEF In3, In4, In5, In6, In7
    <3>4. QED
      BY <3>1, <3>2, <3>3
  <2>7. IsRun(seen', 0) /\ IsRun(ptyIn', In1 + 1)
    <3>1. IsRun(seen, 0) /\ IsRun(ptyIn, In1)
      BY <2>1, <2>3 DEF InputOK
    <3>2. In1 = Len(seen)
      BY <2>2, <2>5 DEF In1
    <3>3. Head(ptyIn) = In1 + 1 /\ IsRun(Tail(ptyIn), In1 + 1)
      BY <2>2, <2>1, <2>3, <3>1, RunTail
    <3>4. IsRun(ptyIn', In1 + 1)
      BY <2>1, <3>3
    <3>5. IsRun(seen', 0)
      <4>1. Head(ptyIn) = 0 + Len(seen) + 1
        BY <2>2, <2>4, <3>2, <3>3
      <4>2. QED
        BY <2>1, <2>3, <3>1, <4>1, RunAppend
    <3>6. QED
      BY <2>2, <2>1, <2>3, <2>4, <3>1, <3>2, <3>4, <3>5
  <2>8. QED
    BY <2>2, <2>1, <2>3, <2>5, <2>6, <2>7 DEF InputOK, Alive
<1>5. ASSUME ~Splits PROVE OutputOK'
  BY <1>5 DEF ShellRead, accessVars, endVars, IInv, OutputOK, Out1, Out2, Out3, Out4, Out5, Out6,
     Out7, DstOut, SockOut, SrcOut, PtyOut, Passing, PushingOut, SendingOut, Alive
<1>6. QED
  BY <1>1, <1>2, <1>3, <1>4, <1>5 DEF IInv

\* The shell prints a unit.
LEMMA ShellPrintKeeps ==
    ASSUME IInv, ShellPrint
    PROVE  IInv'
<1>1. TypeOK'
  BY CapAssumption DEF ShellPrint, accessVars, endVars, IInv, TypeOK, Units
<1>2. MoreTypes'
  BY DEF ShellPrint, endVars, IInv, MoreTypes
<1>3. ASSUME ~Splits PROVE WholeOK'
  BY <1>3 DEF ShellPrint, endVars, IInv, WholeOK
<1>4. ASSUME ~Splits PROVE InputOK'
  BY <1>4 DEF ShellPrint, accessVars, endVars, IInv, InputOK, In1, In2, In3, In4, In5, In6, In7,
     PtyIn, DstIn, SockIn, SrcIn, Writing, PushingIn, SendingIn, Alive
<1>5. ASSUME ~Splits PROVE OutputOK'
  <2>1. /\ printed' = printed + 1 /\ ptyOut' = Append(ptyOut, printed + 1)
        /\ UNCHANGED <<pump, pmsg, shown, dst["gw"], st["gw"], msg["gw"], sock["gw"], st["hc"],
                       msg["hc"], src["hc"]>>
    BY <1>5 DEF ShellPrint, accessVars, endVars, IInv
  <2>2. /\ Out1 \in Nat /\ Out2 \in Nat /\ Out3 \in Nat /\ Out4 \in Nat /\ Out5 \in Nat
        /\ Out6 \in Nat /\ Out7 \in Nat
    BY OutNumbers DEF IInv
  <2>3. /\ OutputOK
        /\ shown \in Seq(Units) /\ dst["gw"] \in Seq(Units) /\ sock["gw"] \in Seq(Frags)
        /\ src["hc"] \in Seq(Units) /\ ptyOut \in Seq(Units)
    BY <1>5 DEF IInv, TypeOK, MoreTypes, Ends
  <2>4. /\ Len(shown) \in Nat /\ Len(dst["gw"]) \in Nat /\ Len(sock["gw"]) \in Nat
        /\ Len(src["hc"]) \in Nat /\ Len(ptyOut) \in Nat
        /\ Len(ptyOut') = Len(ptyOut) + 1
        /\ Len(shown') = Len(shown) /\ Len(dst'["gw"]) = Len(dst["gw"])
        /\ Len(sock'["gw"]) = Len(sock["gw"]) /\ Len(src'["hc"]) = Len(src["hc"])
    BY <2>1, <2>3
  <2>5. /\ PushingOut \in Nat /\ SendingOut \in Nat /\ Passing \in Nat
        /\ PushingOut' = PushingOut
        /\ SendingOut' = SendingOut
        /\ Passing' = Passing
        /\ Out1' = Out1
        /\ DstOut \in Nat /\ DstOut' = DstOut
        /\ SockOut \in Nat /\ SockOut' = SockOut
        /\ SrcOut \in Nat /\ SrcOut' = SrcOut
        /\ PtyOut \in Nat /\ PtyOut' = PtyOut + 1
    BY <2>1, <2>4 DEF Out1, DstOut, SockOut, SrcOut, PtyOut, Passing, PushingOut, SendingOut
  <2>6. /\ Out1' = Out1 /\ Out2' = Out2 /\ Out3' = Out3 /\ Out4' = Out4
        /\ Out5' = Out5 /\ Out6' = Out6 /\ Out7' = Out7
    BY <2>2, <2>5 DEF Out2, Out3, Out4, Out5, Out6, Out7
  <2>7. ASSUME st["gw"] # "done", st["hc"] # "done", Alive PROVE IsRun(ptyOut', Out7)
    <3>1. IsRun(ptyOut, Out7) /\ printed = Out7 + PtyOut
      BY <2>1, <2>3, <2>7 DEF OutputOK
    <3>2. PtyOut = Len(ptyOut)
      BY <2>2, <2>5 DEF PtyOut
    <3>3. QED
      BY <2>2, <2>1, <2>3, <2>4, <2>7, <3>1, <3>2, RunAppend
  <2>8. QED
    BY <2>2, <2>1, <2>3, <2>5, <2>6, <2>7 DEF OutputOK, Alive
<1>6. QED
  BY <1>1, <1>2, <1>3, <1>4, <1>5 DEF IInv

\* The shell exits.
LEMMA ShellExitKeeps ==
    ASSUME IInv, ShellExit
    PROVE  IInv'
<1>1. TypeOK'
  BY DEF ShellExit, accessVars, endVars, IInv, TypeOK
<1>2. MoreTypes'
  BY DEF ShellExit, endVars, IInv, MoreTypes
<1>3. ASSUME ~Splits PROVE WholeOK'
  BY <1>3 DEF ShellExit, endVars, IInv, WholeOK
<1>4. ASSUME ~Splits PROVE InputOK'
  BY <1>4 DEF ShellExit, IInv, InputOK, In1, In2, In3, In4, In5, In6, In7, PtyIn, DstIn, SockIn,
     SrcIn, Writing, PushingIn, SendingIn
<1>5. ASSUME ~Splits PROVE OutputOK'
  BY <1>5 DEF ShellExit, accessVars, endVars, IInv, OutputOK, Out1, Out2, Out3, Out4, Out5, Out6,
     Out7, DstOut, SockOut, SrcOut, PtyOut, Passing, PushingOut, SendingOut, Alive
<1>6. QED
  BY <1>1, <1>2, <1>3, <1>4, <1>5 DEF IInv

-----------------------------------------------------------------------------
(* The theorems.                                                           *)

\* The invariant holds at the start, and every step keeps it.
THEOREM InductiveInvariant == Spec => []IInv
<1>1. Init => IInv
  <2>1. SUFFICES ASSUME Init PROVE IInv
    OBVIOUS
  <2>2. Weight(<<>>) <= SockCap
    <3>1. {i \in DOMAIN <<>> : (<<>>)[i].part = "whole"} = {} /\ Len(<<>>) = 0
      OBVIOUS
    <3>2. Weight(<<>>) = 0
      BY <3>1, FS_EmptySet DEF Weight
    <3>3. QED
      BY <3>2, CapAssumption
  <2>3. TypeOK /\ MoreTypes
    <3>1. /\ <<>> \in Seq(Units) /\ <<>> \in Seq(Frags) /\ Len(<<>>) = 0 /\ Closed \in Units
          /\ 0 <= ChanCap /\ 0 <= PtyCap
      BY CapAssumption DEF Closed, Units
    <3>2. \A e \in Ends : src[e] = <<>> /\ dst[e] = <<>> /\ sock[e] = <<>>
      BY <2>1 DEF Init
    <3>3. \A e \in Ends : /\ src[e] \in Seq(Units) /\ Len(src[e]) <= ChanCap
                          /\ dst[e] \in Seq(Units) /\ Len(dst[e]) <= ChanCap
                          /\ Weight(sock[e]) <= SockCap
      <4>1. \A e \in Ends : src[e] \in Seq(Units) /\ dst[e] \in Seq(Units)
        BY <3>1, <3>2
      <4>2. \A e \in Ends : Len(src[e]) = 0 /\ Len(dst[e]) = 0
        BY <3>1, <3>2
      <4>3. \A e \in Ends : Weight(sock[e]) <= SockCap
        BY <2>2, <3>2
      <4>4. QED
        BY <3>1, <4>1, <4>2, <4>3
    <3>4. MoreTypes
      BY <2>1, <3>1 DEF Init, MoreTypes
    <3>5. TypeOK
      BY <2>1, <3>1, <3>3 DEF Init, TypeOK
    <3>6. QED
      BY <3>4, <3>5
  <2>4. WholeOK
    BY <2>1 DEF Init, WholeOK
  <2>5. InputOK
    BY <2>1 DEF Init, Ends, InputOK, IsRun, UnitRun, In1, In2, In3, In4, In5, In6, In7,
                PtyIn, DstIn, SockIn, SrcIn, Writing, PushingIn, SendingIn
  <2>6. OutputOK
    BY <2>1 DEF Init, Ends, OutputOK, IsRun, UnitRun, ClosedRun, Out1, Out2, Out3, Out4, Out5,
       Out6,
                Out7, DstOut, SockOut, SrcOut, PtyOut, Passing, PushingOut, SendingOut
  <2>7. QED
    BY <2>3, <2>4, <2>5, <2>6 DEF IInv
<1>2. IInv /\ [Next]_vars => IInv'
  <2>1. SUFFICES ASSUME IInv, [Next]_vars PROVE IInv'
    OBVIOUS
  <2>2. CASE \E e \in Ends : End(e)
    BY <2>1, <2>2, LinkSendKeeps, LinkSendFailsKeeps, LinkRecvKeeps, LinkEofKeeps,
       ChannelRecvKeeps,
       ChannelClosedKeeps, PushKeeps, PushFailsKeeps DEF End
  <2>3. CASE Pump \/ IdleTimeout
    BY <2>1, <2>3, PumpInputKeeps, PumpWriteKeeps, PumpReadKeeps, PumpPushKeeps, PumpStopsKeeps,
       PumpReturnsKeeps, IdleTimeoutKeeps DEF Pump
  <2>4. CASE SendInput \/ RecvOutput \/ DropHandle \/ ShellRead \/ ShellPrint \/ ShellExit
    BY <2>1, <2>4, SendInputKeeps, RecvOutputKeeps, DropHandleKeeps, ShellReadKeeps,
       ShellPrintKeeps,
       ShellExitKeeps
  <2>5. CASE UNCHANGED vars
    <3>1. UNCHANGED <<held, typed, shown, src, dst, st, msg, half, sock, acc, pump, pmsg, ptyIn, ptyOut,
                      seen, printed, exited>>
      BY <2>5 DEF vars, accessVars, endVars, ptyVars
    <3>2. TypeOK' /\ MoreTypes'
      BY <2>1, <3>1 DEF IInv, TypeOK, MoreTypes
    <3>3. WholeOK => WholeOK'
      BY <3>1 DEF WholeOK
    <3>4. InputOK => InputOK'
      BY <3>1 DEF InputOK, Alive, In1, In2, In3, In4, In5, In6, In7, PtyIn, DstIn, SockIn, SrcIn,
                  Writing, PushingIn, SendingIn
    <3>5. OutputOK => OutputOK'
      BY <3>1 DEF OutputOK, Alive, Out1, Out2, Out3, Out4, Out5, Out6, Out7, DstOut, SockOut,
         SrcOut,
                  PtyOut, Passing, PushingOut, SendingOut
    <3>6. QED
      BY <2>1, <3>2, <3>3, <3>4, <3>5 DEF IInv
  <2>6. QED
    BY <2>1, <2>2, <2>3, <2>4, <2>5 DEF Next
<1>3. QED
  BY <1>1, <1>2, PTL DEF Spec

\* For any capacities the channels, sockets and PTY buffers of a session stay within theirs.
THEOREM TypeCorrect == Spec => []TypeOK
<1>1. IInv => TypeOK
  BY DEF IInv
<1>2. QED
  BY <1>1, InductiveInvariant, PTL

-----------------------------------------------------------------------------
(* What the places hold together.                                          *)

\* The n numbers after a.
From(a, n) == [i \in 1 .. n |-> a + i]

LEMMA FromFrom ==
    ASSUME NEW a \in Nat, NEW n \in Nat, NEW m \in Nat
    PROVE  From(a, n) \o From(a + n, m) = From(a, n + m)
<1> DEFINE p == From(a, n)
           q == From(a + n, m)
           r == From(a, n + m)
<1>1. /\ p \in Seq(Nat) /\ Len(p) = n /\ q \in Seq(Nat) /\ Len(q) = m
      /\ r \in Seq(Nat) /\ Len(r) = n + m
  BY DEF From
<1>2. /\ \A i \in 1 .. n : p[i] = a + i
      /\ \A i \in 1 .. m : q[i] = (a + n) + i
      /\ \A i \in 1 .. (n + m) : r[i] = a + i
  BY DEF From
<1> HIDE DEF p, q, r
<1>3. p \o q \in Seq(Nat) /\ Len(p \o q) = n + m
  BY <1>1, ConcatProperties
<1>4. ASSUME NEW i \in 1 .. (n + m) PROVE (p \o q)[i] = r[i]
  <2>1. CASE i \in 1 .. n
    <3>1. (p \o q)[i] = p[i]
      BY <1>1, <2>1
    <3>2. QED
      BY <1>2, <2>1, <3>1
  <2>2. CASE i \notin 1 .. n
    <3>1. i - n \in 1 .. m
      BY <2>2
    <3>2. (p \o q)[i] = q[i - n]
      <4>1. \A j \in 1 .. Len(p) + Len(q) : (p \o q)[j]
              = IF j <= Len(p) THEN p[j] ELSE q[j - Len(p)]
        BY <1>1, ConcatProperties
      <4>2. (p \o q)[i] = IF i <= n THEN p[i] ELSE q[i - n]
        BY <1>1, <4>1
      <4>3. ~(i <= n)
        BY <2>2
      <4>4. QED
        BY <4>2, <4>3
    <3>3. q[i - n] = (a + n) + (i - n)
      BY <1>2, <3>1
    <3>4. (a + n) + (i - n) = a + i
      BY <3>1
    <3>5. QED
      BY <1>2, <3>2, <3>3, <3>4
  <2>3. QED
    BY <2>1, <2>2
<1>5. p \o q = r
  BY <1>1, <1>3, <1>4, SeqEqual
<1>6. QED
  BY <1>5 DEF p, q, r

\* The next place holds the numbers that follow.
LEMMA NextPlace ==
    ASSUME NEW n \in Nat, NEW m \in Nat
    PROVE  From(0, n) \o From(n, m) = From(0, n + m)
<1>1. 0 + n = n /\ 0 \in Nat
  OBVIOUS
<1>2. From(0, n) \o From(0 + n, m) = From(0, n + m)
  BY <1>1, FromFrom, Zenon
<1>3. QED
  BY <1>1, <1>2, Zenon

\* A hand holds one number or none.
LEMMA OneOrNone ==
    ASSUME NEW a \in Nat
    PROVE  From(a, 1) = <<a + 1>> /\ From(a, 0) = <<>>
  BY DEF From

LEMMA RunIsFrom ==
    ASSUME NEW S, NEW q \in Seq(S), NEW a \in Nat, IsRun(q, a)
    PROVE  q = From(a, Len(q))
  BY DEF IsRun, From

LEMMA SocketIsFrom ==
    ASSUME NEW q \in Seq(Frags), NEW a \in Nat, UnitRun(q, a), \A i \in DOMAIN q : q[i].part
      = "whole"
    PROVE  UnitsOf(q) = From(a, Len(q))
<1>1. ~(q # <<>> /\ Last(q).part = "head")
  BY DEF Last
<1>2. UnitsOf(q) = [i \in DOMAIN q |-> q[i].unit]
  BY <1>1 DEF UnitsOf
<1>3. DOMAIN q = 1 .. Len(q)
  OBVIOUS
<1>4. QED
  BY <1>2, <1>3 DEF UnitRun, From

\* client.rs's "never lose a byte" holds of a kernel that keeps records whole, for any capacities.
THEOREM WholeRecordsLoseNothing == ASSUME ~Splits PROVE Spec => []NothingLost
<1>1. ASSUME IInv PROVE NothingLost
  <2>1. /\ TypeOK /\ MoreTypes /\ WholeOK /\ InputOK /\ OutputOK
        /\ In1 \in Nat /\ In2 \in Nat /\ In3 \in Nat /\ In4 \in Nat /\ In5 \in Nat
        /\ In6 \in Nat /\ In7 \in Nat
        /\ Out1 \in Nat /\ Out2 \in Nat /\ Out3 \in Nat /\ Out4 \in Nat /\ Out5 \in Nat
        /\ Out6 \in Nat
        /\ Out7 \in Nat
    BY <1>1, InNumbers, OutNumbers DEF IInv
  <2>2. /\ seen \in Seq(Units) /\ ptyIn \in Seq(Units) /\ dst["hc"] \in Seq(Units)
        /\ sock["hc"] \in Seq(Frags)
        /\ src["gw"] \in Seq(Units) /\ shown \in Seq(Units) /\ ptyOut \in Seq(Units)
        /\ dst["gw"] \in Seq(Units)
        /\ sock["gw"] \in Seq(Frags) /\ src["hc"] \in Seq(Units)
        /\ \A i \in DOMAIN sock["hc"] : sock["hc"][i].part = "whole"
        /\ \A i \in DOMAIN sock["gw"] : sock["gw"][i].part = "whole"
    BY <2>1 DEF TypeOK, MoreTypes, WholeOK, Ends
  <2>3. /\ PtyIn = Len(ptyIn) /\ DstIn = Len(dst["hc"]) /\ SockIn = Len(sock["hc"])
        /\ SrcIn = Len(src["gw"])
        /\ DstOut = Len(dst["gw"]) /\ SockOut = Len(sock["gw"]) /\ SrcOut = Len(src["hc"])
        /\ PtyOut = Len(ptyOut)
        /\ In1 = Len(seen) /\ Out1 = Len(shown)
    BY DEF PtyIn, DstIn, SockIn, SrcIn, DstOut, SockOut, SrcOut, PtyOut, In1, Out1
  <2>4. /\ PtyIn \in Nat /\ DstIn \in Nat /\ SockIn \in Nat /\ SrcIn \in Nat
        /\ DstOut \in Nat /\ SockOut \in Nat /\ SrcOut \in Nat /\ PtyOut \in Nat
    <3>1. /\ Len(ptyIn) \in Nat /\ Len(dst["hc"]) \in Nat /\ Len(sock["hc"]) \in Nat
          /\ Len(src["gw"]) \in Nat
          /\ Len(dst["gw"]) \in Nat /\ Len(sock["gw"]) \in Nat /\ Len(src["hc"]) \in Nat
          /\ Len(ptyOut) \in Nat
      BY <2>2, SMTT(30)
    <3>2. QED
      BY <2>3, <3>1, Zenon
  <2>5. /\ Writing \in Nat /\ PushingIn \in Nat /\ SendingIn \in Nat
        /\ Passing \in Nat /\ PushingOut \in Nat /\ SendingOut \in Nat
    BY DEF Writing, PushingIn, SendingIn, Passing, PushingOut, SendingOut
  <2>6. seen = From(0, In1) /\ shown = From(0, Out1)
    BY <2>1, <2>2, <2>3, RunIsFrom DEF InputOK, OutputOK
  <2>7. \A n \in Nat : Run(n) = From(0, n)
    BY DEF Run, From
  <2>8. ASSUME Flowing, ~exited
        PROVE  seen \o ptyIn \o InHand(pump = "writing", pmsg) \o dst["hc"] \o OnLink("gw")
                 \o src["gw"] = Run(typed)
    <3>1. /\ pump = "writing" => pmsg = In2 + 1
          /\ st["hc"] = "pushing" => msg["hc"] = In4 + 1
          /\ st["gw"] = "sending" => msg["gw"] = In6 + 1
          /\ typed = In7 + SrcIn
          /\ IsRun(ptyIn, In1) /\ IsRun(dst["hc"], In3) /\ UnitRun(sock["hc"], In5)
          /\ IsRun(src["gw"], In7)
      BY <2>1, <2>8 DEF InputOK, Alive, Flowing, Ends
    <3>2. /\ ptyIn = From(In1, PtyIn) /\ dst["hc"] = From(In3, DstIn)
          /\ src["gw"] = From(In7, SrcIn)
      BY <2>1, <2>2, <2>3, <3>1, RunIsFrom
    <3>3. UnitsOf(sock["hc"]) = From(In5, SockIn)
      BY <2>1, <2>2, <2>3, <3>1, SocketIsFrom
    <3>4. /\ InHand(pump = "writing", pmsg) = From(In2, Writing)
          /\ InHand(st["hc"] = "pushing", msg["hc"]) = From(In4, PushingIn)
          /\ InHand(st["gw"] = "sending", msg["gw"]) = From(In6, SendingIn)
      <4>1. /\ Writing = IF pump = "writing" THEN 1 ELSE 0
            /\ PushingIn = IF st["hc"] = "pushing" THEN 1 ELSE 0
            /\ SendingIn = IF st["gw"] = "sending" THEN 1 ELSE 0
        BY DEF Writing, PushingIn, SendingIn
      <4>2. In2 \in Nat /\ In4 \in Nat /\ In6 \in Nat
        BY <2>1
      <4>3. InHand(pump = "writing", pmsg) = From(In2, Writing)
        BY <3>1, <4>1, <4>2, OneOrNone DEF InHand
      <4>4. InHand(st["hc"] = "pushing", msg["hc"]) = From(In4, PushingIn)
        BY <3>1, <4>1, <4>2, OneOrNone DEF InHand
      <4>5. InHand(st["gw"] = "sending", msg["gw"]) = From(In6, SendingIn)
        BY <3>1, <4>1, <4>2, OneOrNone DEF InHand
      <4>6. QED
        BY <4>3, <4>4, <4>5
    <3>5. OnLink("gw") = (From(In4, PushingIn) \o From(In5, SockIn)) \o From(In6, SendingIn)
      BY <3>3, <3>4 DEF OnLink, Peer
    <3>6. /\ In2 = In1 + PtyIn /\ In3 = In2 + Writing /\ In4 = In3 + DstIn
          /\ In5 = In4 + PushingIn
          /\ In6 = In5 + SockIn /\ In7 = In6 + SendingIn
      BY DEF In2, In3, In4, In5, In6, In7
    <3>7. OnLink("gw") = From(In4, (PushingIn + SockIn) + SendingIn)
      <4>1. From(In4, PushingIn) \o From(In5, SockIn) = From(In4, PushingIn + SockIn)
        <5>1. In4 \in Nat /\ PushingIn \in Nat /\ SockIn \in Nat /\ In5 = In4 + PushingIn
          BY <2>1, <2>4, <2>5, <3>6
        <5>2. From(In4, PushingIn) \o From(In4 + PushingIn, SockIn)
                = From(In4, PushingIn + SockIn)
          BY <5>1, FromFrom, Zenon
        <5>3. QED
          BY <5>1, <5>2, Zenon
      <4>2. In6 = In4 + (PushingIn + SockIn) /\ PushingIn + SockIn \in Nat
        BY <2>1, <2>4, <2>5, <3>6
      <4>3. From(In4, PushingIn + SockIn) \o From(In6, SendingIn)
              = From(In4, (PushingIn + SockIn) + SendingIn)
        <5>1. In4 \in Nat /\ SendingIn \in Nat
          BY <2>1, <2>5
        <5>2. From(In4, PushingIn + SockIn) \o From(In4 + (PushingIn + SockIn), SendingIn)
                = From(In4, (PushingIn + SockIn) + SendingIn)
          BY <4>2, <5>1, FromFrom, Zenon
        <5>3. QED
          BY <4>2, <5>2, Zenon
      <4>4. QED
        BY <3>5, <4>1, <4>3
    <3>8. seen \o ptyIn = From(0, In2)
      <4>1. /\ In1 \in Nat /\ PtyIn \in Nat /\ In2 = In1 + PtyIn
            /\ seen = From(0, In1) /\ ptyIn = From(In1, PtyIn)
        BY <2>1, <2>4, <2>6, <3>2, <3>6
      <4>2. From(0, In1) \o From(In1, PtyIn) = From(0, In1 + PtyIn)
        BY <4>1, NextPlace, Zenon
      <4>3. QED
        BY <4>1, <4>2, Zenon
    <3>9. seen \o ptyIn \o InHand(pump = "writing", pmsg) = From(0, In3)
      <4>1. /\ In2 \in Nat /\ Writing \in Nat /\ In3 = In2 + Writing
            /\ seen \o ptyIn = From(0, In2) /\ InHand(pump = "writing", pmsg) = From(In2, Writing)
        BY <2>1, <2>5, <3>4, <3>6, <3>8
      <4>2. From(0, In2) \o From(In2, Writing) = From(0, In2 + Writing)
        BY <4>1, NextPlace, Zenon
      <4>3. QED
        BY <4>1, <4>2, Zenon
    <3>10. seen \o ptyIn \o InHand(pump = "writing", pmsg) \o dst["hc"] = From(0, In4)
      <4>1. /\ In3 \in Nat /\ DstIn \in Nat /\ In4 = In3 + DstIn
            /\ seen \o ptyIn \o InHand(pump = "writing", pmsg) = From(0, In3)
            /\ dst["hc"] = From(In3, DstIn)
        BY <2>1, <2>4, <3>2, <3>6, <3>9
      <4>2. From(0, In3) \o From(In3, DstIn) = From(0, In3 + DstIn)
        BY <4>1, NextPlace, Zenon
      <4>3. QED
        BY <4>1, <4>2, Zenon
    <3>11. seen \o ptyIn \o InHand(pump = "writing", pmsg) \o dst["hc"] \o OnLink("gw")
             = From(0, In7)
      <4>1. /\ In7 = In4 + ((PushingIn + SockIn) + SendingIn)
            /\ (PushingIn + SockIn) + SendingIn \in Nat
        BY <2>1, <2>4, <2>5, <3>6
      <4>2. /\ In4 \in Nat
            /\ seen \o ptyIn \o InHand(pump = "writing", pmsg) \o dst["hc"] = From(0, In4)
            /\ OnLink("gw") = From(In4, (PushingIn + SockIn) + SendingIn)
        BY <2>1, <3>7, <3>10
      <4>3. From(0, In4) \o From(In4, (PushingIn + SockIn) + SendingIn)
              = From(0, In4 + ((PushingIn + SockIn) + SendingIn))
        BY <4>1, <4>2, NextPlace, Zenon
      <4>4. QED
        BY <4>1, <4>2, <4>3, Zenon
    <3>12. QED
      <4>1. /\ In7 \in Nat /\ SrcIn \in Nat /\ typed = In7 + SrcIn /\ typed \in Nat
            /\ seen \o ptyIn \o InHand(pump = "writing", pmsg) \o dst["hc"] \o OnLink("gw")
              = From(0, In7) /\ src["gw"] = From(In7, SrcIn)
        BY <2>1, <2>4, <3>1, <3>2, <3>11 DEF TypeOK
      <4>2. From(0, In7) \o From(In7, SrcIn) = From(0, In7 + SrcIn)
        BY <4>1, NextPlace, Zenon
      <4>3. QED
        BY <2>7, <4>1, <4>2, Zenon
  <2>9. ASSUME Flowing
        PROVE  shown \o dst["gw"] \o OnLink("hc") \o src["hc"] \o InHand(pump = "pushing", pmsg)
                 \o ptyOut = Run(printed)
    <3>1. /\ pump = "pushing" => pmsg = Out6 + 1
          /\ st["gw"] = "pushing" => msg["gw"] = Out2 + 1
          /\ st["hc"] = "sending" => msg["hc"] = Out4 + 1
          /\ printed = Out7 + PtyOut
          /\ IsRun(ptyOut, Out7) /\ IsRun(dst["gw"], Out1) /\ UnitRun(sock["gw"], Out3)
          /\ IsRun(src["hc"], Out5)
      BY <2>1, <2>9 DEF OutputOK, Alive, Flowing, Ends
    <3>2. /\ ptyOut = From(Out7, PtyOut) /\ dst["gw"] = From(Out1, DstOut)
          /\ src["hc"] = From(Out5, SrcOut)
      BY <2>1, <2>2, <2>3, <3>1, RunIsFrom
    <3>3. UnitsOf(sock["gw"]) = From(Out3, SockOut)
      BY <2>1, <2>2, <2>3, <3>1, SocketIsFrom
    <3>4. /\ InHand(pump = "pushing", pmsg) = From(Out6, Passing)
          /\ InHand(st["gw"] = "pushing", msg["gw"]) = From(Out2, PushingOut)
          /\ InHand(st["hc"] = "sending", msg["hc"]) = From(Out4, SendingOut)
      <4>1. /\ Passing = IF pump = "pushing" THEN 1 ELSE 0
            /\ PushingOut = IF st["gw"] = "pushing" THEN 1 ELSE 0
            /\ SendingOut = IF st["hc"] = "sending" THEN 1 ELSE 0
        BY DEF Passing, PushingOut, SendingOut
      <4>2. Out6 \in Nat /\ Out2 \in Nat /\ Out4 \in Nat
        BY <2>1
      <4>3. InHand(pump = "pushing", pmsg) = From(Out6, Passing)
        BY <3>1, <4>1, <4>2, OneOrNone DEF InHand
      <4>4. InHand(st["gw"] = "pushing", msg["gw"]) = From(Out2, PushingOut)
        BY <3>1, <4>1, <4>2, OneOrNone DEF InHand
      <4>5. InHand(st["hc"] = "sending", msg["hc"]) = From(Out4, SendingOut)
        BY <3>1, <4>1, <4>2, OneOrNone DEF InHand
      <4>6. QED
        BY <4>3, <4>4, <4>5
    <3>5. OnLink("hc") = (From(Out2, PushingOut) \o From(Out3, SockOut)) \o From(Out4, SendingOut)
      BY <3>3, <3>4 DEF OnLink, Peer
    <3>6. /\ Out2 = Out1 + DstOut /\ Out3 = Out2 + PushingOut /\ Out4 = Out3 + SockOut
          /\ Out5 = Out4 + SendingOut /\ Out6 = Out5 + SrcOut /\ Out7 = Out6 + Passing
      BY DEF Out2, Out3, Out4, Out5, Out6, Out7
    <3>7. OnLink("hc") = From(Out2, (PushingOut + SockOut) + SendingOut)
      <4>1. From(Out2, PushingOut) \o From(Out3, SockOut) = From(Out2, PushingOut + SockOut)
        <5>1. Out2 \in Nat /\ PushingOut \in Nat /\ SockOut \in Nat /\ Out3 = Out2 + PushingOut
          BY <2>1, <2>4, <2>5, <3>6
        <5>2. From(Out2, PushingOut) \o From(Out2 + PushingOut, SockOut)
                = From(Out2, PushingOut + SockOut)
          BY <5>1, FromFrom, Zenon
        <5>3. QED
          BY <5>1, <5>2, Zenon
      <4>2. Out4 = Out2 + (PushingOut + SockOut) /\ PushingOut + SockOut \in Nat
        BY <2>1, <2>4, <2>5, <3>6
      <4>3. From(Out2, PushingOut + SockOut) \o From(Out4, SendingOut)
              = From(Out2, (PushingOut + SockOut) + SendingOut)
        <5>1. Out2 \in Nat /\ SendingOut \in Nat
          BY <2>1, <2>5
        <5>2. From(Out2, PushingOut + SockOut) \o From(Out2 + (PushingOut + SockOut), SendingOut)
                = From(Out2, (PushingOut + SockOut) + SendingOut)
          BY <4>2, <5>1, FromFrom, Zenon
        <5>3. QED
          BY <4>2, <5>2, Zenon
      <4>4. QED
        BY <3>5, <4>1, <4>3
    <3>8. shown \o dst["gw"] = From(0, Out2)
      <4>1. /\ Out1 \in Nat /\ DstOut \in Nat /\ Out2 = Out1 + DstOut
            /\ shown = From(0, Out1) /\ dst["gw"] = From(Out1, DstOut)
        BY <2>1, <2>4, <2>6, <3>2, <3>6
      <4>2. From(0, Out1) \o From(Out1, DstOut) = From(0, Out1 + DstOut)
        BY <4>1, NextPlace, Zenon
      <4>3. QED
        BY <4>1, <4>2, Zenon
    <3>9. shown \o dst["gw"] \o OnLink("hc") = From(0, Out5)
      <4>1. /\ Out5 = Out2 + ((PushingOut + SockOut) + SendingOut)
            /\ (PushingOut + SockOut) + SendingOut \in Nat
        BY <2>1, <2>4, <2>5, <3>6
      <4>2. /\ Out2 \in Nat /\ shown \o dst["gw"] = From(0, Out2)
            /\ OnLink("hc") = From(Out2, (PushingOut + SockOut) + SendingOut)
        BY <2>1, <3>7, <3>8
      <4>3. From(0, Out2) \o From(Out2, (PushingOut + SockOut) + SendingOut)
              = From(0, Out2 + ((PushingOut + SockOut) + SendingOut))
        BY <4>1, <4>2, NextPlace, Zenon
      <4>4. QED
        BY <4>1, <4>2, <4>3, Zenon
    <3>10. shown \o dst["gw"] \o OnLink("hc") \o src["hc"] = From(0, Out6)
      <4>1. /\ Out5 \in Nat /\ SrcOut \in Nat /\ Out6 = Out5 + SrcOut
            /\ shown \o dst["gw"] \o OnLink("hc") = From(0, Out5)
            /\ src["hc"] = From(Out5, SrcOut)
        BY <2>1, <2>4, <3>2, <3>6, <3>9
      <4>2. From(0, Out5) \o From(Out5, SrcOut) = From(0, Out5 + SrcOut)
        BY <4>1, NextPlace, Zenon
      <4>3. QED
        BY <4>1, <4>2, Zenon
    <3>11. shown \o dst["gw"] \o OnLink("hc") \o src["hc"] \o InHand(pump = "pushing", pmsg)
             = From(0, Out7)
      <4>1. /\ Out6 \in Nat /\ Passing \in Nat /\ Out7 = Out6 + Passing
            /\ shown \o dst["gw"] \o OnLink("hc") \o src["hc"] = From(0, Out6)
            /\ InHand(pump = "pushing", pmsg) = From(Out6, Passing)
        BY <2>1, <2>5, <3>4, <3>6, <3>10
      <4>2. From(0, Out6) \o From(Out6, Passing) = From(0, Out6 + Passing)
        BY <4>1, NextPlace, Zenon
      <4>3. QED
        BY <4>1, <4>2, Zenon
    <3>12. QED
      <4>1. /\ Out7 \in Nat /\ PtyOut \in Nat /\ printed = Out7 + PtyOut /\ printed \in Nat
            /\ shown \o dst["gw"] \o OnLink("hc") \o src["hc"]
               \o InHand(pump = "pushing", pmsg) = From(0, Out7) /\ ptyOut = From(Out7, PtyOut)
        BY <2>1, <2>4, <3>1, <3>2, <3>11, SMTT(30)
      <4>2. From(0, Out7) \o From(Out7, PtyOut) = From(0, Out7 + PtyOut)
        BY <4>1, NextPlace, Zenon
      <4>3. QED
        BY <2>7, <4>1, <4>2, Zenon
  <2>10. QED
    BY <2>3, <2>1, <2>6, <2>7, <2>8, <2>9 DEF NothingLost
<1>2. QED
  BY <1>1, InductiveInvariant, PTL
==============================================================================
