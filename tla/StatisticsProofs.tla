-------------------------- MODULE StatisticsProofs ---------------------------
(***************************************************************************)
(* Proofs about the statistics: for any number of sessions, articles,      *)
(* requests, crashes and any capacities.                                   *)
(*                                                                         *)
(* The argument is one of conservation.  Each read and each request that   *)
(* is to be counted is in at most one place: pending in kqueue, in the     *)
(* channel of a session, in the queue of the web server, in the batch it   *)
(* holds back, or in a request to statd.  What is counted and what is in   *)
(* these places together never exceeds what happened.                      *)
(*                                                                         *)
(* That the tables agree with each other (TInv) needs what SumIn computes  *)
(* for any finite set of articles and for some of them, shown by induction *)
(* on the size of the set, and                                             *)
(* that the mutex of the store spans both reads of a snapshot.             *)
(***************************************************************************)
EXTENDS Statistics, FiniteSetTheorems, WellFoundedInduction, TLAPS

Requests == [from : Workers, no : Nat, events : Seq(Event)]

\* The types of what TypeOK leaves out.
MoreTypes ==
    /\ reads \in [Sessions -> Seq(Articles)]
    /\ batch \in [Workers -> Seq(Event)]
    /\ sent \in [Workers -> Nat]
    /\ inbox \subseteq Requests /\ IsFiniteSet(inbox)
    /\ \A r \in inbox : Len(r.events) <= MaxBatch
    /\ replies \subseteq [from : Workers, ok : BOOLEAN]
    /\ index \in (SUBSET Articles) \cup {Broken}
    /\ gets \in [Articles -> Nat]
    /\ acked \in [Articles -> [Sources -> Nat]]

\* Only the web server's worker holds a batch back, and it holds one event.
DelayOK == \A w \in Workers : worker[w] = "delay" => w = Web /\ Len(batch[w]) = 1

\* A registration that has not fired is for an article not yet read.
ArmedOK ==
    \A s \in Sessions, a \in Articles :
       phase[s] \in {"new", "asking"} \/ a \in armed[s] => <<s, a>> \notin seen

\* Every request has a number of its own, and at most one answer waits for a worker:
\* that to the batch it holds.
LinkOK ==
    /\ \A r \in inbox : r.no <= sent[r.from]
    /\ \A r, q \in inbox : r.from = q.from /\ r.no = q.no => r = q
    /\ \A r \in inbox : worker[r.from] = "request" /\ r.no = sent[r.from] =>
          /\ r.events = batch[r.from]
          /\ \A q \in replies : q.from # r.from
    /\ \A q \in replies : worker[q.from] = "request"
    /\ \A p, q \in replies : p.from = q.from => p = q

\* An event that stands for a read or a request that took place.
GenuineIn(sn, g, e) ==
    \/ /\ e.source = "terminal"
       /\ \E s \in Sessions : <<s, e.article>> \in sn /\ e.ip = Peer[s]
    \/ e.source = "static" /\ g[e.article] > 0 /\ e.ip \in Clients

Genuine(e) == GenuineIn(seen, gets, e)

GenuineOK ==
    /\ \A s \in Sessions : \A a \in pending[s] : <<s, a>> \in seen
    /\ \A s \in Sessions : \A i \in DOMAIN reads[s] : <<s, reads[s][i]>> \in seen
    /\ \A i \in DOMAIN queue : Genuine(queue[i])
    /\ \A w \in Workers : \A i \in DOMAIN batch[w] : Genuine(batch[w][i])
    /\ \A r \in inbox : \A i \in DOMAIN r.events : Genuine(r.events[i])

VisitorsOK ==
    \A v \in visitors :
       /\ Canon[v[2]] = v[2]
       /\ \/ \E s \in Sessions, a \in InTarget(v[1]) : <<s, a>> \in seen /\ Canon[Peer[s]] = v[2]
          \/ \E a \in InTarget(v[1]), ip \in Clients : gets[a] > 0 /\ Canon[ip] = v[2]

\* Where the reads and requests of article a are that are yet to be counted under src.
Is(e, src, a) == e.source = src /\ e.article = a

EventsOf(ev, src, a) == {i \in 1 .. Len(ev) : Is(ev[i], src, a)}
PendingOf(pe, src, a) == {s \in Sessions : src = "terminal" /\ a \in pe[s]}
ReadsOf(rd, src, a) ==
    {t \in Sessions \X (1 .. ReadsCap) :
        src = "terminal" /\ t[2] <= Len(rd[t[1]]) /\ rd[t[1]][t[2]] = a}
InboxOf(in, src, a) == {t \in in \X (1 .. MaxBatch) : t[2] \in EventsOf(t[1].events, src, a)}

HeldBack == IF worker[Web] = "delay" THEN batch[Web] ELSE <<>>

\* What happened.
Happened(src, a) ==
    IF src = "terminal" THEN Cardinality({s \in Sessions : <<s, a>> \in seen}) ELSE gets[a]

FlowAt(src, a) ==
    articles[a][src] + Cardinality(PendingOf(pending, src, a))
       + Cardinality(ReadsOf(reads, src, a)) + Cardinality(EventsOf(queue, src, a))
       + Cardinality(EventsOf(HeldBack, src, a)) + Cardinality(InboxOf(inbox, src, a))
    <= Happened(src, a)

\* All of these are numbers.
Numbers(src, a) ==
    /\ articles[a][src] \in Nat
    /\ Cardinality(PendingOf(pending, src, a)) \in Nat
    /\ Cardinality(ReadsOf(reads, src, a)) \in Nat
    /\ Cardinality(EventsOf(queue, src, a)) \in Nat
    /\ Cardinality(EventsOf(HeldBack, src, a)) \in Nat
    /\ Cardinality(InboxOf(inbox, src, a)) \in Nat
    /\ Happened(src, a) \in Nat

FlowOK == \A a \in Articles, src \in Sources : FlowAt(src, a)

\* Events that statd has committed and whose worker has yet to read so.
AckingOf(rep, ba, src, a) ==
    {t \in Workers \X (1 .. MaxBatch) :
        [from |-> t[1], ok |-> TRUE] \in rep /\ t[2] \in EventsOf(ba[t[1]], src, a)}

AckAt(src, a) ==
    acked[a][src] + Cardinality(AckingOf(replies, batch, src, a)) <= articles[a][src]

AckOK == \A a \in Articles, src \in Sources : AckAt(src, a)

IInv == /\ TypeOK /\ MoreTypes /\ DelayOK /\ ArmedOK /\ LinkOK /\ GenuineOK /\ VisitorsOK
        /\ FlowOK /\ AckOK

-----------------------------------------------------------------------------
(* Cardinalities.                                                          *)

\* Two sets that fit into one side by side are together no larger.
LEMMA FitTogether ==
    ASSUME NEW S, IsFiniteSet(S), NEW A, NEW B,
           NEW f \in Injection(A, S), NEW g \in Injection(B, S),
           \A x \in A, y \in B : f[x] # g[y]
    PROVE  /\ IsFiniteSet(A) /\ IsFiniteSet(B)
           /\ Cardinality(A) + Cardinality(B) <= Cardinality(S)
<1> DEFINE RA == {f[x] : x \in A}
           RB == {g[y] : y \in B}
<1>1. IsFiniteSet(A) /\ IsFiniteSet(B)
  BY FS_Injection
<1>2. f \in Bijection(A, RA) /\ g \in Bijection(B, RB)
  BY DEF Bijection, Injection, Surjection
<1>3. /\ IsFiniteSet(RA) /\ Cardinality(RA) = Cardinality(A)
      /\ IsFiniteSet(RB) /\ Cardinality(RB) = Cardinality(B)
  BY <1>1, <1>2, FS_Bijection DEF ExistsBijection
<1>4. RA \cap RB = {} /\ RA \cup RB \subseteq S
  BY DEF Injection
<1> HIDE DEF RA, RB
<1>5. Cardinality(RA \cup RB) <= Cardinality(S)
  BY <1>4, FS_Subset
<1>6. Cardinality(RA \cup RB) = Cardinality(RA) + Cardinality(RB)
  <2>1. Cardinality(RA \cap RB) = 0
    BY <1>4, FS_EmptySet
  <2>2. Cardinality(RA) \in Nat /\ Cardinality(RB) \in Nat
    BY <1>3, FS_CardinalityType
  <2>3. Cardinality(RA \cup RB) = Cardinality(RA) + Cardinality(RB) - Cardinality(RA \cap RB)
    BY <1>3, FS_Union
  <2>4. QED
    BY <2>1, <2>2, <2>3
<1>7. QED
  BY <1>1, <1>3, <1>5, <1>6

\* A set whose two parts fit into two sets is no larger than both.
LEMMA FitApart ==
    ASSUME NEW X, IsFiniteSet(X), NEW Y, IsFiniteSet(Y), NEW C, NEW D,
           NEW f \in Injection(C, X), NEW g \in Injection(D, Y)
    PROVE  /\ IsFiniteSet(C \cup D)
           /\ Cardinality(C \cup D) <= Cardinality(X) + Cardinality(Y)
<1>1. IsFiniteSet(C) /\ Cardinality(C) <= Cardinality(X)
  BY FS_Injection
<1>2. IsFiniteSet(D) /\ Cardinality(D) <= Cardinality(Y)
  BY FS_Injection
<1>3. /\ Cardinality(C) \in Nat /\ Cardinality(D) \in Nat
      /\ Cardinality(X) \in Nat /\ Cardinality(Y) \in Nat
  BY <1>1, <1>2, FS_CardinalityType
<1>4. IsFiniteSet(C \cap D)
  BY <1>1, FS_Intersection
<1>5. Cardinality(C \cap D) \in Nat
  BY <1>4, FS_CardinalityType
<1>6. IsFiniteSet(C \cup D)
  BY <1>1, <1>2, FS_Union
<1>7. Cardinality(C \cup D) = Cardinality(C) + Cardinality(D) - Cardinality(C \cap D)
  BY <1>1, <1>2, FS_Union
<1>8. QED
  BY <1>1, <1>2, <1>3, <1>5, <1>6, <1>7

\* One more element.
LEMMA OneMore ==
    ASSUME NEW S, IsFiniteSet(S), NEW x, NEW T, T \subseteq S \cup {x}
    PROVE  IsFiniteSet(T) /\ Cardinality(T) <= Cardinality(S) + 1
<1>1. IsFiniteSet(S \cup {x})
  BY FS_AddElement
<1>2. Cardinality(S \cup {x}) = IF x \in S THEN Cardinality(S) ELSE Cardinality(S) + 1
  BY FS_AddElement
<1>3. IsFiniteSet(T) /\ Cardinality(T) <= Cardinality(S \cup {x})
  BY <1>1, FS_Subset
<1>4. Cardinality(S) \in Nat /\ Cardinality(T) \in Nat
  BY <1>3, FS_CardinalityType
<1>5. QED
  BY <1>2, <1>3, <1>4

-----------------------------------------------------------------------------
(* The places.                                                             *)

\* Of finitely many events finitely many are of one kind, and Count counts them.
LEMMA EventsFinite ==
    ASSUME NEW ev \in Seq(Event), NEW src, NEW a
    PROVE  /\ IsFiniteSet(EventsOf(ev, src, a)) /\ Cardinality(EventsOf(ev, src, a)) \in Nat
           /\ Count(ev, src, {a}) = Cardinality(EventsOf(ev, src, a))
<1>1. Len(ev) \in Nat /\ DOMAIN ev = 1 .. Len(ev)
  OBVIOUS
<1>2. IsFiniteSet(1 .. Len(ev))
  BY <1>1, FS_Interval
<1>3. EventsOf(ev, src, a) \in SUBSET (1 .. Len(ev))
  BY DEF EventsOf
<1>4. IsFiniteSet(EventsOf(ev, src, a))
  BY <1>2, <1>3, FS_Subset
<1>5. {i \in DOMAIN ev : ev[i].source = src /\ ev[i].article \in {a}} = EventsOf(ev, src, a)
  BY <1>1 DEF EventsOf, Is
<1>6. QED
  BY <1>4, <1>5, FS_CardinalityType DEF Count

\* Count of any set of articles is a number.
LEMMA CountNat ==
    ASSUME NEW ev \in Seq(Event), NEW src, NEW A
    PROVE  Count(ev, src, A) \in Nat
<1> DEFINE S == {i \in DOMAIN ev : ev[i].source = src /\ ev[i].article \in A}
<1>1. S \in SUBSET (1 .. Len(ev)) /\ Len(ev) \in Nat
  OBVIOUS
<1>2. IsFiniteSet(1 .. Len(ev))
  BY <1>1, FS_Interval
<1>3. Cardinality(S) \in Nat
  BY <1>1, <1>2, FS_Subset, FS_CardinalityType
<1>4. QED
  BY <1>3 DEF Count

\* The other places are finite as well.
LEMMA PlacesFinite ==
    ASSUME NEW src, NEW a, NEW pe, NEW rd, NEW in, IsFiniteSet(in)
    PROVE  /\ IsFiniteSet(PendingOf(pe, src, a)) /\ Cardinality(PendingOf(pe, src, a)) \in Nat
           /\ IsFiniteSet(ReadsOf(rd, src, a)) /\ Cardinality(ReadsOf(rd, src, a)) \in Nat
           /\ IsFiniteSet(InboxOf(in, src, a)) /\ Cardinality(InboxOf(in, src, a)) \in Nat
<1>1. IsFiniteSet(Sessions) /\ IsFiniteSet(1 .. ReadsCap) /\ IsFiniteSet(1 .. MaxBatch)
  <2>1. ReadsCap \in Int /\ MaxBatch \in Int /\ 1 \in Int
    BY StatisticsAssumption
  <2>2. IsFiniteSet(1 .. ReadsCap) /\ IsFiniteSet(1 .. MaxBatch)
    BY <2>1, FS_Interval
  <2>3. QED
    BY <2>2, StatisticsAssumption
<1>2. IsFiniteSet(Sessions \X (1 .. ReadsCap)) /\ IsFiniteSet(in \X (1 .. MaxBatch))
  BY <1>1, FS_Product
<1>3. /\ PendingOf(pe, src, a) \in SUBSET Sessions
      /\ ReadsOf(rd, src, a) \in SUBSET (Sessions \X (1 .. ReadsCap))
      /\ InboxOf(in, src, a) \in SUBSET (in \X (1 .. MaxBatch))
  BY DEF PendingOf, ReadsOf, InboxOf
<1>4. /\ IsFiniteSet(PendingOf(pe, src, a)) /\ IsFiniteSet(ReadsOf(rd, src, a))
      /\ IsFiniteSet(InboxOf(in, src, a))
  BY <1>1, <1>2, <1>3, FS_Subset
<1>5. QED
  BY <1>4, FS_CardinalityType

\* One more event is one more of its own kind.
LEMMA EventsAppend ==
    ASSUME NEW ev \in Seq(Event), NEW e \in Event, NEW src, NEW a
    PROVE  Cardinality(EventsOf(Append(ev, e), src, a))
              <= Cardinality(EventsOf(ev, src, a)) + (IF Is(e, src, a) THEN 1 ELSE 0)
<1> DEFINE S == EventsOf(ev, src, a)
<1>1. Len(ev) \in Nat /\ Len(Append(ev, e)) = Len(ev) + 1
  OBVIOUS
<1>2. /\ \A i \in 1 .. Len(ev) : Append(ev, e)[i] = ev[i]
      /\ Append(ev, e)[Len(ev) + 1] = e
  OBVIOUS
<1>3. IsFiniteSet(S) /\ Cardinality(S) \in Nat
  BY EventsFinite
<1>4. CASE Is(e, src, a)
  <2>1. EventsOf(Append(ev, e), src, a) \subseteq S \cup {Len(ev) + 1}
    BY <1>1, <1>2 DEF EventsOf
  <2>2. Cardinality(EventsOf(Append(ev, e), src, a)) <= Cardinality(S) + 1
    BY <1>3, <2>1, OneMore
  <2>3. QED
    BY <1>4, <2>2
<1>5. CASE ~Is(e, src, a)
  <2>1. EventsOf(Append(ev, e), src, a) = S
    BY <1>1, <1>2, <1>5 DEF EventsOf
  <2>2. QED
    BY <1>3, <1>5, <2>1
<1>6. QED
  BY <1>4, <1>5

\* Cutting a sequence in two loses and repeats nothing.
LEMMA EventsSplit ==
    ASSUME NEW ev \in Seq(Event), NEW n \in 0 .. Len(ev), NEW src, NEW a
    PROVE  Cardinality(EventsOf(SubSeq(ev, 1, n), src, a))
              + Cardinality(EventsOf(SubSeq(ev, n + 1, Len(ev)), src, a))
              <= Cardinality(EventsOf(ev, src, a))
<1> DEFINE A == EventsOf(SubSeq(ev, 1, n), src, a)
           B == EventsOf(SubSeq(ev, n + 1, Len(ev)), src, a)
           S == EventsOf(ev, src, a)
           f == [i \in A |-> i]
           g == [i \in B |-> i + n]
<1>1. /\ Len(ev) \in Nat /\ n \in Nat /\ n <= Len(ev)
      /\ Len(SubSeq(ev, 1, n)) = n /\ Len(SubSeq(ev, n + 1, Len(ev))) = Len(ev) - n
  OBVIOUS
<1>2. /\ \A i \in 1 .. n : SubSeq(ev, 1, n)[i] = ev[i]
      /\ \A i \in 1 .. (Len(ev) - n) : SubSeq(ev, n + 1, Len(ev))[i] = ev[i + n]
  BY <1>1
<1>3. /\ \A i \in A : i \in S /\ i <= n
      /\ \A i \in B : i \in Nat /\ i + n \in S /\ i + n > n
  BY <1>1, <1>2 DEF EventsOf
<1>4. \A i \in A : i \in Nat
  BY <1>1 DEF EventsOf
<1> HIDE DEF A, B, S
<1>5. f \in Injection(A, S) /\ g \in Injection(B, S)
  BY <1>1, <1>3, <1>4 DEF Injection, IsInjective
<1>6. \A x \in A, y \in B : f[x] # g[y]
  BY <1>1, <1>3, <1>4
<1>7. IsFiniteSet(S)
  BY EventsFinite DEF S
<1> HIDE DEF f, g
<1>8. QED
  BY <1>5, <1>6, <1>7, FitTogether DEF A, B, S

\* Nor does putting two together.
LEMMA EventsConcat ==
    ASSUME NEW x \in Seq(Event), NEW y \in Seq(Event), NEW src, NEW a
    PROVE  Cardinality(EventsOf(x \o y, src, a))
              <= Cardinality(EventsOf(x, src, a)) + Cardinality(EventsOf(y, src, a))
<1> DEFINE C == {i \in EventsOf(x \o y, src, a) : i <= Len(x)}
           D == {i \in EventsOf(x \o y, src, a) : i > Len(x)}
           X == EventsOf(x, src, a)
           Y == EventsOf(y, src, a)
           f == [i \in C |-> i]
           g == [i \in D |-> i - Len(x)]
<1>1. Len(x) \in Nat /\ Len(y) \in Nat /\ Len(x \o y) = Len(x) + Len(y)
  OBVIOUS
<1>2. /\ \A i \in 1 .. Len(x) : (x \o y)[i] = x[i]
      /\ \A i \in (Len(x) + 1) .. (Len(x) + Len(y)) : (x \o y)[i] = y[i - Len(x)]
  OBVIOUS
<1>3. \A i \in C : i \in X
  BY <1>1, <1>2 DEF EventsOf
<1>4. \A i \in D : i \in Nat /\ i - Len(x) \in Y
  BY <1>1, <1>2 DEF EventsOf
<1>5. C \cup D = EventsOf(x \o y, src, a)
  BY <1>1 DEF EventsOf
<1> HIDE DEF C, D, X, Y
<1>6. f \in Injection(C, X) /\ g \in Injection(D, Y)
  BY <1>1, <1>3, <1>4 DEF Injection, IsInjective
<1>7. IsFiniteSet(X) /\ IsFiniteSet(Y)
  BY EventsFinite DEF X, Y
<1> HIDE DEF f, g
<1>8. Cardinality(C \cup D) <= Cardinality(X) + Cardinality(Y)
  BY <1>6, <1>7, FitApart
<1>9. QED
  BY <1>5, <1>8 DEF X, Y

\* A read enters the channel of a session.
LEMMA ReadsAppend ==
    ASSUME NEW rd \in [Sessions -> Seq(Articles)], NEW s \in Sessions, NEW b \in Articles,
           NEW src, NEW a
    PROVE  Cardinality(ReadsOf([rd EXCEPT ![s] = Append(@, b)], src, a))
              <= Cardinality(ReadsOf(rd, src, a)) + (IF src = "terminal" /\ a = b THEN 1 ELSE 0)
<1> DEFINE new == [rd EXCEPT ![s] = Append(@, b)]
           n   == Len(rd[s]) + 1
<1>1. /\ new[s] = Append(rd[s], b) /\ \A x \in Sessions : x # s => new[x] = rd[x]
      /\ \A x \in Sessions : rd[x] \in Seq(Articles)
  OBVIOUS
<1>2. /\ Len(rd[s]) \in Nat /\ Len(new[s]) = n /\ new[s][n] = b
      /\ \A i \in 1 .. Len(rd[s]) : new[s][i] = rd[s][i]
  BY <1>1
<1>3. ASSUME NEW t \in ReadsOf(new, src, a)
      PROVE  t \in ReadsOf(rd, src, a) \/ (t = <<s, n>> /\ src = "terminal" /\ a = b)
  <2>1. PICK x \in Sessions, i \in 1 .. ReadsCap : t = <<x, i>>
    BY <1>3 DEF ReadsOf
  <2>2. src = "terminal" /\ i <= Len(new[x]) /\ new[x][i] = a
    BY <1>3, <2>1 DEF ReadsOf
  <2>3. CASE x # s
    BY <1>1, <2>1, <2>2, <2>3 DEF ReadsOf
  <2>4. CASE x = s /\ i = n
    BY <1>2, <2>1, <2>2, <2>4
  <2>5. CASE x = s /\ i # n
    <3>1. i \in 1 .. Len(rd[s])
      BY <1>2, <2>2, <2>5
    <3>2. QED
      BY <1>2, <2>1, <2>2, <2>5, <3>1 DEF ReadsOf
  <2>6. QED
    BY <2>3, <2>4, <2>5
<1>4. /\ IsFiniteSet(ReadsOf(rd, src, a)) /\ Cardinality(ReadsOf(rd, src, a)) \in Nat
      /\ IsFiniteSet({})
  BY PlacesFinite, FS_EmptySet
<1> HIDE DEF new, n
<1>5. CASE src = "terminal" /\ a = b
  <2>1. ReadsOf(new, src, a) \subseteq ReadsOf(rd, src, a) \cup {<<s, n>>}
    BY <1>3
  <2>2. Cardinality(ReadsOf(new, src, a)) <= Cardinality(ReadsOf(rd, src, a)) + 1
    BY <1>4, <2>1, OneMore
  <2>3. QED
    BY <1>5, <2>2 DEF new
<1>6. CASE ~(src = "terminal" /\ a = b)
  <2>1. ReadsOf(new, src, a) \in SUBSET ReadsOf(rd, src, a)
    BY <1>3, <1>6
  <2>2. Cardinality(ReadsOf(new, src, a)) <= Cardinality(ReadsOf(rd, src, a))
    BY <1>4, <2>1, FS_Subset
  <2>3. QED
    BY <1>4, <1>6, <2>2 DEF new
<1>7. QED
  BY <1>5, <1>6

\* The worker of a session takes n reads and makes events of them.
LEMMA ReadsTake ==
    ASSUME NEW rd \in [Sessions -> Seq(Articles)], NEW s \in Sessions, Len(rd[s]) <= ReadsCap,
           NEW n \in 0 .. Len(rd[s]), NEW src, NEW a
    PROVE  Cardinality(ReadsOf([rd EXCEPT ![s] = SubSeq(@, n + 1, Len(@))], src, a))
              + Cardinality(EventsOf([i \in 1 .. n |-> TerminalEvent(s, rd[s][i])], src, a))
              <= Cardinality(ReadsOf(rd, src, a))
<1> DEFINE new == [rd EXCEPT ![s] = SubSeq(@, n + 1, Len(@))]
           ev  == [i \in 1 .. n |-> TerminalEvent(s, rd[s][i])]
           A   == ReadsOf(new, src, a)
           B   == EventsOf(ev, src, a)
           S   == ReadsOf(rd, src, a)
           f   == [t \in A |-> IF t[1] = s THEN <<s, t[2] + n>> ELSE t]
           g   == [i \in B |-> <<s, i>>]
<1>1. /\ Len(rd[s]) \in Nat /\ n \in Nat /\ n <= Len(rd[s]) /\ ReadsCap \in Nat
      /\ rd[s] \in Seq(Articles)
  BY StatisticsAssumption
<1>2. /\ new[s] = SubSeq(rd[s], n + 1, Len(rd[s]))
      /\ \A x \in Sessions : x # s => new[x] = rd[x]
  OBVIOUS
<1>3. /\ Len(new[s]) = Len(rd[s]) - n
      /\ \A i \in 1 .. (Len(rd[s]) - n) : new[s][i] = rd[s][i + n]
  BY <1>1, <1>2
<1>4. Len(ev) = n
  BY <1>1
<1> HIDE DEF new
<1>5. ASSUME NEW t \in A
      PROVE  /\ t = <<t[1], t[2]>> /\ t[2] \in Nat /\ t[2] >= 1
             /\ t[1] # s => t \in S
             /\ t[1] = s => <<s, t[2] + n>> \in S
  <2>1. PICK x \in Sessions, i \in 1 .. ReadsCap : t = <<x, i>>
    BY <1>5 DEF ReadsOf
  <2>2. src = "terminal" /\ i <= Len(new[x]) /\ new[x][i] = a
    BY <1>5, <2>1 DEF ReadsOf
  <2>3. x # s => t \in S
    BY <1>2, <2>1, <2>2 DEF ReadsOf
  <2>4. ASSUME x = s PROVE <<s, i + n>> \in S
    <3>1. i \in 1 .. (Len(rd[s]) - n) /\ i + n \in 1 .. ReadsCap /\ i + n <= Len(rd[s])
      BY <1>1, <1>3, <2>2, <2>4
    <3>2. rd[s][i + n] = a
      BY <1>3, <2>2, <2>4, <3>1
    <3>3. QED
      BY <2>2, <3>1, <3>2 DEF ReadsOf
  <2>5. QED
    BY <2>1, <2>3, <2>4
<1>6. ASSUME NEW i \in B PROVE i \in 1 .. n /\ <<s, i>> \in S
  <2>1. i \in 1 .. n /\ Is(ev[i], src, a)
    BY <1>4, <1>6 DEF EventsOf
  <2>2. src = "terminal" /\ rd[s][i] = a
    BY <2>1 DEF Is, TerminalEvent
  <2>3. i <= Len(rd[s]) /\ i \in 1 .. ReadsCap
    BY <1>1, <2>1
  <2>4. QED
    BY <2>1, <2>2, <2>3 DEF ReadsOf
<1> HIDE DEF A, B, S, ev
<1>7. f \in Injection(A, S)
  <2>1. \A t \in A : f[t] \in S
    BY <1>5
  <2>2. ASSUME NEW t \in A, NEW u \in A, f[t] = f[u] PROVE t = u
    <3>1. /\ t = <<t[1], t[2]>> /\ u = <<u[1], u[2]>> /\ t[2] \in Nat /\ u[2] \in Nat
      BY <1>5
    <3>2. CASE t[1] = s /\ u[1] = s
      BY <1>1, <2>2, <3>1, <3>2
    <3>3. CASE t[1] # s /\ u[1] # s
      BY <2>2, <3>3
    <3>4. CASE (t[1] = s) # (u[1] = s)
      BY <2>2, <3>1, <3>4
    <3>5. QED
      BY <3>2, <3>3, <3>4
  <2>3. QED
    BY <2>1, <2>2 DEF Injection, IsInjective
<1>8. g \in Injection(B, S)
  BY <1>6 DEF Injection, IsInjective
<1>9. ASSUME NEW t \in A, NEW i \in B PROVE f[t] # g[i]
  <2>1. t[2] \in Nat /\ t[2] >= 1 /\ i \in 1 .. n /\ t = <<t[1], t[2]>>
    BY <1>5, <1>6
  <2>2. CASE t[1] = s
    <3>1. t[2] + n # i
      BY <1>1, <2>1
    <3>2. QED
      BY <2>2, <3>1
  <2>3. CASE t[1] # s
    BY <2>1, <2>3
  <2>4. QED
    BY <2>2, <2>3
<1>10. IsFiniteSet(S)
  BY PlacesFinite, FS_EmptySet DEF S
<1> HIDE DEF f, g
<1>11. Cardinality(A) + Cardinality(B) <= Cardinality(S)
  BY <1>7, <1>8, <1>9, <1>10, FitTogether
<1>12. QED
  BY <1>11 DEF A, B, S, new, ev

\* A request is sent to statd.
LEMMA InboxAdd ==
    ASSUME NEW in, IsFiniteSet(in), NEW r, r.events \in Seq(Event), NEW src, NEW a
    PROVE  Cardinality(InboxOf(in \cup {r}, src, a))
              <= Cardinality(InboxOf(in, src, a)) + Cardinality(EventsOf(r.events, src, a))
<1> DEFINE X == InboxOf(in, src, a)
           Y == EventsOf(r.events, src, a)
           D == {t \in InboxOf(in \cup {r}, src, a) : t[1] = r}
           f == [t \in X |-> t]
           g == [t \in D |-> t[2]]
<1>1. IsFiniteSet(X) /\ IsFiniteSet(Y)
  BY PlacesFinite, EventsFinite
<1>2. InboxOf(in \cup {r}, src, a) = X \cup D
  BY DEF InboxOf
<1>3. \A t \in D : t = <<r, t[2]>> /\ t[2] \in Y
  BY DEF InboxOf
<1> HIDE DEF X, Y, D
<1>4. f \in Injection(X, X)
  BY DEF Injection, IsInjective
<1>5. g \in Injection(D, Y)
  BY <1>3 DEF Injection, IsInjective
<1> HIDE DEF f, g
<1>6. Cardinality(X \cup D) <= Cardinality(X) + Cardinality(Y)
  BY <1>1, <1>4, <1>5, FitApart
<1>7. QED
  BY <1>2, <1>6 DEF X, Y

\* statd takes a request from its socket.
LEMMA InboxRemove ==
    ASSUME NEW in, IsFiniteSet(in), NEW r \in in, r.events \in Seq(Event),
           Len(r.events) <= MaxBatch, NEW src, NEW a
    PROVE  Cardinality(InboxOf(in \ {r}, src, a)) + Cardinality(EventsOf(r.events, src, a))
              <= Cardinality(InboxOf(in, src, a))
<1> DEFINE A == InboxOf(in \ {r}, src, a)
           B == EventsOf(r.events, src, a)
           S == InboxOf(in, src, a)
           f == [t \in A |-> t]
           g == [i \in B |-> <<r, i>>]
<1>1. IsFiniteSet(S)
  BY PlacesFinite
<1>2. \A t \in A : t \in S /\ t[1] # r
  BY DEF InboxOf
<1>3. Len(r.events) \in Nat /\ MaxBatch \in Nat
  BY StatisticsAssumption
<1>4. \A i \in B : i \in 1 .. MaxBatch
  BY <1>3 DEF EventsOf
<1>5. \A i \in B : <<r, i>> \in S
  BY <1>4 DEF InboxOf
<1> HIDE DEF A, B, S
<1>6. f \in Injection(A, S) /\ g \in Injection(B, S)
  BY <1>2, <1>5 DEF Injection, IsInjective
<1>7. \A t \in A, i \in B : f[t] # g[i]
  BY <1>2
<1> HIDE DEF f, g
<1>8. QED
  BY <1>1, <1>6, <1>7, FitTogether DEF A, B, S

\* Answers: the places are finite, and nothing but a new answer adds to them.
LEMMA AckingFinite ==
    ASSUME NEW rep, NEW ba, NEW src, NEW a
    PROVE  /\ IsFiniteSet(AckingOf(rep, ba, src, a))
           /\ Cardinality(AckingOf(rep, ba, src, a)) \in Nat
<1>1. IsFiniteSet(Workers) /\ IsFiniteSet(1 .. MaxBatch)
  <2>1. MaxBatch \in Int /\ 1 \in Int /\ IsFiniteSet(Sessions)
    BY StatisticsAssumption
  <2>2. IsFiniteSet(1 .. MaxBatch)
    BY <2>1, FS_Interval
  <2>3. IsFiniteSet(Sessions \cup {Web})
    BY <2>1, FS_AddElement
  <2>4. QED
    BY <2>2, <2>3 DEF Workers
<1>2. IsFiniteSet(Workers \X (1 .. MaxBatch))
  BY <1>1, FS_Product
<1>3. AckingOf(rep, ba, src, a) \in SUBSET (Workers \X (1 .. MaxBatch))
  BY DEF AckingOf
<1>4. IsFiniteSet(AckingOf(rep, ba, src, a))
  BY <1>2, <1>3, FS_Subset
<1>5. QED
  BY <1>4, FS_CardinalityType

LEMMA AckingLess ==
    ASSUME NEW rep, NEW ba, NEW rep2, NEW ba2, NEW src, NEW a,
           \A w \in Workers : [from |-> w, ok |-> TRUE] \in rep2 =>
              [from |-> w, ok |-> TRUE] \in rep /\ ba2[w] = ba[w]
    PROVE  Cardinality(AckingOf(rep2, ba2, src, a)) <= Cardinality(AckingOf(rep, ba, src, a))
<1>1. AckingOf(rep2, ba2, src, a) \in SUBSET AckingOf(rep, ba, src, a)
  BY DEF AckingOf
<1>2. QED
  BY <1>1, AckingFinite, FS_Subset

LEMMA AckingMore ==
    ASSUME NEW rep, NEW ba, NEW w \in Workers, ba[w] \in Seq(Event), NEW src, NEW a
    PROVE  Cardinality(AckingOf(rep \cup {[from |-> w, ok |-> TRUE]}, ba, src, a))
              <= Cardinality(AckingOf(rep, ba, src, a)) + Cardinality(EventsOf(ba[w], src, a))
<1> DEFINE more == rep \cup {[from |-> w, ok |-> TRUE]}
           X == AckingOf(rep, ba, src, a)
           Y == EventsOf(ba[w], src, a)
           D == {t \in AckingOf(more, ba, src, a) : t[1] = w}
           f == [t \in X |-> t]
           g == [t \in D |-> t[2]]
<1>1. IsFiniteSet(X) /\ IsFiniteSet(Y)
  BY AckingFinite, EventsFinite
<1>2. AckingOf(more, ba, src, a) = X \cup D
  <2>1. \A x \in Workers : [from |-> x, ok |-> TRUE] \in more =>
           x = w \/ [from |-> x, ok |-> TRUE] \in rep
    OBVIOUS
  <2> HIDE DEF more
  <2>2. AckingOf(more, ba, src, a) \subseteq X \cup D
    BY <2>1 DEF AckingOf
  <2>3. X \subseteq AckingOf(more, ba, src, a)
    BY DEF AckingOf, more
  <2>4. QED
    BY <2>2, <2>3
<1>3. \A t \in D : t = <<w, t[2]>> /\ t[2] \in Y
  BY DEF AckingOf
<1> HIDE DEF X, Y, D, more
<1>4. f \in Injection(X, X)
  BY DEF Injection, IsInjective
<1>5. g \in Injection(D, Y)
  BY <1>3 DEF Injection, IsInjective
<1> HIDE DEF f, g
<1>6. Cardinality(X \cup D) <= Cardinality(X) + Cardinality(Y)
  BY <1>1, <1>4, <1>5, FitApart
<1>7. QED
  BY <1>2, <1>6 DEF X, Y, more

\* The worker reads its answer.
LEMMA AckingTaken ==
    ASSUME NEW rep, NEW ba \in [Workers -> Seq(Event)], NEW w \in Workers,
           [from |-> w, ok |-> TRUE] \in rep, Len(ba[w]) <= MaxBatch, NEW src, NEW a
    PROVE  Cardinality(AckingOf(rep \ {[from |-> w, ok |-> TRUE]}, [ba EXCEPT ![w] = <<>>], src, a))
              + Cardinality(EventsOf(ba[w], src, a))
              <= Cardinality(AckingOf(rep, ba, src, a))
<1> DEFINE A == AckingOf(rep \ {[from |-> w, ok |-> TRUE]}, [ba EXCEPT ![w] = <<>>], src, a)
           B == EventsOf(ba[w], src, a)
           S == AckingOf(rep, ba, src, a)
           f == [t \in A |-> t]
           g == [i \in B |-> <<w, i>>]
<1>1. IsFiniteSet(S)
  BY AckingFinite
<1>2. \A t \in A : t \in S /\ t[1] # w
  BY DEF AckingOf
<1>3. Len(ba[w]) \in Nat /\ MaxBatch \in Nat
  BY StatisticsAssumption
<1>4. \A i \in B : i \in 1 .. MaxBatch
  BY <1>3 DEF EventsOf
<1>5. \A i \in B : <<w, i>> \in S
  BY <1>4 DEF AckingOf
<1> HIDE DEF A, B, S
<1>6. f \in Injection(A, S) /\ g \in Injection(B, S)
  BY <1>2, <1>5 DEF Injection, IsInjective
<1>7. \A t \in A, i \in B : f[t] # g[i]
  BY <1>2
<1> HIDE DEF f, g
<1>8. QED
  BY <1>1, <1>6, <1>7, FitTogether DEF A, B, S

-----------------------------------------------------------------------------
(* The steps.                                                              *)

\* Of two numbers Min is the smaller.
LEMMA MinOfTwo ==
    ASSUME NEW x \in Nat, NEW y \in Nat
    PROVE  Min({x, y}) \in Nat /\ Min({x, y}) <= x /\ Min({x, y}) <= y
<1>1. \E m \in {x, y} : \A k \in {x, y} : m <= k
  BY x <= y \/ y <= x
<1>2. Min({x, y}) \in {x, y} /\ \A k \in {x, y} : Min({x, y}) <= k
  BY <1>1 DEF Min
<1>3. QED
  BY <1>2

\* A channel holds what it held, and the new element if there is room.
LEMMA TrySendAdds ==
    ASSUME NEW S, NEW q \in Seq(S), NEW e \in S, NEW cap \in Nat, Len(q) <= cap
    PROVE  /\ TrySend(q, e, cap) \in Seq(S) /\ Len(TrySend(q, e, cap)) <= cap
           /\ \A i \in DOMAIN TrySend(q, e, cap) :
                 TrySend(q, e, cap)[i] = e \/ (i \in DOMAIN q /\ TrySend(q, e, cap)[i] = q[i])
<1>1. CASE Len(q) < cap
  <2>1. /\ TrySend(q, e, cap) = Append(q, e) /\ Len(q) \in Nat /\ Append(q, e) \in Seq(S)
        /\ Len(Append(q, e)) = Len(q) + 1 /\ DOMAIN Append(q, e) = 1 .. (Len(q) + 1)
        /\ DOMAIN q = 1 .. Len(q)
    BY <1>1 DEF TrySend
  <2>2. ASSUME NEW i \in 1 .. (Len(q) + 1)
        PROVE  Append(q, e)[i] = e \/ (i \in 1 .. Len(q) /\ Append(q, e)[i] = q[i])
    <3>1. CASE i = Len(q) + 1
      <4>1. Append(q, e)[i] = e
        BY <2>1, <3>1
      <4>2. QED
        BY <4>1
    <3>2. CASE i # Len(q) + 1
      <4>1. i \in 1 .. Len(q)
        BY <2>1, <3>2
      <4>2. QED
        BY <4>1
    <3>3. QED
      BY <3>1, <3>2
  <2>3. QED
    BY <1>1, <2>1, <2>2
<1>2. CASE ~(Len(q) < cap)
  BY <1>2 DEF TrySend
<1>3. QED
  BY <1>1, <1>2

\* A function on 1 .. n is a sequence of length n.
LEMMA FunctionIsSeq ==
    ASSUME NEW S, NEW n \in Nat, NEW f \in [1 .. n -> S]
    PROVE  f \in Seq(S) /\ Len(f) = n
  OBVIOUS

\* The elements of two sequences put together, and of the rest of one.
LEMMA ConcatIs ==
    ASSUME NEW S, NEW x \in Seq(S), NEW y \in Seq(S)
    PROVE  /\ x \o y \in Seq(S) /\ Len(x \o y) = Len(x) + Len(y)
           /\ \A i \in 1 .. Len(x) : (x \o y)[i] = x[i]
           /\ \A i \in (Len(x) + 1) .. (Len(x) + Len(y)) : (x \o y)[i] = y[i - Len(x)]
  OBVIOUS

LEMMA RestIs ==
    ASSUME NEW S, NEW q \in Seq(S), NEW n \in 0 .. Len(q)
    PROVE  /\ SubSeq(q, n + 1, Len(q)) \in Seq(S) /\ Len(SubSeq(q, n + 1, Len(q))) = Len(q) - n
           /\ \A i \in 1 .. (Len(q) - n) : SubSeq(q, n + 1, Len(q))[i] = q[i + n]
<1>1. Len(q) \in Nat /\ n \in Nat /\ n <= Len(q)
  OBVIOUS
<1>2. QED
  BY <1>1

\* What took place stays so.
LEMMA GenuineStays ==
    ASSUME NEW sn, NEW sn2, NEW g, NEW g2, NEW e \in Event, GenuineIn(sn, g, e), sn \subseteq sn2,
           \A a \in Articles : g[a] \in Nat /\ g2[a] \in Nat /\ g[a] <= g2[a]
    PROVE  GenuineIn(sn2, g2, e)
<1>1. e.article \in Articles
  BY DEF Event
<1>2. g[e.article] > 0 => g2[e.article] > 0
  BY <1>1
<1>3. QED
  BY <1>2 DEF GenuineIn

\* Places that only lose something.
LEMMA PlacesShrink ==
    ASSUME NEW src, NEW a, NEW pe, NEW pe2, NEW rd, NEW rd2, NEW in, NEW in2,
           IsFiniteSet(in),
           \A s \in Sessions : pe2[s] \subseteq pe[s],
           \A s \in Sessions : rd2[s] = rd[s] \/ rd2[s] = <<>>,
           in2 \subseteq in
    PROVE  /\ Cardinality(PendingOf(pe2, src, a)) <= Cardinality(PendingOf(pe, src, a))
           /\ Cardinality(ReadsOf(rd2, src, a)) <= Cardinality(ReadsOf(rd, src, a))
           /\ Cardinality(InboxOf(in2, src, a)) <= Cardinality(InboxOf(in, src, a))
<1>1. PendingOf(pe2, src, a) \in SUBSET PendingOf(pe, src, a)
  BY DEF PendingOf
<1>2. ReadsOf(rd2, src, a) \in SUBSET ReadsOf(rd, src, a)
  <2>1. ASSUME NEW t \in ReadsOf(rd2, src, a) PROVE t \in ReadsOf(rd, src, a)
    <3>1. PICK x \in Sessions, i \in 1 .. ReadsCap : t = <<x, i>>
      BY <2>1 DEF ReadsOf
    <3>2. src = "terminal" /\ i <= Len(rd2[x]) /\ rd2[x][i] = a
      BY <2>1, <3>1 DEF ReadsOf
    <3>3. rd2[x] # <<>>
      BY <3>2
    <3>4. QED
      BY <3>1, <3>2, <3>3 DEF ReadsOf
  <2>2. QED
    BY <2>1
<1>3. InboxOf(in2, src, a) \in SUBSET InboxOf(in, src, a)
  BY DEF InboxOf
<1>4. QED
  BY <1>1, <1>2, <1>3, PlacesFinite, FS_Subset

\* An empty sequence holds nothing.
LEMMA NoEvents ==
    ASSUME NEW src, NEW a
    PROVE  Cardinality(EventsOf(<<>>, src, a)) = 0
<1>1. EventsOf(<<>>, src, a) = {}
  BY DEF EventsOf
<1>2. QED
  BY <1>1, FS_EmptySet

\* What TypeOK and MoreTypes say makes them numbers.
LEMMA FlowNumbers ==
    ASSUME TypeOK, MoreTypes, NEW a \in Articles, NEW src \in Sources
    PROVE  HeldBack \in Seq(Event) /\ Numbers(src, a)
<1>1. articles[a][src] \in Nat
  BY DEF TypeOK
<1>2. queue \in Seq(Event) /\ IsFiniteSet(inbox)
  BY DEF TypeOK, MoreTypes
<1>3. HeldBack \in Seq(Event)
  BY DEF MoreTypes, HeldBack, Workers
<1>4. /\ Cardinality(EventsOf(queue, src, a)) \in Nat
      /\ Cardinality(EventsOf(HeldBack, src, a)) \in Nat
  BY <1>2, <1>3, EventsFinite
<1>5. /\ Cardinality(PendingOf(pending, src, a)) \in Nat
      /\ Cardinality(ReadsOf(reads, src, a)) \in Nat
      /\ Cardinality(InboxOf(inbox, src, a)) \in Nat
  BY <1>2, PlacesFinite
<1>6. Happened(src, a) \in Nat
  <2>1. IsFiniteSet({s \in Sessions : <<s, a>> \in seen})
    BY StatisticsAssumption, FS_Subset
  <2>2. Cardinality({s \in Sessions : <<s, a>> \in seen}) \in Nat
    BY <2>1, FS_CardinalityType
  <2>3. gets[a] \in Nat
    BY DEF MoreTypes
  <2>4. QED
    BY <2>2, <2>3 DEF Happened
<1>7. QED
  BY <1>1, <1>3, <1>4, <1>5, <1>6 DEF Numbers

\* So it is after a step.
LEMMA FlowNumbersNext ==
    ASSUME NEW CONSTANT a \in Articles, NEW CONSTANT src \in Sources
    PROVE  (TypeOK /\ MoreTypes => HeldBack \in Seq(Event) /\ Numbers(src, a))'
<1>1. TypeOK /\ MoreTypes => HeldBack \in Seq(Event) /\ Numbers(src, a)
  BY FlowNumbers
<1>2. QED
  BY <1>1, PTL

\* Before a step and after one that keeps the types.
LEMMA NumbersAround ==
    ASSUME IInv, TypeOK', MoreTypes', NEW a \in Articles, NEW src \in Sources
    PROVE  /\ HeldBack \in Seq(Event) /\ Numbers(src, a) /\ FlowAt(src, a)
           /\ HeldBack' \in Seq(Event) /\ Numbers(src, a)'
<1>1. HeldBack \in Seq(Event) /\ Numbers(src, a) /\ FlowAt(src, a)
  BY FlowNumbers DEF IInv, FlowOK
<1>2. HeldBack' \in Seq(Event) /\ Numbers(src, a)'
  BY FlowNumbersNext
<1>3. QED
  BY <1>1, <1>2

\* No place has more than before, and nothing that happened is forgotten.
LEMMA FlowShrinks ==
    ASSUME NEW a, NEW src, Numbers(src, a), Numbers(src, a)', FlowAt(src, a),
           articles'[a][src] <= articles[a][src],
           Cardinality(PendingOf(pending', src, a)) <= Cardinality(PendingOf(pending, src, a)),
           Cardinality(ReadsOf(reads', src, a)) <= Cardinality(ReadsOf(reads, src, a)),
           Cardinality(EventsOf(queue', src, a)) <= Cardinality(EventsOf(queue, src, a)),
           Cardinality(EventsOf(HeldBack', src, a)) <= Cardinality(EventsOf(HeldBack, src, a)),
           Cardinality(InboxOf(inbox', src, a)) <= Cardinality(InboxOf(inbox, src, a)),
           Happened(src, a) <= Happened(src, a)'
    PROVE  FlowAt(src, a)'
  BY DEF FlowAt, Numbers

\* A step on which events are only lost.
LEMMA FlowLoses ==
    ASSUME IInv, TypeOK', MoreTypes', UNCHANGED <<articles, queue, seen, gets>>,
           \A s \in Sessions : pending'[s] \subseteq pending[s],
           \A s \in Sessions : reads'[s] = reads[s] \/ reads'[s] = <<>>,
           inbox' \subseteq inbox, HeldBack' = HeldBack \/ HeldBack' = <<>>
    PROVE  FlowOK'
<1>1. SUFFICES ASSUME NEW a \in Articles, NEW src \in Sources PROVE FlowAt(src, a)'
  BY DEF FlowOK
<1>2. Numbers(src, a) /\ FlowAt(src, a) /\ Numbers(src, a)'
  BY NumbersAround
<1>3. /\ Cardinality(PendingOf(pending', src, a)) <= Cardinality(PendingOf(pending, src, a))
      /\ Cardinality(ReadsOf(reads', src, a)) <= Cardinality(ReadsOf(reads, src, a))
      /\ Cardinality(InboxOf(inbox', src, a)) <= Cardinality(InboxOf(inbox, src, a))
  <2>1. IsFiniteSet(inbox)
    BY DEF IInv, MoreTypes
  <2>2. QED
    BY <2>1, PlacesShrink
<1>4. Cardinality(EventsOf(HeldBack', src, a)) <= Cardinality(EventsOf(HeldBack, src, a))
  BY <1>2, NoEvents DEF Numbers
<1>5. Happened(src, a)' = Happened(src, a)
  BY DEF Happened
<1>6. articles'[a][src] = articles[a][src] /\ EventsOf(queue', src, a) = EventsOf(queue, src, a)
  OBVIOUS
<1>7. /\ articles'[a][src] <= articles[a][src] /\ Happened(src, a) <= Happened(src, a)'
      /\ Cardinality(EventsOf(queue', src, a)) <= Cardinality(EventsOf(queue, src, a))
  BY <1>2, <1>5, <1>6 DEF Numbers
<1>8. QED
  BY <1>2, <1>3, <1>4, <1>7, FlowShrinks

\* A step on which no answer arrives and no batch of a worker that has one changes.
LEMMA AckLoses ==
    ASSUME IInv, UNCHANGED <<acked, articles>>,
           \A w \in Workers : [from |-> w, ok |-> TRUE] \in replies' =>
              [from |-> w, ok |-> TRUE] \in replies /\ batch'[w] = batch[w]
    PROVE  AckOK'
<1>1. SUFFICES ASSUME NEW a \in Articles, NEW src \in Sources PROVE AckAt(src, a)'
  BY DEF AckOK
<1>2. Cardinality(AckingOf(replies', batch', src, a)) <= Cardinality(AckingOf(replies, batch, src, a))
  BY AckingLess
<1>3. AckAt(src, a) /\ acked[a][src] \in Nat /\ articles[a][src] \in Nat
  BY DEF IInv, AckOK, MoreTypes, TypeOK
<1>4. /\ Cardinality(AckingOf(replies', batch', src, a)) \in Nat
      /\ Cardinality(AckingOf(replies, batch, src, a)) \in Nat
  BY AckingFinite
<1>5. QED
  BY <1>2, <1>3, <1>4 DEF AckAt

\* Steps on which no event moves.
LEMMA QuietKeeps ==
    ASSUME IInv,
           UNCHANGED <<pending, reads, queue, worker, batch, sent, inbox, replies, dbVars, history>>
    PROVE  /\ DelayOK' /\ LinkOK' /\ GenuineOK' /\ VisitorsOK' /\ FlowOK' /\ AckOK'
<1>1. DelayOK' /\ LinkOK' /\ VisitorsOK'
  BY DEF dbVars, history, IInv, DelayOK, LinkOK, VisitorsOK
<1>2. GenuineOK'
  BY DEF history, IInv, GenuineOK, Genuine
<1>3. FlowOK' /\ AckOK'
  BY DEF dbVars, history, IInv, FlowOK, FlowAt, HeldBack, Happened, AckOK, AckAt
<1>4. QED
  BY <1>1, <1>2, <1>3

\* A worker sends a batch: it has a number that no other request has, and no answer to an
\* earlier one waits.
LEMMA RequestKeeps ==
    ASSUME IInv, NEW w \in Workers, worker[w] # "request",
           NEW ev \in Seq(Event), Len(ev) <= MaxBatch,
           Request(w, ev), UNCHANGED <<replies, acked, articles>>
    PROVE  /\ worker' \in [Workers -> {"recv", "delay", "request", "gone"}]
           /\ \A x \in Workers : batch'[x] \in Seq(Event) /\ Len(batch'[x]) <= MaxBatch
           /\ batch' \in [Workers -> Seq(Event)] /\ sent' \in [Workers -> Nat]
           /\ inbox' \subseteq Requests /\ IsFiniteSet(inbox')
           /\ \A r \in inbox' : Len(r.events) <= MaxBatch
           /\ DelayOK' /\ LinkOK' /\ AckOK'
           /\ batch'[w] \in {ev, <<>>} /\ worker'[w] # "delay"
           /\ \A x \in Workers : x # w => batch'[x] = batch[x] /\ worker'[x] = worker[x]
           /\ \/ inbox' = inbox
              \/ inbox' = inbox \cup {[from |-> w, no |-> sent[w] + 1, events |-> ev]}
<1> DEFINE r0 == [from |-> w, no |-> sent[w] + 1, events |-> ev]
<1>1. /\ worker \in [Workers -> {"recv", "delay", "request", "gone"}]
      /\ batch \in [Workers -> Seq(Event)] /\ sent \in [Workers -> Nat]
      /\ \A x \in Workers : Len(batch[x]) <= MaxBatch
      /\ inbox \subseteq Requests /\ IsFiniteSet(inbox)
      /\ \A r \in inbox : Len(r.events) <= MaxBatch
      /\ <<>> \in Seq(Event) /\ Len(<<>>) <= MaxBatch
  BY StatisticsAssumption DEF IInv, TypeOK, MoreTypes
<1>2. worker' \in [Workers -> {"recv", "delay", "request", "gone"}] /\ worker'[w] \in {"recv", "request"}
  BY <1>1 DEF Request
<1>3. /\ batch' \in [Workers -> Seq(Event)] /\ batch'[w] \in {ev, <<>>}
      /\ \A x \in Workers : x # w => batch'[x] = batch[x] /\ worker'[x] = worker[x]
  BY <1>1 DEF Request
<1>4. \A x \in Workers : batch'[x] \in Seq(Event) /\ Len(batch'[x]) <= MaxBatch
  BY <1>1, <1>3
<1>5. sent' \in [Workers -> Nat]
  <2>1. sent \in [Workers -> Nat] /\ sent[w] + 1 \in Nat
    BY <1>1
  <2>2. sent' = [sent EXCEPT ![w] = sent[w] + 1] \/ sent' = sent
    BY DEF Request
  <2>3. QED
    BY <2>1, <2>2
<1>6. inbox' = inbox \/ inbox' = inbox \cup {r0}
  BY DEF Request
<1>7. r0 \in Requests /\ r0.from = w /\ r0.no = sent[w] + 1 /\ r0.events = ev
  BY <1>1 DEF Requests
<1>8. inbox' \subseteq Requests /\ IsFiniteSet(inbox')
  <2>1. IsFiniteSet(inbox \cup {r0})
    BY <1>1, FS_AddElement
  <2>2. QED
    BY <1>1, <1>6, <1>7, <2>1
<1>9. \A r \in inbox' : Len(r.events) <= MaxBatch
  BY <1>1, <1>6, <1>7
<1>10. DelayOK'
  BY <1>2, <1>3 DEF IInv, DelayOK
<1>11. \A q \in replies : q.from # w
  BY DEF IInv, LinkOK
<1>12. AckOK'
  <2>1. \A x \in Workers : [from |-> x, ok |-> TRUE] \in replies' =>
           [from |-> x, ok |-> TRUE] \in replies /\ batch'[x] = batch[x]
    BY <1>3, <1>11
  <2>2. QED
    BY <2>1, AckLoses
<1>13. LinkOK'
  <2>1. CASE inbox' = inbox /\ UNCHANGED sent /\ worker'[w] = "recv"
    <3>1. \A r \in inbox : r.from \in Workers
      BY <1>1 DEF Requests
    <3>2. \A r \in inbox' : worker'[r.from] = "request" /\ r.no = sent'[r.from] =>
             r.events = batch'[r.from] /\ \A q \in replies' : q.from # r.from
      BY <1>3, <2>1, <3>1 DEF IInv, LinkOK
    <3>3. \A q \in replies' : worker'[q.from] = "request"
      <4>1. \A q \in replies : q.from \in Workers /\ worker[q.from] = "request"
        BY DEF IInv, MoreTypes, LinkOK
      <4>2. QED
        BY <1>3, <1>11, <4>1
    <3>4. QED
      BY <2>1, <3>2, <3>3 DEF IInv, LinkOK
  <2>2. CASE /\ inbox' = inbox \cup {r0} /\ worker'[w] = "request" /\ batch'[w] = ev
             /\ sent' = [sent EXCEPT ![w] = @ + 1]
    <3>1. sent'[w] = sent[w] + 1 /\ sent[w] \in Nat /\ \A x \in Workers : x # w => sent'[x] = sent[x]
      BY <1>1, <2>2
    <3>2. \A r \in inbox : r.from \in Workers /\ r.no \in Nat /\ r.no <= sent[r.from]
      BY <1>1 DEF Requests, IInv, LinkOK
    <3>3. \A r \in inbox : r.from = w => r.no # sent[w] + 1
      BY <3>1, <3>2
    <3>4. \A r \in inbox' : r.no <= sent'[r.from]
      BY <1>7, <2>2, <3>1, <3>2
    <3>5. \A r, q \in inbox' : r.from = q.from /\ r.no = q.no => r = q
      BY <1>7, <2>2, <3>3 DEF IInv, LinkOK
    <3>6. ASSUME NEW r \in inbox', worker'[r.from] = "request", r.no = sent'[r.from]
          PROVE  r.events = batch'[r.from] /\ \A q \in replies' : q.from # r.from
      <4>1. CASE r = r0
        BY <1>7, <1>11, <2>2, <4>1
      <4>2. CASE r # r0
        <5>1. r \in inbox /\ r.from # w
          BY <2>2, <3>1, <3>3, <3>6, <4>2
        <5>2. worker[r.from] = "request" /\ r.no = sent[r.from] /\ batch'[r.from] = batch[r.from]
          BY <1>3, <3>1, <3>2, <3>6, <5>1
        <5>3. QED
          BY <5>1, <5>2 DEF IInv, LinkOK
      <4>3. QED
        BY <4>1, <4>2
    <3>7. \A q \in replies' : worker'[q.from] = "request"
      <4>1. \A q \in replies : q.from \in Workers /\ worker[q.from] = "request"
        BY DEF IInv, MoreTypes, LinkOK
      <4>2. QED
        BY <1>3, <1>11, <4>1
    <3>8. \A p, q \in replies' : p.from = q.from => p = q
      BY DEF IInv, LinkOK
    <3>9. QED
      BY <3>4, <3>5, <3>6, <3>7, <3>8 DEF LinkOK
  <2>3. QED
    BY <1>1, <2>1, <2>2 DEF Request
<1>14. QED
  BY <1>2, <1>3, <1>4, <1>5, <1>6, <1>8, <1>9, <1>10, <1>12, <1>13

\* statd comes back.
LEMMA RestartKeeps ==
    ASSUME IInv, Restart
    PROVE  IInv'
<1>1. TypeOK'
  BY DEF Restart, watchVars, webVars, workVars, dbVars, IInv, TypeOK
<1>2. MoreTypes'
  BY DEF Restart, webVars, workVars, history, IInv, MoreTypes
<1>3. ArmedOK'
  BY DEF Restart, watchVars, history, IInv, ArmedOK
<1>4. DelayOK' /\ LinkOK' /\ GenuineOK' /\ VisitorsOK' /\ FlowOK' /\ AckOK'
  BY QuietKeeps DEF Restart, watchVars, workVars
<1>5. QED
  BY <1>1, <1>2, <1>3, <1>4 DEF IInv

\* Watchers are registered before the guest can read.
LEMMA PrepareKeeps ==
    ASSUME IInv, NEW s \in Sessions, Prepare(s)
    PROVE  IInv'
<1>1. TypeOK'
  <2>1. PICK p \in Templates, all \in BOOLEAN :
           /\ template' = [template EXCEPT ![s] = p]
           /\ armed' = [armed EXCEPT ![s] = IF all THEN p.articles ELSE {}]
           /\ watching' = [watching EXCEPT ![s] = (IF all THEN p.articles ELSE {}) # {}]
    BY DEF Prepare
  <2>2. template' \in [Sessions -> Templates \cup {Unset}]
    BY <2>1 DEF IInv, TypeOK
  <2>3. armed' \in [Sessions -> SUBSET Articles]
    <3>1. (IF all THEN p.articles ELSE {}) \in SUBSET Articles
      BY TemplatesAssumption
    <3> QED BY <2>1, <3>1 DEF IInv, TypeOK
  <2>4. watching' \in [Sessions -> BOOLEAN]
    <3>1. ((IF all THEN p.articles ELSE {}) # {}) \in BOOLEAN
      OBVIOUS
    <3> QED BY <2>1, <3>1, Zenon DEF IInv, TypeOK
  <2>5. /\ phase' = [phase EXCEPT ![s] = "asking"]
        /\ UNCHANGED <<pending, reads, queue, worker, batch, routes, lock, totals, articles, visitors>>
    BY DEF Prepare, webVars, workVars, statdVars, dbVars
  <2> QED BY <2>2, <2>3, <2>4, <2>5 DEF IInv, TypeOK
<1>2. MoreTypes'
  BY DEF Prepare, webVars, workVars, statdVars, history, IInv, MoreTypes
<1>3. ArmedOK'
  BY DEF Prepare, history, IInv, ArmedOK
<1>4. DelayOK' /\ LinkOK' /\ GenuineOK' /\ VisitorsOK' /\ FlowOK' /\ AckOK'
  BY QuietKeeps DEF Prepare, workVars, statdVars
<1>5. QED
  BY <1>1, <1>2, <1>3, <1>4 DEF IInv

\* A snapshot changes no table;
LEMMA SnapshotTotalsKeeps ==
    ASSUME IInv, NEW s \in Sessions, SnapshotTotals(s)
    PROVE  IInv'
<1>1. TypeOK'
  BY DEF SnapshotTotals, webVars, workVars, dbVars, IInv, TypeOK
<1>2. MoreTypes'
  BY DEF SnapshotTotals, webVars, workVars, history, IInv, MoreTypes
<1>3. ArmedOK'
  BY DEF SnapshotTotals, history, IInv, ArmedOK
<1>4. DelayOK' /\ LinkOK' /\ GenuineOK' /\ VisitorsOK' /\ FlowOK' /\ AckOK'
  BY QuietKeeps DEF SnapshotTotals, workVars
<1>5. QED
  BY <1>1, <1>2, <1>3, <1>4 DEF IInv

\* nor does its second half,
LEMMA SnapshotArticlesKeeps ==
    ASSUME IInv, NEW s \in Sessions, SnapshotArticles(s)
    PROVE  IInv'
<1>1. TypeOK'
  BY DEF SnapshotArticles, webVars, workVars, dbVars, IInv, TypeOK
<1>2. MoreTypes'
  BY DEF SnapshotArticles, webVars, workVars, history, IInv, MoreTypes
<1>3. ArmedOK'
  BY DEF SnapshotArticles, history, IInv, ArmedOK
<1>4. DelayOK' /\ LinkOK' /\ GenuineOK' /\ VisitorsOK' /\ FlowOK' /\ AckOK'
  BY QuietKeeps DEF SnapshotArticles, workVars
<1>5. QED
  BY <1>1, <1>2, <1>3, <1>4 DEF IInv

\* nor its failure.
LEMMA SnapshotFailsKeeps ==
    ASSUME IInv, NEW s \in Sessions, SnapshotFails(s)
    PROVE  IInv'
<1>1. TypeOK'
  BY DEF SnapshotFails, webVars, workVars, statdVars, dbVars, IInv, TypeOK
<1>2. MoreTypes'
  BY DEF SnapshotFails, webVars, workVars, statdVars, history, IInv, MoreTypes
<1>3. ArmedOK'
  BY DEF SnapshotFails, history, IInv, ArmedOK
<1>4. DelayOK' /\ LinkOK' /\ GenuineOK' /\ VisitorsOK' /\ FlowOK' /\ AckOK'
  BY QuietKeeps DEF SnapshotFails, workVars, statdVars
<1>5. QED
  BY <1>1, <1>2, <1>3, <1>4 DEF IInv

\* The flag is set.
LEMMA StopKeeps ==
    ASSUME IInv, NEW s \in Sessions, Stop(s)
    PROVE  IInv'
<1>1. TypeOK'
  BY DEF Stop, webVars, workVars, statdVars, dbVars, IInv, TypeOK
<1>2. MoreTypes'
  BY DEF Stop, webVars, workVars, statdVars, history, IInv, MoreTypes
<1>3. ArmedOK'
  BY DEF Stop, history, IInv, ArmedOK
<1>4. DelayOK' /\ LinkOK' /\ GenuineOK' /\ VisitorsOK' /\ FlowOK' /\ AckOK'
  BY QuietKeeps DEF Stop, workVars, statdVars
<1>5. QED
  BY <1>1, <1>2, <1>3, <1>4 DEF IInv

\* A deployment;
LEMMA PublishKeeps ==
    ASSUME IInv, Publish
    PROVE  IInv'
<1>1. TypeOK'
  BY DEF Publish, watchVars, workVars, statdVars, dbVars, IInv, TypeOK
<1>2. MoreTypes'
  BY DEF Publish, workVars, statdVars, history, IInv, MoreTypes
<1>3. ArmedOK'
  BY DEF Publish, watchVars, history, IInv, ArmedOK
<1>4. DelayOK' /\ LinkOK' /\ GenuineOK' /\ VisitorsOK' /\ FlowOK' /\ AckOK'
  BY QuietKeeps DEF Publish, watchVars, workVars, statdVars
<1>5. QED
  BY <1>1, <1>2, <1>3, <1>4 DEF IInv

\* and the reload that follows it.
LEMMA ReloadKeeps ==
    ASSUME IInv, Reload
    PROVE  IInv'
<1>1. TypeOK'
  <2>1. routes' \subseteq Articles
    <3>1. index \subseteq Articles
      <4>1. index \in SUBSET Articles \/ index = Broken
        BY DEF IInv, MoreTypes
      <4>2. index # Broken
        BY DEF Reload, Readable
      <4>3. QED
        BY <4>1, <4>2
    <3>2. QED
      BY <3>1 DEF Reload, LoadRoutes
  <2>2. UNCHANGED <<watchVars, workVars, statdVars>>
    BY DEF Reload
  <2>3. QED
    BY <2>1, <2>2 DEF watchVars, workVars, statdVars, dbVars, IInv, TypeOK
<1>2. MoreTypes'
  BY DEF Reload, workVars, statdVars, history, IInv, MoreTypes
<1>3. ArmedOK'
  BY DEF Reload, watchVars, history, IInv, ArmedOK
<1>4. DelayOK' /\ LinkOK' /\ GenuineOK' /\ VisitorsOK' /\ FlowOK' /\ AckOK'
  BY QuietKeeps DEF Reload, watchVars, workVars, statdVars
<1>5. QED
  BY <1>1, <1>2, <1>3, <1>4 DEF IInv

\* A crash loses the requests and answers on the way; what was committed stays.
LEMMA CrashKeeps ==
    ASSUME IInv, Crash
    PROVE  IInv'
<1>1. TypeOK'
  BY DEF Crash, webVars, workVars, dbVars, IInv, TypeOK
<1>2. MoreTypes'
  <2>1. inbox' = {} /\ replies' = {} /\ IsFiniteSet({})
    BY FS_EmptySet DEF Crash
  <2>2. UNCHANGED <<webVars, workVars, history>>
    BY DEF Crash
  <2>3. QED
    BY <2>1, <2>2 DEF webVars, workVars, history, IInv, MoreTypes
<1>3. DelayOK'
  BY DEF Crash, workVars, IInv, DelayOK
<1>4. ArmedOK'
  BY DEF Crash, history, IInv, ArmedOK
<1>5. LinkOK'
  BY DEF Crash, IInv, LinkOK
<1>6. GenuineOK'
  BY DEF Crash, workVars, history, IInv, GenuineOK, Genuine
<1>7. VisitorsOK'
  BY DEF Crash, dbVars, history, IInv, VisitorsOK
<1>8. FlowOK'
  <2>1. UNCHANGED <<articles, queue, seen, gets, pending, reads>> /\ inbox' \subseteq inbox
    BY DEF Crash, workVars, dbVars, history
  <2>2. HeldBack' = HeldBack
    BY DEF Crash, workVars, HeldBack
  <2>3. QED
    BY <1>1, <1>2, <2>1, <2>2, FlowLoses
<1>9. AckOK'
  <2>1. UNCHANGED <<acked, articles>> /\ replies' = {}
    BY DEF Crash, dbVars, history
  <2>2. QED
    BY <2>1, AckLoses
<1>10. QED
  BY <1>1, <1>2, <1>3, <1>4, <1>5, <1>6, <1>7, <1>8, <1>9 DEF IInv

\* A registration fires once, on the first read of its article in the session.
LEMMA GuestReadsKeeps ==
    ASSUME IInv, NEW s \in Sessions, NEW b \in Articles, GuestReads(s, b)
    PROVE  IInv'
<1>1. TypeOK'
  BY DEF GuestReads, webVars, workVars, statdVars, dbVars, IInv, TypeOK
<1>2. MoreTypes'
  BY DEF GuestReads, webVars, workVars, statdVars, IInv, MoreTypes
<1>3. DelayOK'
  BY DEF GuestReads, workVars, IInv, DelayOK
<1>4. ArmedOK'
  <2>1. SUFFICES ASSUME NEW x \in Sessions, NEW a \in Articles,
                        phase[x] \in {"new", "asking"} \/ a \in armed'[x], <<x, a>> \in seen'
                 PROVE  FALSE
    BY DEF ArmedOK, GuestReads
  <2>2. /\ seen' = seen \cup {<<s, b>>} /\ phase[s] \in {"on", "stopping"}
        /\ armed \in [Sessions -> SUBSET Articles]
        /\ armed' = [armed EXCEPT ![s] = armed[s] \ {b}]
    BY DEF GuestReads, IInv, TypeOK
  <2>3. armed'[x] \subseteq armed[x] /\ (x = s => b \notin armed'[x])
    BY <2>2
  <2>4. <<x, a>> \notin seen
    BY <2>1, <2>3 DEF IInv, ArmedOK
  <2>5. x = s /\ a = b
    BY <2>1, <2>2, <2>4
  <2>6. QED
    BY <2>1, <2>2, <2>3, <2>5
<1>5. LinkOK'
  BY DEF GuestReads, workVars, statdVars, IInv, LinkOK
<1>6. GenuineOK'
  <2>1. /\ seen' = seen \cup {<<s, b>>} /\ UNCHANGED <<gets, reads, queue, batch, inbox>>
        /\ \A x \in Sessions : \/ pending'[x] \subseteq pending[x]
                               \/ x = s /\ pending'[x] \subseteq pending[x] \cup {b}
    BY DEF GuestReads, workVars, statdVars, IInv, TypeOK
  <2> QED BY <2>1 DEF IInv, GenuineOK, Genuine, GenuineIn
<1>7. VisitorsOK'
  BY DEF GuestReads, statdVars, dbVars, IInv, VisitorsOK
<1>8. FlowOK'
  <2>1. SUFFICES ASSUME NEW a \in Articles, NEW src \in Sources PROVE FlowAt(src, a)'
    BY DEF FlowOK
  <2>2. Numbers(src, a) /\ FlowAt(src, a) /\ Numbers(src, a)'
    BY <1>1, <1>2, NumbersAround
  <2>3. /\ UNCHANGED <<articles, queue, reads, inbox, gets>>
        /\ seen' = seen \cup {<<s, b>>}
        /\ pending' = [pending EXCEPT ![s] = IF b \in armed[s] THEN pending[s] \cup {b} ELSE pending[s]]
        /\ pending \in [Sessions -> SUBSET Articles]
    BY DEF GuestReads, workVars, statdVars, dbVars, IInv, TypeOK
  <2>4. HeldBack' = HeldBack
    BY DEF GuestReads, workVars, HeldBack
  <2>5. /\ articles'[a][src] <= articles[a][src]
        /\ Cardinality(ReadsOf(reads', src, a)) <= Cardinality(ReadsOf(reads, src, a))
        /\ Cardinality(EventsOf(queue', src, a)) <= Cardinality(EventsOf(queue, src, a))
        /\ Cardinality(EventsOf(HeldBack', src, a)) <= Cardinality(EventsOf(HeldBack, src, a))
        /\ Cardinality(InboxOf(inbox', src, a)) <= Cardinality(InboxOf(inbox, src, a))
    BY <2>2, <2>3, <2>4 DEF Numbers
  <2>6. CASE src = "terminal" /\ a = b /\ b \in armed[s]
    <3> DEFINE S == {x \in Sessions : <<x, a>> \in seen}
               T == {x \in Sessions : <<x, a>> \in seen'}
    <3>1. s \notin S
      BY <2>6 DEF IInv, ArmedOK
    <3>2. T = S \cup {s} /\ IsFiniteSet(S)
      BY <2>3, <2>6, StatisticsAssumption, FS_Subset
    <3> HIDE DEF S, T
    <3>3. Cardinality(T) = Cardinality(S) + 1
      BY <3>1, <3>2, FS_AddElement
    <3>4. Happened(src, a) = Cardinality(S) /\ Happened(src, a)' = Cardinality(T)
      BY <2>6 DEF Happened, S, T
    <3>5. PendingOf(pending', src, a) \subseteq PendingOf(pending, src, a) \cup {s}
      BY <2>3 DEF PendingOf
    <3>6. Cardinality(PendingOf(pending', src, a)) <= Cardinality(PendingOf(pending, src, a)) + 1
      <4>1. IsFiniteSet(PendingOf(pending, src, a))
        BY PlacesFinite, FS_EmptySet
      <4>2. QED
        BY <3>5, <4>1, OneMore
    <3>7. Happened(src, a)' = Happened(src, a) + 1
      BY <3>3, <3>4
    <3>8. QED
      BY <2>2, <2>5, <3>6, <3>7 DEF FlowAt, Numbers
  <2>7. CASE ~(src = "terminal" /\ a = b /\ b \in armed[s])
    <3>1. PendingOf(pending', src, a) = PendingOf(pending, src, a)
      BY <2>3, <2>7 DEF PendingOf
    <3>2. Happened(src, a) <= Happened(src, a)'
      <4> DEFINE S == {x \in Sessions : <<x, a>> \in seen}
                 T == {x \in Sessions : <<x, a>> \in seen'}
      <4>1. S \subseteq T /\ IsFiniteSet(T)
        BY <2>3, StatisticsAssumption, FS_Subset
      <4> HIDE DEF S, T
      <4>2. Cardinality(S) <= Cardinality(T)
        BY <4>1, FS_Subset
      <4>3. CASE src = "terminal"
        BY <4>2, <4>3 DEF Happened, S, T
      <4>4. CASE src # "terminal"
        BY <2>2, <2>3, <4>4 DEF Happened, Numbers
      <4>5. QED
        BY <4>3, <4>4
    <3>3. QED
      BY <2>2, <2>5, <3>1, <3>2, FlowShrinks DEF Numbers
  <2>8. QED
    BY <2>6, <2>7
<1>9. AckOK'
  BY DEF GuestReads, workVars, statdVars, dbVars, IInv, AckOK, AckAt
<1>10. QED
  BY <1>1, <1>2, <1>3, <1>4, <1>5, <1>6, <1>7, <1>8, <1>9 DEF IInv

\* An event goes from kqueue to the channel, or is dropped.
LEMMA WatcherTakesKeeps ==
    ASSUME IInv, NEW s \in Sessions, NEW b \in Articles, WatcherTakes(s, b)
    PROVE  IInv'
<1>1. TypeOK'
  <2>1. /\ reads' = [reads EXCEPT ![s] = TrySend(reads[s], b, ReadsCap)]
        /\ pending' = [pending EXCEPT ![s] = pending[s] \ {b}]
        /\ UNCHANGED <<phase, template, armed, watching, snap, webVars, queue, worker, batch, statdVars>>
    BY DEF WatcherTakes
  <2>2. reads \in [Sessions -> Seq(Articles)] /\ Len(reads[s]) <= ReadsCap /\ ReadsCap \in Nat
    BY StatisticsAssumption DEF IInv, TypeOK, MoreTypes
  <2>3. TrySend(reads[s], b, ReadsCap) \in Seq(Articles) /\ Len(TrySend(reads[s], b, ReadsCap)) <= ReadsCap
    BY <2>2 DEF TrySend
  <2>4. \A x \in Sessions : reads'[x] \in Seq(Articles) /\ Len(reads'[x]) <= ReadsCap
    BY <2>1, <2>2, <2>3 DEF IInv, TypeOK
  <2>5. pending' \in [Sessions -> SUBSET Articles]
    BY <2>1 DEF IInv, TypeOK
  <2>6. QED
    BY <2>1, <2>4, <2>5 DEF webVars, statdVars, dbVars, IInv, TypeOK
<1>2. MoreTypes'
  <2>1. reads' = [reads EXCEPT ![s] = TrySend(reads[s], b, ReadsCap)]
    BY DEF WatcherTakes
  <2>2. reads \in [Sessions -> Seq(Articles)]
    BY DEF IInv, MoreTypes
  <2>3. TrySend(reads[s], b, ReadsCap) \in Seq(Articles)
    BY <2>2 DEF TrySend
  <2>4. reads' \in [Sessions -> Seq(Articles)]
    BY <2>1, <2>2, <2>3
  <2>5. UNCHANGED <<webVars, batch, sent, statdVars, history>>
    BY DEF WatcherTakes
  <2>6. QED
    BY <2>4, <2>5 DEF webVars, statdVars, history, IInv, MoreTypes
<1>3. DelayOK'
  BY DEF WatcherTakes, IInv, DelayOK
<1>4. ArmedOK'
  BY DEF WatcherTakes, history, IInv, ArmedOK
<1>5. LinkOK'
  BY DEF WatcherTakes, statdVars, IInv, LinkOK
<1>6. GenuineOK'
  <2>1. /\ reads' = [reads EXCEPT ![s] = TrySend(reads[s], b, ReadsCap)]
        /\ pending' = [pending EXCEPT ![s] = pending[s] \ {b}] /\ b \in pending[s]
        /\ UNCHANGED <<queue, batch, inbox, seen, gets>>
    BY DEF WatcherTakes, statdVars, history
  <2>2. reads \in [Sessions -> Seq(Articles)] /\ pending \in [Sessions -> SUBSET Articles]
    BY DEF IInv, TypeOK, MoreTypes
  <2>3. \A x \in Sessions : \A a \in pending'[x] : <<x, a>> \in seen
    BY <2>1, <2>2 DEF IInv, GenuineOK
  <2>4. \A x \in Sessions : \A i \in DOMAIN reads'[x] : <<x, reads'[x][i]>> \in seen
    <3>1. \A i \in DOMAIN reads[s] : <<s, reads[s][i]>> \in seen
      BY DEF IInv, GenuineOK
    <3>2. <<s, b>> \in seen
      BY <2>1 DEF IInv, GenuineOK
    <3>3. \A i \in DOMAIN TrySend(reads[s], b, ReadsCap) :
             <<s, TrySend(reads[s], b, ReadsCap)[i]>> \in seen
      <4>1. reads[s] \in Seq(Articles) /\ Len(reads[s]) <= ReadsCap /\ ReadsCap \in Nat
        BY <2>2, StatisticsAssumption DEF IInv, TypeOK
      <4>2. \A i \in DOMAIN TrySend(reads[s], b, ReadsCap) :
               \/ TrySend(reads[s], b, ReadsCap)[i] = b
               \/ i \in DOMAIN reads[s] /\ TrySend(reads[s], b, ReadsCap)[i] = reads[s][i]
        BY <4>1, TrySendAdds
      <4>3. QED
        BY <3>1, <3>2, <4>2
    <3>4. QED
      BY <2>1, <2>2, <3>3 DEF IInv, GenuineOK
  <2>5. QED
    BY <2>1, <2>3, <2>4 DEF IInv, GenuineOK, Genuine
<1>7. VisitorsOK'
  BY DEF WatcherTakes, statdVars, dbVars, history, IInv, VisitorsOK
<1>8. FlowOK'
  <2>1. SUFFICES ASSUME NEW a \in Articles, NEW src \in Sources PROVE FlowAt(src, a)'
    BY DEF FlowOK
  <2>2. Numbers(src, a) /\ FlowAt(src, a) /\ Numbers(src, a)'
    BY <1>1, <1>2, NumbersAround
  <2>3. /\ UNCHANGED <<articles, queue, inbox, seen, gets>>
        /\ reads' = [reads EXCEPT ![s] = TrySend(@, b, ReadsCap)]
        /\ pending' = [pending EXCEPT ![s] = pending[s] \ {b}] /\ b \in pending[s]
        /\ pending \in [Sessions -> SUBSET Articles] /\ reads \in [Sessions -> Seq(Articles)]
    BY DEF WatcherTakes, statdVars, dbVars, history, IInv, TypeOK, MoreTypes
  <2>4. HeldBack' = HeldBack
    BY DEF WatcherTakes, HeldBack
  <2>5. /\ articles'[a][src] = articles[a][src]
        /\ EventsOf(queue', src, a) = EventsOf(queue, src, a)
        /\ EventsOf(HeldBack', src, a) = EventsOf(HeldBack, src, a)
        /\ InboxOf(inbox', src, a) = InboxOf(inbox, src, a)
        /\ Happened(src, a)' = Happened(src, a)
    BY <2>3, <2>4 DEF Happened
  <2>6. Cardinality(ReadsOf(reads', src, a))
           <= Cardinality(ReadsOf(reads, src, a)) + (IF src = "terminal" /\ a = b THEN 1 ELSE 0)
    <3>1. CASE Len(reads[s]) < ReadsCap
      <4>1. reads' = [reads EXCEPT ![s] = Append(@, b)]
        BY <2>3, <3>1 DEF TrySend
      <4>2. QED
        BY <2>3, <4>1, ReadsAppend
    <3>2. CASE ~(Len(reads[s]) < ReadsCap)
      <4>1. reads' = reads
        BY <2>3, <3>2 DEF TrySend
      <4>2. QED
        BY <2>2, <4>1 DEF Numbers
    <3>3. QED
      BY <3>1, <3>2
  <2>7. Cardinality(PendingOf(pending', src, a)) + (IF src = "terminal" /\ a = b THEN 1 ELSE 0)
           <= Cardinality(PendingOf(pending, src, a))
    <3>1. CASE src = "terminal" /\ a = b
      <4>1. PendingOf(pending', src, a) = PendingOf(pending, src, a) \ {s} /\ s \in PendingOf(pending, src, a)
        BY <2>3, <3>1 DEF PendingOf
      <4>2. IsFiniteSet(PendingOf(pending, src, a))
        BY PlacesFinite, FS_EmptySet
      <4>3. Cardinality(PendingOf(pending', src, a)) = Cardinality(PendingOf(pending, src, a)) - 1
        BY <4>1, <4>2, FS_RemoveElement
      <4>4. QED
        BY <2>2, <3>1, <4>3 DEF Numbers
    <3>2. CASE ~(src = "terminal" /\ a = b)
      <4>1. PendingOf(pending', src, a) = PendingOf(pending, src, a)
        BY <2>3, <3>2 DEF PendingOf
      <4>2. QED
        BY <2>2, <3>2, <4>1 DEF Numbers
    <3>3. QED
      BY <3>1, <3>2
  <2>8. QED
    BY <2>2, <2>5, <2>6, <2>7 DEF FlowAt, Numbers
<1>9. AckOK'
  BY DEF WatcherTakes, statdVars, dbVars, history, IInv, AckOK, AckAt
<1>10. QED
  BY <1>1, <1>2, <1>3, <1>4, <1>5, <1>6, <1>7, <1>8, <1>9 DEF IInv

\* What the watcher leaves in kqueue is never counted.
LEMMA WatcherEndsKeeps ==
    ASSUME IInv, NEW s \in Sessions, WatcherEnds(s)
    PROVE  IInv'
<1>1. TypeOK'
  BY DEF WatcherEnds, webVars, workVars, statdVars, dbVars, IInv, TypeOK
<1>2. MoreTypes'
  BY DEF WatcherEnds, webVars, workVars, statdVars, history, IInv, MoreTypes
<1>3. DelayOK'
  BY DEF WatcherEnds, workVars, IInv, DelayOK
<1>4. ArmedOK'
  BY DEF WatcherEnds, history, IInv, ArmedOK
<1>5. LinkOK'
  BY DEF WatcherEnds, workVars, statdVars, IInv, LinkOK
<1>6. GenuineOK'
  <2>1. /\ pending' = [pending EXCEPT ![s] = {}]
        /\ UNCHANGED <<queue, reads, batch, inbox, seen, gets>>
    BY DEF WatcherEnds, workVars, statdVars, history
  <2>2. \A x \in Sessions : \A a \in pending'[x] : <<x, a>> \in seen
    BY <2>1 DEF IInv, TypeOK, GenuineOK
  <2>3. QED
    BY <2>1, <2>2 DEF IInv, GenuineOK, Genuine
<1>7. VisitorsOK'
  BY DEF WatcherEnds, statdVars, dbVars, history, IInv, VisitorsOK
<1>8. FlowOK'
  <2>1. UNCHANGED <<articles, queue, seen, gets, reads, inbox>>
    BY DEF WatcherEnds, workVars, statdVars, dbVars, history
  <2>2. \A x \in Sessions : pending'[x] \subseteq pending[x]
    BY DEF WatcherEnds, IInv
  <2>3. HeldBack' = HeldBack
    BY DEF WatcherEnds, workVars, HeldBack
  <2>4. QED
    BY <1>1, <1>2, <2>1, <2>2, <2>3, FlowLoses
<1>9. AckOK'
  BY DEF WatcherEnds, workVars, statdVars, dbVars, history, IInv, AckOK, AckAt
<1>10. QED
  BY <1>1, <1>2, <1>3, <1>4, <1>5, <1>6, <1>7, <1>8, <1>9 DEF IInv

\* What an aborted worker had is never counted, unless statd has it already.
LEMMA AbortKeeps ==
    ASSUME IInv, NEW s \in Sessions, Abort(s)
    PROVE  IInv'
<1>1. TypeOK'
  <2>1. /\ worker' = [worker EXCEPT ![s] = "gone"] /\ batch' = [batch EXCEPT ![s] = <<>>]
        /\ reads' = [reads EXCEPT ![s] = <<>>] /\ phase' = [phase EXCEPT ![s] = "closed"]
        /\ UNCHANGED <<template, armed, pending, watching, webVars, queue, lock, dbVars>>
    BY DEF Abort
  <2>2. s \in Workers /\ <<>> \in Seq(Event) /\ <<>> \in Seq(Articles) /\ Len(<<>>) = 0
    BY DEF Workers
  <2>3. \A x \in Sessions : reads'[x] \in Seq(Articles) /\ Len(reads'[x]) <= ReadsCap
    <3>1. reads \in [Sessions -> Seq(Articles)] /\ ReadsCap \in Nat
      BY StatisticsAssumption DEF IInv, MoreTypes
    <3>2. QED
      BY <2>1, <2>2, <3>1 DEF IInv, TypeOK
  <2>4. \A x \in Workers : batch'[x] \in Seq(Event) /\ Len(batch'[x]) <= MaxBatch
    <3>1. batch \in [Workers -> Seq(Event)] /\ MaxBatch \in Nat
      BY StatisticsAssumption DEF IInv, MoreTypes
    <3>2. QED
      BY <2>1, <2>2, <3>1 DEF IInv, TypeOK
  <2>5. /\ worker' \in [Workers -> {"recv", "delay", "request", "gone"}]
        /\ phase' \in [Sessions -> {"new", "asking", "on", "stopping", "closed"}]
    BY <2>1 DEF IInv, TypeOK
  <2>6. QED
    BY <2>1, <2>3, <2>4, <2>5 DEF webVars, dbVars, IInv, TypeOK
<1>2. MoreTypes'
  <2>1. /\ batch' = [batch EXCEPT ![s] = <<>>] /\ reads' = [reads EXCEPT ![s] = <<>>]
        /\ replies' \subseteq replies /\ UNCHANGED <<webVars, sent, inbox, history>>
    BY DEF Abort
  <2>2. <<>> \in Seq(Event) /\ <<>> \in Seq(Articles)
    OBVIOUS
  <2>3. batch' \in [Workers -> Seq(Event)] /\ reads' \in [Sessions -> Seq(Articles)]
    BY <2>1, <2>2 DEF IInv, MoreTypes
  <2>4. QED
    BY <2>1, <2>3 DEF webVars, history, IInv, MoreTypes
<1>3. DelayOK'
  BY StatisticsAssumption DEF Abort, IInv, DelayOK
<1>4. ArmedOK'
  BY DEF Abort, history, IInv, ArmedOK
<1>5. LinkOK'
  BY DEF Abort, IInv, LinkOK, TypeOK, MoreTypes
<1>6. GenuineOK'
  <2>1. /\ batch' = [batch EXCEPT ![s] = <<>>] /\ reads' = [reads EXCEPT ![s] = <<>>]
        /\ UNCHANGED <<pending, queue, inbox, seen, gets>> /\ DOMAIN <<>> = {}
    BY DEF Abort, history
  <2>2. \A x \in Sessions : \A i \in DOMAIN reads'[x] : <<x, reads'[x][i]>> \in seen
    BY <2>1 DEF IInv, GenuineOK
  <2>3. \A w \in Workers : \A i \in DOMAIN batch'[w] : Genuine(batch'[w][i])
    BY <2>1 DEF IInv, GenuineOK
  <2>4. QED
    BY <2>1, <2>2, <2>3 DEF IInv, GenuineOK, Genuine
<1>7. VisitorsOK'
  BY DEF Abort, dbVars, history, IInv, VisitorsOK
<1>8. FlowOK'
  <2>1. UNCHANGED <<articles, queue, seen, gets, pending, inbox>>
    BY DEF Abort, dbVars, history
  <2>2. \A x \in Sessions : reads'[x] = reads[x] \/ reads'[x] = <<>>
    BY DEF Abort, IInv
  <2>3. HeldBack' = HeldBack
    <3>1. s # Web /\ Web \in Workers
      BY StatisticsAssumption DEF Workers
    <3>2. worker'[Web] = worker[Web] /\ batch'[Web] = batch[Web]
      BY <3>1 DEF Abort, IInv
    <3>3. QED
      BY <3>2 DEF HeldBack
  <2>4. QED
    BY <1>1, <1>2, <2>1, <2>2, <2>3, FlowLoses
<1>9. AckOK'
  <2>1. UNCHANGED <<acked, articles>> /\ replies' = {q \in replies : q.from # s}
    BY DEF Abort, dbVars, history
  <2>2. \A w \in Workers : w # s => batch'[w] = batch[w]
    BY DEF Abort, IInv
  <2>3. \A w \in Workers : [from |-> w, ok |-> TRUE] \in replies' =>
           [from |-> w, ok |-> TRUE] \in replies /\ batch'[w] = batch[w]
    BY <2>1, <2>2
  <2>4. QED
    BY <2>1, <2>3, AckLoses
<1>10. QED
  BY <1>1, <1>2, <1>3, <1>4, <1>5, <1>6, <1>7, <1>8, <1>9 DEF IInv

\* A worker that gives up forgets its batch; statd may still have it.
LEMMA GiveUpKeeps ==
    ASSUME IInv, NEW w \in Workers, GiveUp(w)
    PROVE  IInv'
<1>1. TypeOK'
  BY StatisticsAssumption DEF GiveUp, watchVars, webVars, dbVars, IInv, TypeOK
<1>2. MoreTypes'
  BY DEF GiveUp, webVars, history, IInv, MoreTypes
<1>3. DelayOK'
  BY DEF GiveUp, IInv, DelayOK
<1>4. ArmedOK'
  BY DEF GiveUp, watchVars, history, IInv, ArmedOK
<1>5. LinkOK'
  BY DEF GiveUp, IInv, LinkOK, TypeOK
<1>6. GenuineOK'
  <2>1. /\ batch' = [batch EXCEPT ![w] = <<>>]
        /\ UNCHANGED <<pending, reads, queue, inbox, seen, gets>> /\ DOMAIN <<>> = {}
    BY DEF GiveUp, watchVars, history
  <2>2. \A x \in Workers : \A i \in DOMAIN batch'[x] : Genuine(batch'[x][i])
    BY <2>1 DEF IInv, GenuineOK
  <2>3. QED
    BY <2>1, <2>2 DEF IInv, GenuineOK, Genuine
<1>7. VisitorsOK'
  BY DEF GiveUp, dbVars, history, IInv, VisitorsOK
<1>8. FlowOK'
  <2>1. UNCHANGED <<articles, queue, seen, gets, pending, reads, inbox>>
    BY DEF GiveUp, watchVars, dbVars, history
  <2>2. HeldBack' = HeldBack \/ HeldBack' = <<>>
    <3>1. Web = w \/ (worker'[Web] = worker[Web] /\ batch'[Web] = batch[Web])
      BY DEF GiveUp, Workers, IInv
    <3>2. worker'[w] = "recv"
      BY DEF GiveUp, IInv, TypeOK
    <3>3. QED
      BY <3>1, <3>2 DEF HeldBack
  <2>3. QED
    BY <1>1, <1>2, <2>1, <2>2, FlowLoses
<1>9. AckOK'
  <2>1. UNCHANGED <<acked, articles>> /\ replies' = {q \in replies : q.from # w}
    BY DEF GiveUp, dbVars, history
  <2>2. \A x \in Workers : x # w => batch'[x] = batch[x]
    BY DEF GiveUp, IInv
  <2>3. \A x \in Workers : [from |-> x, ok |-> TRUE] \in replies' =>
           [from |-> x, ok |-> TRUE] \in replies /\ batch'[x] = batch[x]
    BY <2>1, <2>2
  <2>4. QED
    BY <2>1, <2>3, AckLoses
<1>10. QED
  BY <1>1, <1>2, <1>3, <1>4, <1>5, <1>6, <1>7, <1>8, <1>9 DEF IInv

\* The answer a worker reads is to the batch it holds.
LEMMA ReceiveKeeps ==
    ASSUME IInv, NEW r \in replies, Receive(r)
    PROVE  IInv'
<1>1. TypeOK'
  BY StatisticsAssumption DEF Receive, watchVars, webVars, dbVars, IInv, TypeOK, MoreTypes
<1>2. MoreTypes'
  <2>1. r.from \in Workers /\ batch[r.from] \in Seq(Event) /\ Len(batch[r.from]) <= MaxBatch
    BY DEF IInv, TypeOK, MoreTypes

  <2>2. \A a \in Articles, src \in Sources : Count(batch[r.from], src, {a}) \in Nat
    BY <2>1, CountNat
  <2>3. acked' \in [Articles -> [Sources -> Nat]]
    <3>1. CASE Acknowledge(batch[r.from])
      <4>1. ASSUME NEW a \in Articles, NEW src \in Sources
            PROVE  acked[a][src] + Count(batch[r.from], src, {a}) \in Nat
        BY <2>2 DEF IInv, MoreTypes
      <4>2. QED
        BY <3>1, <4>1 DEF Acknowledge
    <3>2. CASE UNCHANGED acked
      BY <3>2 DEF IInv, MoreTypes
    <3>3. QED
      BY <3>1, <3>2 DEF Receive
  <2>4. batch' \in [Workers -> Seq(Event)]
    <3>1. batch' = [batch EXCEPT ![r.from] = <<>>] /\ <<>> \in Seq(Event)
      BY DEF Receive
    <3>2. QED
      BY <3>1 DEF IInv, MoreTypes
  <2>5. /\ UNCHANGED <<webVars, reads, sent, inbox, gets>> /\ replies' \subseteq replies
    BY DEF Receive
  <2>6. QED
    BY <2>3, <2>4, <2>5 DEF webVars, IInv, MoreTypes
<1>3. DelayOK'
  BY DEF Receive, IInv, DelayOK
<1>4. ArmedOK'
  BY DEF Receive, watchVars, IInv, ArmedOK
<1>5. LinkOK'
  BY DEF Receive, IInv, LinkOK
<1>6. GenuineOK'
  <2>1. /\ batch' = [batch EXCEPT ![r.from] = <<>>]
        /\ UNCHANGED <<pending, reads, queue, inbox, seen, gets>> /\ DOMAIN <<>> = {}
    BY DEF Receive, watchVars
  <2>2. \A x \in Workers : \A i \in DOMAIN batch'[x] : Genuine(batch'[x][i])
    BY <2>1 DEF IInv, GenuineOK
  <2>3. QED
    BY <2>1, <2>2 DEF IInv, GenuineOK, Genuine
<1>7. VisitorsOK'
  BY DEF Receive, dbVars, IInv, VisitorsOK
<1>8. FlowOK'
  <2>1. UNCHANGED <<articles, queue, seen, gets, pending, reads, inbox>>
    BY DEF Receive, watchVars, dbVars
  <2>2. HeldBack' = HeldBack \/ HeldBack' = <<>>
    <3>1. r.from \in Workers /\ worker'[r.from] = "recv"
      BY DEF Receive, IInv, TypeOK, MoreTypes
    <3>2. Web = r.from \/ (worker'[Web] = worker[Web] /\ batch'[Web] = batch[Web])
      BY DEF Receive, Workers, IInv
    <3>3. QED
      BY <3>1, <3>2 DEF HeldBack
  <2>3. QED
    BY <1>1, <1>2, <2>1, <2>2, FlowLoses
<1>9. AckOK'
  <2>1. r.from \in Workers /\ batch[r.from] \in Seq(Event) /\ Len(batch[r.from]) <= MaxBatch
    BY DEF IInv, TypeOK, MoreTypes

  <2>2. /\ replies' = replies \ {r} /\ batch' = [batch EXCEPT ![r.from] = <<>>]
        /\ articles' = articles /\ batch \in [Workers -> Seq(Event)]
    BY DEF Receive, dbVars, IInv, MoreTypes
  <2>3. CASE r.ok
    <3>1. r = [from |-> r.from, ok |-> TRUE]
      BY <2>3 DEF IInv, MoreTypes
    <3>2. SUFFICES ASSUME NEW a \in Articles, NEW src \in Sources PROVE AckAt(src, a)'
      BY DEF AckOK
    <3>3. acked'[a][src] = acked[a][src] + Cardinality(EventsOf(batch[r.from], src, a))
      <4>1. Count(batch[r.from], src, {a}) = Cardinality(EventsOf(batch[r.from], src, a))
        BY <2>1, EventsFinite
      <4>2. QED
        BY <2>3, <4>1 DEF Receive, Acknowledge
    <3>4. Cardinality(AckingOf(replies', batch', src, a)) + Cardinality(EventsOf(batch[r.from], src, a))
             <= Cardinality(AckingOf(replies, batch, src, a))
      BY <2>1, <2>2, <3>1, AckingTaken
    <3>5. /\ Cardinality(AckingOf(replies', batch', src, a)) \in Nat
          /\ Cardinality(AckingOf(replies, batch, src, a)) \in Nat
      BY AckingFinite
    <3>6. Cardinality(EventsOf(batch[r.from], src, a)) \in Nat
      BY <2>1, EventsFinite
    <3>7. AckAt(src, a) /\ acked[a][src] \in Nat /\ articles[a][src] \in Nat
      BY DEF IInv, AckOK, MoreTypes, TypeOK
    <3>8. QED
      BY <2>2, <3>3, <3>4, <3>5, <3>6, <3>7 DEF AckAt
  <2>4. CASE ~r.ok
    <3>1. acked' = acked
      BY <2>4 DEF Receive
    <3>2. \A q \in replies : q.from = r.from => q = r
      BY DEF IInv, LinkOK
    <3>3. \A x \in Workers : [from |-> x, ok |-> TRUE] \in replies' =>
             [from |-> x, ok |-> TRUE] \in replies /\ batch'[x] = batch[x]
      BY <2>2, <2>4, <3>2
    <3>4. QED
      BY <2>2, <3>1, <3>3, AckLoses
  <2>5. QED
    BY <2>3, <2>4
<1>10. QED
  BY <1>1, <1>2, <1>3, <1>4, <1>5, <1>6, <1>7, <1>8, <1>9 DEF IInv

\* Reads leave the channel of the session for one request.
LEMMA SessionSendsKeeps ==
    ASSUME IInv, NEW s \in Sessions, SessionSends(s)
    PROVE  IInv'
<1> DEFINE n  == Min({Len(reads[s]), MaxBatch})
           ev == [i \in 1 .. n |-> TerminalEvent(s, reads[s][i])]
<1>a. /\ reads \in [Sessions -> Seq(Articles)] /\ reads[s] \in Seq(Articles)
      /\ Len(reads[s]) <= ReadsCap /\ ReadsCap \in Nat
      /\ n \in 0 .. Len(reads[s]) /\ n <= MaxBatch
  <2>1. /\ reads \in [Sessions -> Seq(Articles)] /\ Len(reads[s]) <= ReadsCap
        /\ Len(reads[s]) \in Nat /\ MaxBatch \in Nat /\ ReadsCap \in Nat
    BY StatisticsAssumption DEF IInv, TypeOK, MoreTypes
  <2>2. n \in Nat /\ n <= Len(reads[s]) /\ n <= MaxBatch
    BY <2>1, MinOfTwo
  <2>3. QED
    BY <2>1, <2>2
<1>b. ev \in Seq(Event) /\ Len(ev) = n /\ DOMAIN ev = 1 .. n
  <2>1. \A i \in 1 .. n : reads[s][i] \in Articles
    BY <1>a
  <2>2. \A i \in 1 .. n : TerminalEvent(s, reads[s][i]) \in Event
    BY <2>1 DEF TerminalEvent, Event, Sources, Addresses
  <2> HIDE DEF n
  <2>3. n \in Nat /\ ev \in [1 .. n -> Event]
    BY <1>a, <2>2
  <2> HIDE DEF ev
  <2>4. ev \in Seq(Event) /\ Len(ev) = n
    BY <2>3, FunctionIsSeq
  <2>5. QED
    BY <2>3, <2>4
<1>c. s \in Workers /\ worker[s] # "request" /\ Request(s, ev)
  BY DEF SessionSends, Workers
<1>d. /\ reads' = [reads EXCEPT ![s] = SubSeq(@, n + 1, Len(@))]
      /\ UNCHANGED <<watchVars, webVars, queue, up, replies, lock, dbVars, crashes, history>>
  BY DEF SessionSends
<1> HIDE DEF n, ev
<1>r. /\ worker' \in [Workers -> {"recv", "delay", "request", "gone"}]
      /\ \A x \in Workers : batch'[x] \in Seq(Event) /\ Len(batch'[x]) <= MaxBatch
      /\ batch' \in [Workers -> Seq(Event)] /\ sent' \in [Workers -> Nat]
      /\ inbox' \subseteq Requests /\ IsFiniteSet(inbox')
      /\ \A r \in inbox' : Len(r.events) <= MaxBatch
      /\ DelayOK' /\ LinkOK' /\ AckOK'
      /\ batch'[s] \in {ev, <<>>} /\ worker'[s] # "delay"
      /\ \A x \in Workers : x # s => batch'[x] = batch[x] /\ worker'[x] = worker[x]
      /\ \/ inbox' = inbox
         \/ inbox' = inbox \cup {[from |-> s, no |-> sent[s] + 1, events |-> ev]}
  <2>1. UNCHANGED <<replies, acked, articles>>
    BY <1>d DEF dbVars, history
  <2>2. QED
    BY <1>a, <1>b, <1>c, <2>1, RequestKeeps
<1>1. TypeOK'
  <2>1. \A x \in Sessions : reads'[x] \in Seq(Articles) /\ Len(reads'[x]) <= ReadsCap
    <3>1. /\ SubSeq(reads[s], n + 1, Len(reads[s])) \in Seq(Articles)
          /\ Len(SubSeq(reads[s], n + 1, Len(reads[s]))) <= ReadsCap
      BY <1>a
    <3>2. QED
      BY <1>a, <1>d, <3>1 DEF IInv, TypeOK
  <2>2. QED
    BY <1>d, <1>r, <2>1 DEF watchVars, webVars, dbVars, IInv, TypeOK
<1>2. MoreTypes'
  <2>1. reads' \in [Sessions -> Seq(Articles)]
    <3>1. SubSeq(reads[s], n + 1, Len(reads[s])) \in Seq(Articles)
      BY <1>a
    <3>2. QED
      BY <1>a, <1>d, <3>1
  <2>2. QED
    BY <1>d, <1>r, <2>1 DEF webVars, history, IInv, MoreTypes
<1>3. DelayOK'
  BY <1>r
<1>4. ArmedOK'
  BY DEF SessionSends, watchVars, history, IInv, ArmedOK
<1>5. LinkOK'
  BY <1>r
<1>6. GenuineOK'
  <2>1. \A i \in DOMAIN ev : Genuine(ev[i])
    <3>1. ASSUME NEW i \in DOMAIN ev PROVE Genuine(ev[i])
      <4>1. i \in 1 .. n /\ i \in DOMAIN reads[s] /\ ev[i] = TerminalEvent(s, reads[s][i])
        BY <1>a, <1>b DEF ev
      <4>2. <<s, reads[s][i]>> \in seen
        BY <4>1 DEF IInv, GenuineOK
      <4>3. QED
        BY <4>1, <4>2 DEF Genuine, GenuineIn, TerminalEvent
    <3>2. QED
      BY <3>1
  <2>2. \A x \in Sessions : \A i \in DOMAIN reads'[x] : <<x, reads'[x][i]>> \in seen
    <3>1. SUFFICES ASSUME NEW i \in DOMAIN reads'[s] PROVE <<s, reads'[s][i]>> \in seen
      BY <1>a, <1>d DEF IInv, GenuineOK
    <3>2. /\ reads'[s] = SubSeq(reads[s], n + 1, Len(reads[s])) /\ Len(reads[s]) \in Nat
          /\ Len(reads'[s]) = Len(reads[s]) - n
      BY <1>a, <1>d
    <3>3. i \in 1 .. (Len(reads[s]) - n) /\ i + n \in DOMAIN reads[s] /\ reads'[s][i] = reads[s][i + n]
      BY <1>a, <3>2
    <3>4. QED
      BY <3>3 DEF IInv, GenuineOK
  <2>3. \A w \in Workers : \A i \in DOMAIN batch'[w] : Genuine(batch'[w][i])
    <3>1. ASSUME NEW i \in DOMAIN batch'[s] PROVE Genuine(batch'[s][i])
      BY <1>r, <2>1
    <3>2. ASSUME NEW w \in Workers, w # s, NEW i \in DOMAIN batch'[w] PROVE Genuine(batch'[w][i])
      BY <1>r, <3>2 DEF IInv, GenuineOK
    <3>3. QED
      BY <3>1, <3>2
  <2>4. \A r \in inbox' : \A i \in DOMAIN r.events : Genuine(r.events[i])
    BY <1>r, <2>1 DEF IInv, GenuineOK
  <2>5. UNCHANGED <<pending, queue, seen, gets>>
    BY <1>d DEF watchVars, history
  <2>6. QED
    BY <2>2, <2>3, <2>4, <2>5 DEF IInv, GenuineOK, Genuine
<1>7. VisitorsOK'
  BY DEF SessionSends, dbVars, history, IInv, VisitorsOK
<1>8. FlowOK'
  <2>1. SUFFICES ASSUME NEW a \in Articles, NEW src \in Sources PROVE FlowAt(src, a)'
    BY DEF FlowOK
  <2>2. Numbers(src, a) /\ FlowAt(src, a) /\ Numbers(src, a)'
    BY <1>1, <1>2, NumbersAround
  <2>3. UNCHANGED <<articles, queue, pending, seen, gets>>
    BY <1>d DEF watchVars, dbVars, history
  <2>4. HeldBack' = HeldBack
    <3>1. s # Web /\ Web \in Workers
      BY StatisticsAssumption DEF Workers
    <3>2. QED
      BY <1>r, <3>1 DEF HeldBack
  <2>5. /\ articles'[a][src] = articles[a][src]
        /\ PendingOf(pending', src, a) = PendingOf(pending, src, a)
        /\ EventsOf(queue', src, a) = EventsOf(queue, src, a)
        /\ EventsOf(HeldBack', src, a) = EventsOf(HeldBack, src, a)
        /\ Happened(src, a)' = Happened(src, a)
    BY <2>3, <2>4 DEF Happened
  <2>6. Cardinality(EventsOf(ev, src, a)) \in Nat
    BY <1>b, EventsFinite
  <2>7. Cardinality(ReadsOf(reads', src, a)) + Cardinality(EventsOf(ev, src, a))
           <= Cardinality(ReadsOf(reads, src, a))
    BY <1>a, <1>d, ReadsTake DEF ev
  <2>8. Cardinality(InboxOf(inbox', src, a))
           <= Cardinality(InboxOf(inbox, src, a)) + Cardinality(EventsOf(ev, src, a))
    <3> DEFINE r0 == [from |-> s, no |-> sent[s] + 1, events |-> ev]
    <3>1. r0.events = ev /\ IsFiniteSet(inbox)
      BY DEF IInv, MoreTypes
    <3> HIDE DEF r0
    <3>2. Cardinality(InboxOf(inbox \cup {r0}, src, a))
             <= Cardinality(InboxOf(inbox, src, a)) + Cardinality(EventsOf(r0.events, src, a))
      BY <1>b, <3>1, InboxAdd
    <3>3. CASE inbox' = inbox
      BY <2>2, <2>6, <3>3 DEF Numbers
    <3>4. CASE inbox' = inbox \cup {r0}
      BY <3>1, <3>2, <3>4
    <3>5. QED
      BY <1>r, <3>3, <3>4 DEF r0
  <2>9. QED
    BY <2>2, <2>5, <2>6, <2>7, <2>8 DEF FlowAt, Numbers
<1>9. AckOK'
  BY <1>r
<1>10. QED
  BY <1>1, <1>2, <1>3, <1>4, <1>5, <1>6, <1>7, <1>8, <1>9 DEF IInv

\* The first event of a batch leaves the queue and is held back.
LEMMA WebTakesKeeps ==
    ASSUME IInv, WebTakes
    PROVE  IInv'
<1> DEFINE one == <<Head(queue)>>
<1>a. /\ queue \in Seq(Event) /\ queue # <<>> /\ Web \in Workers
      /\ batch \in [Workers -> Seq(Event)]
  BY DEF WebTakes, Workers, IInv, TypeOK, MoreTypes
<1>b. /\ one \in Seq(Event) /\ Len(one) = 1 /\ DOMAIN one = {1} /\ one[1] = queue[1]
      /\ Tail(queue) \in Seq(Event)
  BY <1>a
<1>c. /\ worker[Web] = "recv" /\ worker' = [worker EXCEPT ![Web] = "delay"]
      /\ batch' = [batch EXCEPT ![Web] = one] /\ queue' = Tail(queue)
      /\ UNCHANGED <<watchVars, webVars, reads, sent, statdVars, history>>
  BY DEF WebTakes
<1> HIDE DEF one
<1>1. TypeOK'
  <2>1. \A x \in Workers : batch'[x] \in Seq(Event) /\ Len(batch'[x]) <= MaxBatch
    <3>1. \A x \in Workers : batch[x] \in Seq(Event) /\ Len(batch[x]) <= MaxBatch
      BY DEF IInv, TypeOK
    <3>2. MaxBatch \in Nat /\ MaxBatch # 0
      BY StatisticsAssumption
    <3>3. one \in Seq(Event) /\ Len(one) <= MaxBatch
      BY <1>b, <3>2
    <3>4. QED
      BY <1>a, <1>c, <3>1, <3>3
  <2>2. queue' \in Seq(Event) /\ Len(queue') <= QueueCap
    <3>1. Len(Tail(queue)) = Len(queue) - 1 /\ Len(queue) \in Nat /\ Len(queue) <= QueueCap /\ QueueCap \in Nat
      BY <1>a, StatisticsAssumption DEF IInv, TypeOK
    <3>2. QED
      BY <1>a, <1>b, <1>c, <3>1
  <2>3. worker' \in [Workers -> {"recv", "delay", "request", "gone"}]
    BY <1>c DEF IInv, TypeOK
  <2>4. QED
    BY <1>c, <2>1, <2>2, <2>3 DEF watchVars, webVars, statdVars, dbVars, IInv, TypeOK
<1>2. MoreTypes'
  <2>1. batch' \in [Workers -> Seq(Event)]
    BY <1>a, <1>b, <1>c
  <2>2. QED
    BY <1>c, <2>1 DEF webVars, statdVars, history, IInv, MoreTypes
<1>3. DelayOK'
  <2>1. /\ batch'[Web] = one /\ Len(one) = 1
        /\ \A x \in Workers : x # Web => batch'[x] = batch[x] /\ worker'[x] = worker[x]
    BY <1>a, <1>b, <1>c DEF IInv
  <2>2. QED
    BY <2>1 DEF IInv, DelayOK
<1>4. ArmedOK'
  BY DEF WebTakes, watchVars, history, IInv, ArmedOK
<1>5. LinkOK'
  BY DEF WebTakes, statdVars, IInv, LinkOK
<1>6. GenuineOK'
  <2>1. \A i \in DOMAIN queue : Genuine(queue[i])
    BY DEF IInv, GenuineOK
  <2>2. \A i \in DOMAIN queue' : Genuine(queue'[i])
    <3>1. ASSUME NEW i \in DOMAIN Tail(queue) PROVE Genuine(Tail(queue)[i])
      <4>1. i + 1 \in DOMAIN queue /\ Tail(queue)[i] = queue[i + 1]
        BY <1>a
      <4>2. QED
        BY <2>1, <4>1
    <3>2. QED
      BY <1>c, <3>1
  <2>3. \A i \in DOMAIN one : Genuine(one[i])
    <3>1. 1 \in DOMAIN queue /\ \A i \in DOMAIN one : one[i] = queue[1]
      BY <1>a, <1>b
    <3>2. QED
      BY <2>1, <3>1
  <2>4. \A w \in Workers : \A i \in DOMAIN batch'[w] : Genuine(batch'[w][i])
    <3>1. ASSUME NEW i \in DOMAIN batch'[Web] PROVE Genuine(batch'[Web][i])
      BY <1>a, <1>c, <2>3
    <3>2. ASSUME NEW w \in Workers, w # Web, NEW i \in DOMAIN batch'[w] PROVE Genuine(batch'[w][i])
      BY <1>a, <1>c, <3>2 DEF IInv, GenuineOK
    <3>3. QED
      BY <3>1, <3>2
  <2>5. UNCHANGED <<pending, reads, inbox, seen, gets>>
    BY <1>c DEF watchVars, statdVars, history
  <2>6. QED
    BY <2>2, <2>4, <2>5 DEF IInv, GenuineOK, Genuine
<1>7. VisitorsOK'
  BY DEF WebTakes, statdVars, dbVars, history, IInv, VisitorsOK
<1>8. FlowOK'
  <2>1. SUFFICES ASSUME NEW a \in Articles, NEW src \in Sources PROVE FlowAt(src, a)'
    BY DEF FlowOK
  <2>2. Numbers(src, a) /\ FlowAt(src, a) /\ Numbers(src, a)'
    BY <1>1, <1>2, NumbersAround
  <2>3. UNCHANGED <<articles, reads, inbox, pending, seen, gets>>
    BY <1>c DEF watchVars, statdVars, dbVars, history
  <2>4. HeldBack = <<>> /\ HeldBack' = one
    <3>1. worker[Web] = "recv" /\ worker'[Web] = "delay" /\ batch'[Web] = one
      BY <1>a, <1>c DEF IInv, TypeOK
    <3>2. QED
      BY <3>1 DEF HeldBack
  <2>5. /\ articles'[a][src] = articles[a][src]
        /\ PendingOf(pending', src, a) = PendingOf(pending, src, a)
        /\ ReadsOf(reads', src, a) = ReadsOf(reads, src, a)
        /\ InboxOf(inbox', src, a) = InboxOf(inbox, src, a)
        /\ Happened(src, a)' = Happened(src, a)
    BY <2>3 DEF Happened
  <2>6. Cardinality(EventsOf(HeldBack', src, a)) + Cardinality(EventsOf(queue', src, a))
           <= Cardinality(EventsOf(queue, src, a))
    <3>1. 1 \in 0 .. Len(queue)
      BY <1>a
    <3>2. Cardinality(EventsOf(SubSeq(queue, 1, 1), src, a))
             + Cardinality(EventsOf(SubSeq(queue, 1 + 1, Len(queue)), src, a))
             <= Cardinality(EventsOf(queue, src, a))
      BY <1>a, <3>1, EventsSplit
    <3>3. /\ Len(SubSeq(queue, 1, 1)) = 1 /\ SubSeq(queue, 1, 1)[1] = queue[1]
          /\ Len(Tail(queue)) = Len(queue) - 1 /\ Len(queue) \in Nat
          /\ \A i \in 1 .. (Len(queue) - 1) : Tail(queue)[i] = queue[i + 1]
      BY <1>a, <3>1
    <3>r. /\ Len(SubSeq(queue, 1 + 1, Len(queue))) = Len(queue) - 1
          /\ \A i \in 1 .. (Len(queue) - 1) : SubSeq(queue, 1 + 1, Len(queue))[i] = queue[i + 1]
      BY <1>a, <3>1, RestIs
    <3>4. EventsOf(SubSeq(queue, 1, 1), src, a) = EventsOf(one, src, a)
      BY <1>b, <3>3 DEF EventsOf
    <3>5. EventsOf(SubSeq(queue, 1 + 1, Len(queue)), src, a) = EventsOf(Tail(queue), src, a)
      BY <3>3, <3>r DEF EventsOf
    <3>6. QED
      BY <1>c, <2>4, <3>2, <3>4, <3>5
  <2>7. Cardinality(EventsOf(HeldBack, src, a)) = 0
    BY <2>4, NoEvents
  <2>8. QED
    BY <2>2, <2>5, <2>6, <2>7 DEF FlowAt, Numbers
<1>9. AckOK'
  <2>1. UNCHANGED <<acked, articles, replies>>
    BY <1>c DEF statdVars, dbVars, history
  <2>2. \A q \in replies : q.from # Web
    BY <1>c DEF IInv, LinkOK
  <2>3. \A x \in Workers : [from |-> x, ok |-> TRUE] \in replies' =>
           [from |-> x, ok |-> TRUE] \in replies /\ batch'[x] = batch[x]
    BY <1>a, <1>c, <2>1, <2>2
  <2>4. QED
    BY <2>1, <2>3, AckLoses
<1>10. QED
  BY <1>1, <1>2, <1>3, <1>4, <1>5, <1>6, <1>7, <1>8, <1>9 DEF IInv

\* What is held back and what came meanwhile leave for one request.
LEMMA WebSendsKeeps ==
    ASSUME IInv, WebSends
    PROVE  IInv'
<1> DEFINE n  == Min({Len(queue), MaxBatch - 1})
           ev == batch[Web] \o SubSeq(queue, 1, n)
<1>a. /\ queue \in Seq(Event) /\ n \in 0 .. Len(queue) /\ n <= MaxBatch - 1 /\ MaxBatch \in Nat
      /\ Web \in Workers /\ batch[Web] \in Seq(Event) /\ Len(batch[Web]) = 1
  <2>1. /\ queue \in Seq(Event) /\ Len(queue) \in Nat /\ MaxBatch \in Nat /\ MaxBatch - 1 \in Nat
        /\ Web \in Workers /\ batch[Web] \in Seq(Event)
    BY StatisticsAssumption DEF IInv, TypeOK, Workers
  <2>2. n \in Nat /\ n <= Len(queue) /\ n <= MaxBatch - 1
    BY <2>1, MinOfTwo
  <2>3. Len(batch[Web]) = 1
    BY <2>1 DEF WebSends, IInv, DelayOK
  <2>4. QED
    BY <2>1, <2>2, <2>3
<1>c. worker[Web] = "delay" /\ Request(Web, ev)
  BY DEF WebSends
<1>d. /\ queue' = SubSeq(queue, n + 1, Len(queue))
      /\ UNCHANGED <<watchVars, webVars, reads, up, replies, lock, dbVars, crashes, history>>
  BY DEF WebSends
<1> HIDE DEF n
<1>b. ev \in Seq(Event) /\ Len(ev) = n + 1 /\ Len(ev) <= MaxBatch /\ DOMAIN ev = 1 .. (n + 1)
  <2>1. SubSeq(queue, 1, n) \in Seq(Event) /\ Len(SubSeq(queue, 1, n)) = n /\ n \in Nat
    BY <1>a
  <2>2. ev \in Seq(Event) /\ Len(ev) = Len(batch[Web]) + Len(SubSeq(queue, 1, n))
    <3>1. batch[Web] \in Seq(Event) /\ SubSeq(queue, 1, n) \in Seq(Event)
      BY <1>a, <2>1
    <3>2. QED
      BY <3>1, ConcatIs, Zenon
  <2> HIDE DEF ev
  <2>3. QED
    BY <1>a, <2>1, <2>2
<1> HIDE DEF ev
<1>r. /\ worker' \in [Workers -> {"recv", "delay", "request", "gone"}]
      /\ \A x \in Workers : batch'[x] \in Seq(Event) /\ Len(batch'[x]) <= MaxBatch
      /\ batch' \in [Workers -> Seq(Event)] /\ sent' \in [Workers -> Nat]
      /\ inbox' \subseteq Requests /\ IsFiniteSet(inbox')
      /\ \A r \in inbox' : Len(r.events) <= MaxBatch
      /\ DelayOK' /\ LinkOK' /\ AckOK'
      /\ batch'[Web] \in {ev, <<>>} /\ worker'[Web] # "delay"
      /\ \A x \in Workers : x # Web => batch'[x] = batch[x] /\ worker'[x] = worker[x]
      /\ \/ inbox' = inbox
         \/ inbox' = inbox \cup {[from |-> Web, no |-> sent[Web] + 1, events |-> ev]}
  <2>1. UNCHANGED <<replies, acked, articles>> /\ worker[Web] # "request"
    BY <1>c, <1>d DEF dbVars, history
  <2>2. QED
    BY <1>a, <1>b, <1>c, <2>1, RequestKeeps
<1>1. TypeOK'
  <2>1. queue' \in Seq(Event) /\ Len(queue') <= QueueCap
    <3>1. Len(queue) <= QueueCap /\ QueueCap \in Nat
      BY StatisticsAssumption DEF IInv, TypeOK
    <3>2. QED
      BY <1>a, <1>d, <3>1
  <2>2. QED
    BY <1>d, <1>r, <2>1 DEF watchVars, webVars, dbVars, IInv, TypeOK
<1>2. MoreTypes'
  BY <1>d, <1>r DEF webVars, history, IInv, MoreTypes
<1>3. DelayOK'
  BY <1>r
<1>4. ArmedOK'
  BY DEF WebSends, watchVars, history, IInv, ArmedOK
<1>5. LinkOK'
  BY <1>r
<1>6. GenuineOK'
  <2>1. \A i \in DOMAIN queue : Genuine(queue[i])
    BY DEF IInv, GenuineOK
  <2>2. \A i \in DOMAIN ev : Genuine(ev[i])
    <3>1. ASSUME NEW i \in DOMAIN ev PROVE Genuine(ev[i])
      <4>0. /\ SubSeq(queue, 1, n) \in Seq(Event) /\ Len(SubSeq(queue, 1, n)) = n /\ n \in Nat
            /\ \A k \in 1 .. Len(batch[Web]) : ev[k] = batch[Web][k]
            /\ \A k \in (Len(batch[Web]) + 1) .. (Len(batch[Web]) + Len(SubSeq(queue, 1, n))) :
                  ev[k] = SubSeq(queue, 1, n)[k - Len(batch[Web])]
        <5>1. SubSeq(queue, 1, n) \in Seq(Event) /\ Len(SubSeq(queue, 1, n)) = n /\ n \in Nat
          BY <1>a
        <5> DEFINE x == batch[Web]
                   y == SubSeq(queue, 1, n)
        <5>2. ev = x \o y /\ x \in Seq(Event) /\ y \in Seq(Event)
          BY <1>a, <5>1 DEF ev
        <5> HIDE DEF x, y
        <5>3. /\ \A k \in 1 .. Len(x) : (x \o y)[k] = x[k]
              /\ \A k \in (Len(x) + 1) .. (Len(x) + Len(y)) : (x \o y)[k] = y[k - Len(x)]
          BY <5>2, ConcatIs
        <5>4. QED
          BY <5>1, <5>2, <5>3 DEF x, y
      <4>1. i \in 1 .. (n + 1)
        BY <1>b, <3>1
      <4>2. CASE i = 1
        <5>1. 1 \in DOMAIN batch[Web] /\ ev[1] = batch[Web][1]
          BY <1>a, <4>0
        <5>2. QED
          BY <1>a, <4>2, <5>1 DEF IInv, GenuineOK
      <4>3. CASE i # 1
        <5>1. i - 1 \in 1 .. n /\ ev[i] = SubSeq(queue, 1, n)[i - 1]
          BY <1>a, <4>0, <4>1, <4>3, SMTT(30)
        <5>2. i - 1 \in DOMAIN queue /\ ev[i] = queue[i - 1]
          BY <1>a, <5>1
        <5>3. QED
          BY <2>1, <5>2
      <4>4. QED
        BY <4>2, <4>3
    <3>2. QED
      BY <3>1
  <2>3. \A i \in DOMAIN queue' : Genuine(queue'[i])
    <3>1. ASSUME NEW i \in DOMAIN queue' PROVE Genuine(queue'[i])
      <4>1. i + n \in DOMAIN queue /\ queue'[i] = queue[i + n]
        BY <1>a, <1>d, <3>1
      <4>2. QED
        BY <2>1, <4>1
    <3>2. QED
      BY <3>1
  <2>4. \A w \in Workers : \A i \in DOMAIN batch'[w] : Genuine(batch'[w][i])
    <3>1. ASSUME NEW i \in DOMAIN batch'[Web] PROVE Genuine(batch'[Web][i])
      BY <1>r, <2>2
    <3>2. ASSUME NEW w \in Workers, w # Web, NEW i \in DOMAIN batch'[w] PROVE Genuine(batch'[w][i])
      BY <1>r, <3>2 DEF IInv, GenuineOK
    <3>3. QED
      BY <3>1, <3>2
  <2>5. \A r \in inbox' : \A i \in DOMAIN r.events : Genuine(r.events[i])
    BY <1>r, <2>2 DEF IInv, GenuineOK
  <2>6. UNCHANGED <<pending, reads, seen, gets>>
    BY <1>d DEF watchVars, history
  <2>7. QED
    BY <2>3, <2>4, <2>5, <2>6 DEF IInv, GenuineOK, Genuine
<1>7. VisitorsOK'
  BY DEF WebSends, dbVars, history, IInv, VisitorsOK
<1>8. FlowOK'
  <2>1. SUFFICES ASSUME NEW a \in Articles, NEW src \in Sources PROVE FlowAt(src, a)'
    BY DEF FlowOK
  <2>2. Numbers(src, a) /\ FlowAt(src, a) /\ Numbers(src, a)'
    BY <1>1, <1>2, NumbersAround
  <2>3. UNCHANGED <<articles, reads, pending, seen, gets>>
    BY <1>d DEF watchVars, dbVars, history
  <2>4. HeldBack = batch[Web] /\ HeldBack' = <<>>
    BY <1>c, <1>r DEF HeldBack
  <2>5. /\ articles'[a][src] = articles[a][src]
        /\ PendingOf(pending', src, a) = PendingOf(pending, src, a)
        /\ ReadsOf(reads', src, a) = ReadsOf(reads, src, a)
        /\ Happened(src, a)' = Happened(src, a)
    BY <2>3 DEF Happened
  <2>6. Cardinality(EventsOf(HeldBack', src, a)) = 0
    BY <2>4, NoEvents
  <2>7. /\ Cardinality(EventsOf(ev, src, a)) \in Nat
        /\ Cardinality(EventsOf(SubSeq(queue, 1, n), src, a)) \in Nat
    <3>1. SubSeq(queue, 1, n) \in Seq(Event)
      BY <1>a
    <3>2. QED
      BY <1>b, <3>1, EventsFinite
  <2>8. Cardinality(EventsOf(SubSeq(queue, 1, n), src, a)) + Cardinality(EventsOf(queue', src, a))
           <= Cardinality(EventsOf(queue, src, a))
    BY <1>a, <1>d, EventsSplit
  <2>9. Cardinality(EventsOf(ev, src, a))
           <= Cardinality(EventsOf(HeldBack, src, a))
                + Cardinality(EventsOf(SubSeq(queue, 1, n), src, a))
    <3>1. SubSeq(queue, 1, n) \in Seq(Event)
      BY <1>a
    <3>2. QED
      BY <1>a, <2>4, <3>1, EventsConcat DEF ev
  <2>10. Cardinality(InboxOf(inbox', src, a))
           <= Cardinality(InboxOf(inbox, src, a)) + Cardinality(EventsOf(ev, src, a))
    <3> DEFINE r0 == [from |-> Web, no |-> sent[Web] + 1, events |-> ev]
    <3>1. r0.events = ev /\ IsFiniteSet(inbox)
      BY DEF IInv, MoreTypes
    <3> HIDE DEF r0
    <3>2. Cardinality(InboxOf(inbox \cup {r0}, src, a))
             <= Cardinality(InboxOf(inbox, src, a)) + Cardinality(EventsOf(r0.events, src, a))
      BY <1>b, <3>1, InboxAdd
    <3>3. CASE inbox' = inbox
      BY <2>2, <2>7, <3>3 DEF Numbers
    <3>4. CASE inbox' = inbox \cup {r0}
      BY <3>1, <3>2, <3>4
    <3>5. QED
      BY <1>r, <3>3, <3>4 DEF r0
  <2>11. QED
    BY <2>2, <2>5, <2>6, <2>7, <2>8, <2>9, <2>10 DEF FlowAt, Numbers
<1>9. AckOK'
  BY <1>r
<1>10. QED
  BY <1>1, <1>2, <1>3, <1>4, <1>5, <1>6, <1>7, <1>8, <1>9 DEF IInv

\* One answered request queues at most one event.
LEMMA GetKeeps ==
    ASSUME IInv, NEW b \in Articles, NEW ip \in Clients, Get(b, ip)
    PROVE  IInv'
<1> DEFINE e0 == [source |-> "static", article |-> b, ip |-> ip]
<1>a. queue \in Seq(Event) /\ Len(queue) <= QueueCap /\ QueueCap \in Nat /\ e0 \in Event
  BY StatisticsAssumption DEF IInv, TypeOK, Event, Sources, Addresses
<1>b. /\ queue' = queue \/ queue' = TrySend(queue, e0, QueueCap)
      /\ gets' = [gets EXCEPT ![b] = @ + 1]
      /\ UNCHANGED <<watchVars, webVars, reads, worker, batch, sent, statdVars, seen, acked>>
  BY DEF Get
<1> HIDE DEF e0
<1>c. /\ queue' \in Seq(Event) /\ Len(queue') <= QueueCap
      /\ \A i \in DOMAIN queue' : queue'[i] = e0 \/ (i \in DOMAIN queue /\ queue'[i] = queue[i])
  <2>1. CASE queue' = queue
    BY <1>a, <2>1
  <2>2. CASE queue' = TrySend(queue, e0, QueueCap)
    BY <1>a, <2>2, TrySendAdds
  <2>3. QED
    BY <1>b, <2>1, <2>2
<1>d. /\ \A a \in Articles : gets'[a] \in Nat /\ gets[a] <= gets'[a]
      /\ gets'[b] = gets[b] + 1
  BY <1>b DEF IInv, MoreTypes
<1>1. TypeOK'
  <2>1. queue' \in Seq(Event) /\ Len(queue') <= QueueCap
    BY <1>b, <1>c
  <2>2. QED
    BY <1>b, <2>1 DEF watchVars, webVars, statdVars, dbVars, IInv, TypeOK
<1>2. MoreTypes'
  BY DEF Get, webVars, statdVars, IInv, MoreTypes
<1>3. DelayOK'
  BY DEF Get, IInv, DelayOK
<1>4. ArmedOK'
  BY DEF Get, watchVars, IInv, ArmedOK
<1>5. LinkOK'
  BY DEF Get, statdVars, IInv, LinkOK
<1>6. GenuineOK'
  <2>1. seen \subseteq seen' /\ \A a \in Articles : gets'[a] \in Nat /\ gets[a] <= gets'[a]
    BY <1>b, <1>d
  <2>2. \A a \in Articles : gets[a] \in Nat
    BY DEF IInv, MoreTypes
  <2>3. \A e \in Event : GenuineIn(seen, gets, e) => GenuineIn(seen', gets', e)
    BY <2>1, <2>2, GenuineStays
  <2>4. GenuineIn(seen', gets', e0)
    <3>1. gets'[b] > 0
      BY <1>d, <2>2
    <3>2. QED
      BY <3>1 DEF GenuineIn, e0
  <2>5. \A i \in DOMAIN queue' : GenuineIn(seen', gets', queue'[i])
    <3>1. \A i \in DOMAIN queue : queue[i] \in Event /\ GenuineIn(seen, gets, queue[i])
      BY <1>a DEF IInv, GenuineOK, Genuine
    <3>2. QED
      BY <1>c, <2>3, <2>4, <3>1
  <2>6. \A w \in Workers : \A i \in DOMAIN batch'[w] : GenuineIn(seen', gets', batch'[w][i])
    <3>1. \A w \in Workers : \A i \in DOMAIN batch[w] :
             batch[w][i] \in Event /\ GenuineIn(seen, gets, batch[w][i])
      BY DEF IInv, TypeOK, GenuineOK, Genuine
    <3>2. QED
      BY <1>b, <2>3, <3>1
  <2>7. \A r \in inbox' : \A i \in DOMAIN r.events : GenuineIn(seen', gets', r.events[i])
    <3>1. \A r \in inbox : r.events \in Seq(Event)
      BY DEF IInv, MoreTypes, Requests
    <3>2. \A r \in inbox : \A i \in DOMAIN r.events :
             r.events[i] \in Event /\ GenuineIn(seen, gets, r.events[i])
      BY <3>1 DEF IInv, GenuineOK, Genuine
    <3>3. QED
      BY <1>b, <2>3, <3>2 DEF statdVars
  <2>8. UNCHANGED <<pending, reads, seen>>
    BY <1>b DEF watchVars
  <2>9. QED
    BY <2>5, <2>6, <2>7, <2>8 DEF IInv, GenuineOK, Genuine
<1>7. VisitorsOK'
  <2>1. UNCHANGED <<visitors, seen>>
    BY <1>b DEF statdVars, dbVars
  <2>2. \A a \in Articles : gets[a] > 0 => gets'[a] > 0
    BY <1>d DEF IInv, MoreTypes
  <2>3. \A t, a : a \in InTarget(t) => a \in Articles
    BY DEF InTarget
  <2>4. ASSUME NEW v \in visitors
        PROVE  /\ Canon[v[2]] = v[2]
               /\ \/ \E s \in Sessions, a \in InTarget(v[1]) : <<s, a>> \in seen /\ Canon[Peer[s]] = v[2]
                  \/ \E a \in InTarget(v[1]), x \in Clients : gets'[a] > 0 /\ Canon[x] = v[2]
    BY <2>2, <2>3 DEF IInv, VisitorsOK
  <2>5. QED
    BY <2>1, <2>4 DEF VisitorsOK
<1>8. FlowOK'
  <2>1. SUFFICES ASSUME NEW a \in Articles, NEW src \in Sources PROVE FlowAt(src, a)'
    BY DEF FlowOK
  <2>2. Numbers(src, a) /\ FlowAt(src, a) /\ Numbers(src, a)'
    BY <1>1, <1>2, NumbersAround
  <2>3. UNCHANGED <<articles, reads, inbox, pending, seen, worker, batch>>
    BY <1>b DEF watchVars, statdVars, dbVars
  <2>4. /\ articles'[a][src] = articles[a][src]
        /\ PendingOf(pending', src, a) = PendingOf(pending, src, a)
        /\ ReadsOf(reads', src, a) = ReadsOf(reads, src, a)
        /\ InboxOf(inbox', src, a) = InboxOf(inbox, src, a)
        /\ EventsOf(HeldBack', src, a) = EventsOf(HeldBack, src, a)
    BY <2>3 DEF HeldBack
  <2>5. CASE Is(e0, src, a)
    <3>1. src = "static" /\ a = b
      BY <2>5 DEF Is, e0
    <3>2. Happened(src, a)' = Happened(src, a) + 1
      BY <1>d, <3>1 DEF Happened
    <3>3. Cardinality(EventsOf(queue', src, a)) <= Cardinality(EventsOf(queue, src, a)) + 1
      <4>1. CASE queue' = queue
        BY <2>2, <4>1 DEF Numbers
      <4>2. CASE queue' = Append(queue, e0)
        BY <1>a, <2>5, <4>2, EventsAppend
      <4>3. QED
        BY <1>b, <4>1, <4>2 DEF TrySend
    <3>4. QED
      BY <2>2, <2>4, <3>2, <3>3 DEF FlowAt, Numbers
  <2>6. CASE ~Is(e0, src, a)
    <3>1. Happened(src, a) <= Happened(src, a)'
      <4>1. CASE src = "terminal"
        BY <2>2, <2>3, <4>1 DEF Happened, Numbers
      <4>2. CASE src # "terminal"
        BY <1>d, <4>2 DEF Happened
      <4>3. QED
        BY <4>1, <4>2
    <3>2. Cardinality(EventsOf(queue', src, a)) <= Cardinality(EventsOf(queue, src, a))
      <4>1. CASE queue' = queue
        BY <2>2, <4>1 DEF Numbers
      <4>2. CASE queue' = Append(queue, e0)
        <5>1. Cardinality(EventsOf(queue', src, a)) <= Cardinality(EventsOf(queue, src, a)) + 0
          BY <1>a, <2>6, <4>2, EventsAppend
        <5>2. QED
          BY <2>2, <5>1 DEF Numbers
      <4>3. QED
        BY <1>b, <4>1, <4>2 DEF TrySend
    <3>3. QED
      BY <2>2, <2>4, <3>1, <3>2, FlowShrinks DEF Numbers
  <2>7. QED
    BY <2>5, <2>6
<1>9. AckOK'
  BY DEF Get, statdVars, dbVars, IInv, AckOK, AckAt
<1>10. QED
  BY <1>1, <1>2, <1>3, <1>4, <1>5, <1>6, <1>7, <1>8, <1>9 DEF IInv

\* statd commits a batch whole or not at all, and it is answered as it was handled.
LEMMA HandleBatchKeeps ==
    ASSUME IInv, NEW r \in inbox, HandleBatch(r)
    PROVE  IInv'
<1> DEFINE ev == r.events
<1>a. /\ r.from \in Workers /\ r.no \in Nat /\ ev \in Seq(Event) /\ Len(ev) <= MaxBatch
      /\ \A i \in DOMAIN ev : ev[i] \in Event
  <2>1. r.from \in Workers /\ r.no \in Nat /\ ev \in Seq(Event) /\ Len(ev) <= MaxBatch
    BY DEF IInv, MoreTypes, Requests
  <2> HIDE DEF ev
  <2>2. QED
    BY <2>1
<1>b. \/ ~Overflows(ev) /\ Commit(ev) /\ Answer(r, TRUE)
      \/ UNCHANGED dbVars /\ Answer(r, FALSE)
  BY DEF HandleBatch, Rollback
<1>c. /\ UNCHANGED <<watchVars, webVars, workVars, up, lock, crashes, history>>
      /\ inbox' = inbox \ {r}
  BY DEF HandleBatch
<1> HIDE DEF ev
<1>d. \A a \in Articles, src \in Sources :
         \/ articles'[a][src] = articles[a][src]
         \/ articles'[a][src] = articles[a][src] + Cardinality(EventsOf(ev, src, a))
  <2>1. \A a \in Articles, src \in Sources : Count(ev, src, {a}) = Cardinality(EventsOf(ev, src, a))
    BY <1>a, EventsFinite
  <2>2. CASE Commit(ev)
    BY <2>1, <2>2 DEF Commit, ArticlesPlus
  <2>3. CASE UNCHANGED dbVars
    BY <2>3 DEF dbVars
  <2>4. QED
    BY <1>b, <2>2, <2>3
<1>1. TypeOK'
  <2>1. CASE UNCHANGED dbVars
    BY <1>c, <2>1 DEF watchVars, webVars, workVars, dbVars, IInv, TypeOK
  <2>2. CASE ~Overflows(ev) /\ Commit(ev)
    <3>1. \A src \in Sources : \A A : Count(ev, src, A) \in Nat
      BY <1>a, CountNat
    <3>2. \A t \in Targets, src \in Sources : TotalsPlus(ev)[t][src] \in 0 .. MaxCount
      <4>1. ASSUME NEW t \in Targets, NEW src \in Sources
            PROVE  TotalsPlus(ev)[t][src] \in 0 .. MaxCount
        <5>1. /\ TotalsPlus(ev)[t][src] = totals[t][src] + Count(ev, src, InTarget(t))
              /\ Count(ev, src, InTarget(t)) \in Nat /\ totals[t][src] \in Nat /\ MaxCount \in Nat
          BY <3>1, StatisticsAssumption DEF TotalsPlus, IInv, TypeOK
        <5>2. ~(TotalsPlus(ev)[t][src] > MaxCount)
          BY <2>2 DEF Overflows
        <5>3. QED
          BY <5>1, <5>2
      <4>2. QED
        BY <4>1
    <3>3. totals' \in [Targets -> [Sources -> 0 .. MaxCount]]
      BY <2>2, <3>2 DEF Commit, TotalsPlus
    <3>4. \A a \in Articles, src \in Sources : ArticlesPlus(ev)[a][src] \in 0 .. MaxCount
      <4>1. ASSUME NEW a \in Articles, NEW src \in Sources
            PROVE  ArticlesPlus(ev)[a][src] \in 0 .. MaxCount
        <5>1. /\ ArticlesPlus(ev)[a][src] = articles[a][src] + Count(ev, src, {a})
              /\ Count(ev, src, {a}) \in Nat /\ articles[a][src] \in Nat /\ MaxCount \in Nat
          BY <3>1, StatisticsAssumption DEF ArticlesPlus, IInv, TypeOK
        <5>2. ~(ArticlesPlus(ev)[a][src] > MaxCount)
          BY <2>2 DEF Overflows
        <5>3. QED
          BY <5>1, <5>2
      <4>2. QED
        BY <4>1
    <3>5. articles' \in [Articles -> [Sources -> 0 .. MaxCount]]
      BY <2>2, <3>4 DEF Commit, ArticlesPlus
    <3>6. visitors' \subseteq Targets \X DOMAIN Canon
      <4>1. \A i \in DOMAIN ev : VisitorHash(ev[i]) \in Targets \X DOMAIN Canon
        <5>1. \A i \in DOMAIN ev : ev[i].article \in Articles /\ ev[i].ip \in Addresses
          BY <1>a DEF Event
        <5>2. \A i \in DOMAIN ev : Target[ev[i].article] \in Targets /\ Canon[ev[i].ip] \in DOMAIN Canon
          BY <5>1, StatisticsAssumption DEF Targets
        <5>3. QED
          BY <5>2 DEF VisitorHash
      <4>2. QED
        BY <2>2, <4>1 DEF Commit, VisitorsPlus, IInv, TypeOK
    <3>7. QED
      BY <1>c, <3>3, <3>5, <3>6 DEF watchVars, webVars, workVars, IInv, TypeOK
  <2>3. QED
    BY <1>b, <2>1, <2>2
<1>2. MoreTypes'
  <2>1. replies' \subseteq [from : Workers, ok : BOOLEAN]
    <3>1. \A b \in BOOLEAN : [from |-> r.from, ok |-> b] \in [from : Workers, ok : BOOLEAN]
      BY <1>a
    <3>2. CASE Answer(r, TRUE)
      BY <3>1, <3>2 DEF Answer, IInv, MoreTypes
    <3>3. CASE Answer(r, FALSE)
      BY <3>1, <3>3 DEF Answer, IInv, MoreTypes
    <3>4. QED
      BY <1>b, <3>2, <3>3
  <2>2. inbox' \subseteq inbox /\ IsFiniteSet(inbox')
    BY <1>c, FS_Subset DEF IInv, MoreTypes
  <2>3. QED
    BY <1>c, <2>1, <2>2 DEF webVars, workVars, history, IInv, MoreTypes
<1>3. DelayOK'
  BY DEF HandleBatch, workVars, IInv, DelayOK
<1>4. ArmedOK'
  BY DEF HandleBatch, watchVars, history, IInv, ArmedOK
<1>5. LinkOK'
  <2>1. UNCHANGED <<worker, batch, sent>>
    BY <1>c DEF workVars
  <2>2. \A q \in inbox' : q \in inbox /\ (q.from = r.from => q.no # r.no)
    BY <1>c DEF IInv, LinkOK
  <2>3. CASE replies' = replies
    BY <2>1, <2>2, <2>3 DEF IInv, LinkOK
  <2>4. CASE \E b \in BOOLEAN : /\ worker[r.from] = "request" /\ sent[r.from] = r.no
                                /\ replies' = replies \cup {[from |-> r.from, ok |-> b]}
    <3>1. PICK b \in BOOLEAN : /\ worker[r.from] = "request" /\ sent[r.from] = r.no
                               /\ replies' = replies \cup {[from |-> r.from, ok |-> b]}
      BY <2>4
    <3>2. \A q \in replies : q.from # r.from
      BY <3>1 DEF IInv, LinkOK
    <3>3. \A q \in replies' : worker'[q.from] = "request"
      BY <2>1, <3>1 DEF IInv, LinkOK
    <3>4. \A p, q \in replies' : p.from = q.from => p = q
      BY <3>1, <3>2 DEF IInv, LinkOK
    <3>5. ASSUME NEW q \in inbox', worker'[q.from] = "request", q.no = sent'[q.from]
          PROVE  q.events = batch'[q.from] /\ \A p \in replies' : p.from # q.from
      <4>1. q \in inbox /\ q.from # r.from
        BY <2>1, <2>2, <3>1, <3>5
      <4>2. QED
        BY <2>1, <3>1, <3>5, <4>1 DEF IInv, LinkOK
    <3>6. /\ \A q \in inbox' : q.no <= sent'[q.from]
          /\ \A p, q \in inbox' : p.from = q.from /\ p.no = q.no => p = q
      BY <2>1, <2>2 DEF IInv, LinkOK
    <3>7. QED
      BY <3>3, <3>4, <3>5, <3>6 DEF LinkOK
  <2>5. QED
    BY <1>b, <2>3, <2>4 DEF Answer
<1>6. GenuineOK'
  <2>1. UNCHANGED <<pending, reads, queue, batch, seen, gets>> /\ inbox' \subseteq inbox
    BY <1>c DEF watchVars, workVars, history
  <2>2. QED
    BY <2>1 DEF IInv, GenuineOK, Genuine
<1>7. VisitorsOK'
  <2>1. UNCHANGED <<seen, gets>>
    BY <1>c DEF history
  <2>2. CASE UNCHANGED visitors
    BY <2>1, <2>2 DEF IInv, VisitorsOK
  <2>3. CASE visitors' = visitors \cup {VisitorHash(ev[i]) : i \in DOMAIN ev}
    <3>1. ASSUME NEW i \in DOMAIN ev, NEW v, v = VisitorHash(ev[i])
          PROVE  /\ Canon[v[2]] = v[2]
                 /\ \/ \E s \in Sessions, a \in InTarget(v[1]) : <<s, a>> \in seen /\ Canon[Peer[s]] = v[2]
                    \/ \E a \in InTarget(v[1]), x \in Clients : gets[a] > 0 /\ Canon[x] = v[2]
      <4>1. ev[i].article \in Articles /\ ev[i].ip \in Addresses
        BY <1>a DEF Event
      <4>2. v[1] = Target[ev[i].article] /\ v[2] = Canon[ev[i].ip]
        BY <3>1 DEF VisitorHash
      <4>3. ev[i].article \in InTarget(v[1])
        BY <4>1, <4>2 DEF InTarget
      <4>4. Canon[v[2]] = v[2]
        BY <4>1, <4>2, StatisticsAssumption
      <4>5. GenuineIn(seen, gets, ev[i])
        BY DEF ev, IInv, GenuineOK, Genuine
      <4>6. QED
        BY <4>2, <4>3, <4>4, <4>5 DEF GenuineIn
    <3>2. QED
      BY <2>1, <2>3, <3>1 DEF IInv, VisitorsOK
  <2>4. QED
    BY <1>b, <2>2, <2>3 DEF dbVars, Commit, VisitorsPlus
<1>8. FlowOK'
  <2>1. SUFFICES ASSUME NEW a \in Articles, NEW src \in Sources PROVE FlowAt(src, a)'
    BY DEF FlowOK
  <2>2. Numbers(src, a) /\ FlowAt(src, a) /\ Numbers(src, a)'
    BY <1>1, <1>2, NumbersAround
  <2>3. UNCHANGED <<reads, queue, pending, seen, gets, worker, batch>>
    BY <1>c DEF watchVars, workVars, history
  <2>4. /\ PendingOf(pending', src, a) = PendingOf(pending, src, a)
        /\ ReadsOf(reads', src, a) = ReadsOf(reads, src, a)
        /\ EventsOf(queue', src, a) = EventsOf(queue, src, a)
        /\ EventsOf(HeldBack', src, a) = EventsOf(HeldBack, src, a)
        /\ Happened(src, a)' = Happened(src, a)
    BY <2>3 DEF HeldBack, Happened
  <2>5. Cardinality(InboxOf(inbox', src, a)) + Cardinality(EventsOf(ev, src, a))
           <= Cardinality(InboxOf(inbox, src, a))
    <3>1. IsFiniteSet(inbox)
      BY DEF IInv, MoreTypes
    <3>2. QED
      BY <1>a, <1>c, <3>1, InboxRemove DEF ev
  <2>6. Cardinality(EventsOf(ev, src, a)) \in Nat
    BY <1>a, EventsFinite
  <2>7. articles'[a][src] <= articles[a][src] + Cardinality(EventsOf(ev, src, a))
    BY <1>d, <2>2, <2>6 DEF Numbers
  <2>8. QED
    BY <2>2, <2>4, <2>5, <2>6, <2>7 DEF FlowAt, Numbers
<1>9. AckOK'
  <2>1. UNCHANGED <<acked, batch, worker, sent>>
    BY <1>c DEF workVars, history
  <2>2. CASE UNCHANGED dbVars /\ Answer(r, FALSE)
    <3>1. \A w \in Workers : [from |-> w, ok |-> TRUE] \in replies' =>
             [from |-> w, ok |-> TRUE] \in replies /\ batch'[w] = batch[w]
      BY <2>1, <2>2 DEF Answer
    <3>2. QED
      BY <2>1, <2>2, <3>1, AckLoses DEF dbVars
  <2>3. CASE Commit(ev) /\ Answer(r, TRUE)
    <3>1. SUFFICES ASSUME NEW a \in Articles, NEW src \in Sources PROVE AckAt(src, a)'
      BY DEF AckOK
    <3>2. articles'[a][src] = articles[a][src] + Cardinality(EventsOf(ev, src, a))
      <4>1. Count(ev, src, {a}) = Cardinality(EventsOf(ev, src, a))
        BY <1>a, EventsFinite
      <4>2. QED
        BY <2>3, <4>1 DEF Commit, ArticlesPlus
    <3>3. Cardinality(EventsOf(ev, src, a)) \in Nat
      BY <1>a, EventsFinite
    <3>4. /\ Cardinality(AckingOf(replies', batch', src, a)) \in Nat
          /\ Cardinality(AckingOf(replies, batch, src, a)) \in Nat
      BY AckingFinite
    <3>5. Cardinality(AckingOf(replies', batch', src, a))
             <= Cardinality(AckingOf(replies, batch, src, a)) + Cardinality(EventsOf(ev, src, a))
      <4>1. CASE replies' = replies
        BY <2>1, <3>3, <3>4, <4>1
      <4>2. CASE worker[r.from] = "request" /\ sent[r.from] = r.no
        <5>1. replies' = replies \cup {[from |-> r.from, ok |-> TRUE]}
          BY <2>3, <4>2 DEF Answer
        <5>2. batch[r.from] = ev
          BY <4>2 DEF IInv, LinkOK, ev
        <5>3. QED
          BY <1>a, <2>1, <5>1, <5>2, AckingMore
      <4>3. QED
        BY <2>3, <4>1, <4>2 DEF Answer
    <3>6. AckAt(src, a) /\ acked[a][src] \in Nat /\ articles[a][src] \in Nat
      BY DEF IInv, AckOK, MoreTypes, TypeOK
    <3>7. QED
      BY <2>1, <3>2, <3>3, <3>4, <3>5, <3>6 DEF AckAt
  <2>4. QED
    BY <1>b, <2>2, <2>3
<1>10. QED
  BY <1>1, <1>2, <1>3, <1>4, <1>5, <1>6, <1>7, <1>8, <1>9 DEF IInv

-----------------------------------------------------------------------------
(* The theorems.                                                           *)

\* At the start nothing has happened and no place holds anything.
LEMMA InitEstablishes ==
    ASSUME Init
    PROVE  IInv
<1>1. TypeOK
  BY StatisticsAssumption DEF Init, TypeOK, Zero, LoadRoutes
<1>2. MoreTypes
  <2>1. IsFiniteSet({}) /\ {} \subseteq Requests
    BY FS_EmptySet
  <2>2. QED
    BY <2>1 DEF Init, MoreTypes, Zero
<1>3. DelayOK /\ ArmedOK /\ LinkOK /\ VisitorsOK
  BY DEF Init, DelayOK, ArmedOK, LinkOK, VisitorsOK
<1>4. GenuineOK
  BY DEF Init, GenuineOK
<1>5. FlowOK
  <2>1. SUFFICES ASSUME NEW a \in Articles, NEW src \in Sources PROVE FlowAt(src, a)
    BY DEF FlowOK
  <2>2. articles[a][src] = 0 /\ queue = <<>> /\ HeldBack = <<>>
    BY DEF Init, Zero, HeldBack, Workers
  <2>3. /\ PendingOf(pending, src, a) = {}
        /\ ReadsOf(reads, src, a) = {}
        /\ InboxOf(inbox, src, a) = {}
    <3>1. \A t \in Sessions \X (1 .. ReadsCap) : reads[t[1]] = <<>>
      BY DEF Init
    <3>2. \A i \in 1 .. ReadsCap : ~(i <= Len(<<>>))
      OBVIOUS
    <3>3. ReadsOf(reads, src, a) = {}
      BY <3>1, <3>2 DEF ReadsOf
    <3>4. PendingOf(pending, src, a) = {} /\ InboxOf(inbox, src, a) = {}
      BY DEF Init, PendingOf, InboxOf
    <3>5. QED
      BY <3>3, <3>4
  <2>4. /\ Cardinality(PendingOf(pending, src, a)) = 0
        /\ Cardinality(ReadsOf(reads, src, a)) = 0
        /\ Cardinality(InboxOf(inbox, src, a)) = 0
    BY <2>3, FS_EmptySet
  <2>5. Cardinality(EventsOf(queue, src, a)) = 0 /\ Cardinality(EventsOf(HeldBack, src, a)) = 0
    BY <2>2, NoEvents
  <2>6. Happened(src, a) \in Nat
    BY <1>1, <1>2, FlowNumbers DEF Numbers
  <2>7. QED
    BY <2>2, <2>4, <2>5, <2>6 DEF FlowAt
<1>6. AckOK
  <2>1. SUFFICES ASSUME NEW a \in Articles, NEW src \in Sources PROVE AckAt(src, a)
    BY DEF AckOK
  <2>2. AckingOf(replies, batch, src, a) = {}
    BY DEF Init, AckingOf
  <2>3. Cardinality(AckingOf(replies, batch, src, a)) = 0
    BY <2>2, FS_EmptySet
  <2>4. acked[a][src] = 0 /\ articles[a][src] = 0
    BY DEF Init, Zero
  <2>5. QED
    BY <2>3, <2>4 DEF AckAt
<1>7. QED
  BY <1>1, <1>2, <1>3, <1>4, <1>5, <1>6 DEF IInv

\* Every step keeps the invariant.
LEMMA NextKeeps ==
    ASSUME IInv, [Next]_vars
    PROVE  IInv'
<1>1. CASE UNCHANGED vars
  <2>1. UNCHANGED <<watchVars, webVars, workVars, statdVars, history>>
    BY <1>1 DEF vars
  <2>2. TypeOK' /\ MoreTypes' /\ ArmedOK'
    BY <2>1 DEF watchVars, webVars, workVars, statdVars, dbVars, history, IInv, TypeOK, MoreTypes,
                ArmedOK
  <2>3. DelayOK' /\ LinkOK' /\ GenuineOK' /\ VisitorsOK' /\ FlowOK' /\ AckOK'
    BY <2>1, QuietKeeps DEF watchVars, workVars, statdVars
  <2>4. QED
    BY <2>2, <2>3 DEF IInv
<1>2. CASE \E r \in inbox : HandleBatch(r)
  BY <1>2, HandleBatchKeeps
<1>3. CASE Crash \/ Restart
  BY <1>3, CrashKeeps, RestartKeeps
<1>4. ASSUME NEW s \in Sessions,
             \/ Prepare(s) \/ SnapshotTotals(s) \/ SnapshotArticles(s) \/ SnapshotFails(s)
             \/ \E a \in Articles : GuestReads(s, a)
             \/ Watcher(s) \/ SessionSends(s) \/ Stop(s) \/ Abort(s)
      PROVE  IInv'
  <2>1. CASE Prepare(s) \/ SnapshotTotals(s) \/ SnapshotArticles(s) \/ SnapshotFails(s)
    BY <2>1, PrepareKeeps, SnapshotTotalsKeeps, SnapshotArticlesKeeps, SnapshotFailsKeeps
  <2>2. CASE (\E a \in Articles : GuestReads(s, a)) \/ Watcher(s)
    BY <2>2, GuestReadsKeeps, WatcherTakesKeeps, WatcherEndsKeeps DEF Watcher
  <2>3. CASE SessionSends(s) \/ Stop(s) \/ Abort(s)
    BY <2>3, SessionSendsKeeps, StopKeeps, AbortKeeps
  <2>4. QED
    BY <1>4, <2>1, <2>2, <2>3
<1>5. CASE WebTakes \/ WebSends
  BY <1>5, WebTakesKeeps, WebSendsKeeps
<1>6. CASE \E r \in replies : Receive(r)
  BY <1>6, ReceiveKeeps
<1>7. CASE \E w \in Workers : GiveUp(w)
  BY <1>7, GiveUpKeeps
<1>8. CASE Publish \/ Reload
  BY <1>8, PublishKeeps, ReloadKeeps
<1>9. CASE \E a \in Articles, ip \in Clients : Get(a, ip)
  BY <1>9, GetKeeps
<1>10. QED
  BY <1>1, <1>2, <1>3, <1>4, <1>5, <1>6, <1>7, <1>8, <1>9 DEF Next

\* Whatever fails, is late or is aborted between watcher.rs or stats.rs and the tables
\* of statd, the invariant holds.
THEOREM InductiveInvariant == Spec => []IInv
<1>1. Init => IInv
  BY InitEstablishes
<1>2. IInv /\ [Next]_vars => IInv'
  BY NextKeeps
<1>3. QED
  BY <1>1, <1>2, PTL DEF Spec

\* The channels, the batches and the counters stay within QUEUE_CAPACITY, MAX_BATCH_EVENTS
\* and i64, for any number of sessions, articles and requests.
THEOREM TypeCorrect == Spec => []TypeOK
<1>1. IInv => TypeOK
  BY DEF IInv
<1>2. QED
  BY <1>1, InductiveInvariant, PTL

\* No read and no request is counted twice, nothing acknowledged is lost, and every
\* visitor was there: record_batch, the workers that never retry and the one-shot
\* watchers together keep the counting rule of watcher.rs.
THEOREM CountsAreTrue == Spec => []CountsWhatHappened
<1>1. IInv => CountsWhatHappened
  <2>1. SUFFICES ASSUME IInv PROVE CountsWhatHappened
    OBVIOUS
  <2>2. ASSUME NEW a \in Articles, NEW src \in Sources
        PROVE  articles[a][src] <= Happened(src, a)
    <3>1. Numbers(src, a) /\ FlowAt(src, a)
      BY <2>1, FlowNumbers DEF IInv, FlowOK
    <3>2. QED
      BY <3>1 DEF FlowAt, Numbers
  <2>3. ASSUME NEW a \in Articles, NEW src \in Sources
        PROVE  acked[a][src] <= articles[a][src]
    <3>1. AckAt(src, a) /\ acked[a][src] \in Nat /\ articles[a][src] \in Nat
      BY <2>1 DEF IInv, AckOK, MoreTypes, TypeOK
    <3>2. Cardinality(AckingOf(replies, batch, src, a)) \in Nat
      BY AckingFinite
    <3>3. QED
      BY <3>1, <3>2 DEF AckAt
  <2>4. ASSUME NEW a \in Articles
        PROVE  /\ articles[a]["terminal"] <= Cardinality({s \in Sessions : <<s, a>> \in seen})
               /\ articles[a]["static"] <= gets[a]
    <3>1. "terminal" \in Sources /\ "static" \in Sources /\ "static" # "terminal"
      BY DEF Sources
    <3>2. QED
      BY <2>2, <3>1 DEF Happened
  <2>5. QED
    BY <2>1, <2>3, <2>4 DEF CountsWhatHappened, IInv, VisitorsOK
<1>2. QED
  BY <1>1, InductiveInvariant, PTL

-----------------------------------------------------------------------------
(* Induction, from the order of the numbers being well-founded.            *)

\* Every nonempty set of numbers has a least element.
LEMMA Least ==
    ASSUME NEW T \in SUBSET Nat, T # {}
    PROVE  \E x \in T : \A y \in T : x <= y
  <1>1. PICK x \in T : \A y \in T : ~ (<<y, x>> \in OpToRel(<, Nat))
    BY NatLessThanWellFounded, WFMin
  <1>2. ASSUME NEW y \in T PROVE x <= y
    <2>1. y < x => <<y, x>> \in {ss \in Nat \X Nat : ss[1] < ss[2]}
      OBVIOUS
    <2>2. y < x => <<y, x>> \in OpToRel(<, Nat)
      BY <2>1 DEF OpToRel
    <2>3. ~(y < x)
      BY <1>1, <2>2, Zenon
    <2> QED BY <2>3
  <1> QED BY <1>2

\* Induction up to a bound, for a set in place of a predicate.
LEMMA Induction ==
    ASSUME NEW n \in Nat, NEW T, 0 \in T,
           \A k \in 0 .. n : k \in T /\ k + 1 \in 0 .. n => k + 1 \in T
    PROVE  \A k \in 0 .. n : k \in T
  <1>1. ASSUME (0 .. n) \ T # {} PROVE FALSE
    <2> DEFINE U == (0 .. n) \ T
    <2>1. U \in SUBSET Nat /\ U # {}
      BY <1>1
    <2>2. PICK x \in U : \A y \in U : x <= y
      <3> HIDE DEF U
      <3> QED BY <2>1, Least
    <2>3. x # 0 /\ x - 1 \in 0 .. n /\ ~(x <= x - 1) /\ (x - 1) + 1 = x
      BY <2>2
    <2> QED BY <2>2, <2>3
  <1> QED BY <1>1

-----------------------------------------------------------------------------
(* Sums over finite sets of articles, by induction on their size.          *)

\* The article MapThenSumSet takes from a set.
Pick(s) == CHOOSE x \in s : TRUE

\* The subsets of S of at most n articles.
UpTo(S, n) == {s \in SUBSET S : Cardinality(s) <= n}

\* f holds the sum of column src over each of these sets.
Sums(f, tab, src, S, n) ==
    f = [s \in UpTo(S, n) |-> IF s = {} THEN 0 ELSE tab[Pick(s)][src] + f[s \ {Pick(s)}]]

\* Without the article it takes, a set has one article less.
LEMMA OneLess ==
    ASSUME NEW S, IsFiniteSet(S), NEW n \in Nat, NEW s \in UpTo(S, n), s # {}
    PROVE  /\ Pick(s) \in s /\ s \ {Pick(s)} \in UpTo(S, n)
           /\ Cardinality(s) \in Nat \ {0}
           /\ Cardinality(s \ {Pick(s)}) = Cardinality(s) - 1
           /\ n # 0 /\ s \ {Pick(s)} \in UpTo(S, n - 1)
  <1>1. s \in SUBSET S /\ Cardinality(s) <= n
    BY DEF UpTo
  <1>2. IsFiniteSet(s) /\ Pick(s) \in s
    BY <1>1, FS_Subset DEF Pick
  <1>3. Cardinality(s) \in Nat /\ Cardinality(s) # 0
    BY <1>2, FS_CardinalityType, FS_EmptySet
  <1>4. Cardinality(s \ {Pick(s)}) = Cardinality(s) - 1
    BY <1>2, FS_RemoveElement
  <1>5. s \ {Pick(s)} \in SUBSET S
    BY <1>1
  <1> QED BY <1>1, <1>2, <1>3, <1>4, <1>5 DEF UpTo

\* A table of the sums over sets of n articles can be carried to n + 1 ...
LEMMA SumsMore ==
    ASSUME NEW S, IsFiniteSet(S), NEW tab, NEW src, NEW n \in Nat, NEW f, Sums(f, tab, src, S, n)
    PROVE  \E g : Sums(g, tab, src, S, n + 1)
  <1> DEFINE g == [s \in UpTo(S, n + 1) |->
                     IF s = {} THEN 0 ELSE tab[Pick(s)][src] + f[s \ {Pick(s)}]]
  <1>1. ASSUME NEW s \in UpTo(S, n) PROVE g[s] = f[s]
    <2>1. f[s] = IF s = {} THEN 0 ELSE tab[Pick(s)][src] + f[s \ {Pick(s)}]
      BY Zenon DEF Sums
    <2>2. s \in UpTo(S, n + 1)
      <3>1. s \in SUBSET S /\ Cardinality(s) <= n
        BY DEF UpTo
      <3>2. Cardinality(s) \in Nat
        BY <3>1, FS_Subset, FS_CardinalityType
      <3> QED BY <3>1, <3>2 DEF UpTo
    <2> QED BY <2>1, <2>2, Zenon
  <1>2. ASSUME NEW s \in UpTo(S, n + 1), s # {} PROVE s \ {Pick(s)} \in UpTo(S, n)
    <2>1. n + 1 \in Nat /\ (n + 1) - 1 = n
      OBVIOUS
    <2> QED BY <1>2, <2>1, OneLess
  <1>3. g = [s \in UpTo(S, n + 1) |-> IF s = {} THEN 0 ELSE tab[Pick(s)][src] + g[s \ {Pick(s)}]]
    <2>1. ASSUME NEW s \in UpTo(S, n + 1), s # {} PROVE f[s \ {Pick(s)}] = g[s \ {Pick(s)}]
      <3> HIDE DEF g
      <3> QED BY <1>1, <1>2, <2>1, Zenon
    <2> QED BY <2>1, Zenon
  <1> HIDE DEF g
  <1> QED BY <1>3, Zenon DEF Sums

\* ... so there is one for every n.
LEMMA SumsExists ==
    ASSUME NEW S, IsFiniteSet(S), NEW tab, NEW src, NEW n \in Nat
    PROVE  \E f : Sums(f, tab, src, S, n)
  <1> DEFINE T == {k \in Nat : \E f : Sums(f, tab, src, S, k)}
  <1>1. 0 \in T
    <2> DEFINE f == [s \in UpTo(S, 0) |-> 0]
    <2>1. \A s \in UpTo(S, 0) : s = {}
      BY OneLess
    <2>2. f = [s \in UpTo(S, 0) |->
                 IF s = {} THEN 0 ELSE tab[Pick(s)][src] + f[s \ {Pick(s)}]]
      BY <2>1, Zenon
    <2> HIDE DEF f
    <2>3. Sums(f, tab, src, S, 0)
      BY <2>2, Zenon DEF Sums
    <2> QED BY <2>3
  <1>2. \A k \in T : k + 1 \in T
    BY SumsMore
  <1>3. n \in T
    <2> HIDE DEF T
    <2>1. \A k \in 0 .. n : k \in T /\ k + 1 \in 0 .. n => k + 1 \in T
      BY <1>2
    <2>2. \A k \in 0 .. n : k \in T
      BY <1>1, <2>1, Induction, Zenon
    <2> QED BY <2>2
  <1> QED BY <1>3

\* No subset is larger than the set.
LEMMA AllUpTo ==
    ASSUME NEW S, IsFiniteSet(S)
    PROVE  UpTo(S, Cardinality(S)) = SUBSET S
  BY FS_Subset DEF UpTo

\* SumIn is read off such a table: MapThenSumSet defines it as one.
LEMMA SumIs ==
    ASSUME NEW tab, NEW src, NEW S, IsFiniteSet(S)
    PROVE  \E f : Sums(f, tab, src, S, Cardinality(S)) /\ SumIn(tab, S, src) = f[S]
  <1> DEFINE f == CHOOSE g : Sums(g, tab, src, S, Cardinality(S))
  <1>1. UpTo(S, Cardinality(S)) = SUBSET S
    BY AllUpTo
  <1>2. SumIn(tab, S, src) = f[S]
    BY <1>1 DEF SumIn, MapThenSumSet, MapThenFoldSet, Sums, Pick
  <1>3. Cardinality(S) \in Nat
    BY FS_CardinalityType
  <1>4. Sums(f, tab, src, S, Cardinality(S))
    BY <1>3, SumsExists, Zenon
  <1> HIDE DEF f
  <1> QED BY <1>2, <1>4

\* The sum over a set from that over the set without the article it takes.
Stepped(f, tab, src, s) == f[s] = IF s = {} THEN 0 ELSE tab[Pick(s)][src] + f[s \ {Pick(s)}]

\* The sum over every set, from the definition.
LEMMA SumsStep ==
    ASSUME NEW S, NEW tab, NEW src, NEW n \in Nat, NEW f, Sums(f, tab, src, S, n)
    PROVE  \A s \in UpTo(S, n) : Stepped(f, tab, src, s)
  BY Zenon DEF Sums, Stepped

\* Events for an article x of A are events for x or for the others.
LEMMA CountSplits ==
    ASSUME NEW ev \in Seq(Event), NEW src, NEW A, NEW x \in A
    PROVE  Count(ev, src, A) = Count(ev, src, {x}) + Count(ev, src, A \ {x})
  <1> DEFINE Of(B) == {i \in DOMAIN ev : ev[i].source = src /\ ev[i].article \in B}
  <1>1. IsFiniteSet(DOMAIN ev)
    <2>1. DOMAIN ev = 1 .. Len(ev) /\ Len(ev) \in Nat
      OBVIOUS
    <2> QED BY <2>1, FS_Interval
  <1>2. \A B : Of(B) \in SUBSET DOMAIN ev
    OBVIOUS
  <1>3. Of(A) = Of({x}) \cup Of(A \ {x}) /\ Of({x}) \cap Of(A \ {x}) = {}
    OBVIOUS
  <1>4. \A B : Count(ev, src, B) = Cardinality(Of(B))
    BY DEF Count
  <1> HIDE DEF Of
  <1>5. \A B : IsFiniteSet(Of(B)) /\ Cardinality(Of(B)) \in Nat
    BY <1>1, <1>2, FS_Subset, FS_CardinalityType
  <1>6. Cardinality(Of(A)) = Cardinality(Of({x})) + Cardinality(Of(A \ {x}))
    <2>1. Cardinality(Of({x}) \cap Of(A \ {x})) = 0
      BY <1>3, FS_EmptySet
    <2>2. Cardinality(Of({x}) \cup Of(A \ {x}))
            = Cardinality(Of({x})) + Cardinality(Of(A \ {x})) - Cardinality(Of({x}) \cap Of(A \ {x}))
      BY <1>5, FS_Union
    <2> QED BY <1>3, <1>5, <2>1, <2>2
  <1> QED BY <1>4, <1>6

\* There are no events for no article.
LEMMA CountNone ==
    ASSUME NEW ev, NEW src
    PROVE  Count(ev, src, {}) = 0
  <1>1. {i \in DOMAIN ev : ev[i].source = src /\ ev[i].article \in {}} = {}
    OBVIOUS
  <1> QED BY <1>1, FS_EmptySet DEF Count

\* g sums what f sums and the events, over the set s.
MoreBy(f, g, ev, src, s) ==
    f[s] \in Nat /\ g[s] = f[s] + Count(ev, src, s)

\* By induction on the size of the set: g sums what f sums and the events.
LEMMA SumsPlus ==
    ASSUME NEW S, IsFiniteSet(S), NEW n \in Nat, NEW ev \in Seq(Event), NEW src,
           NEW tab, NEW f, Sums(f, tab, src, S, n),
           NEW tab2, NEW g, Sums(g, tab2, src, S, n),
           \A a \in S : tab[a][src] \in Nat /\ tab2[a][src] = tab[a][src] + Count(ev, src, {a})
    PROVE  \A s \in UpTo(S, n) : MoreBy(f, g, ev, src, s)
  <1> DEFINE T == {k \in 0 .. n : \A s \in UpTo(S, n) : Cardinality(s) = k => MoreBy(f, g, ev, src, s)}
  <1>1. \A s \in UpTo(S, n) : s \in SUBSET S /\ IsFiniteSet(s) /\ Cardinality(s) \in 0 .. n
    BY FS_Subset, FS_CardinalityType DEF UpTo
  <1>s. \A s \in UpTo(S, n) : Stepped(f, tab, src, s) /\ Stepped(g, tab2, src, s)
    BY SumsStep, Zenon
  <1>2. 0 \in T
    <2>1. ASSUME NEW s \in UpTo(S, n), Cardinality(s) = 0 PROVE MoreBy(f, g, ev, src, s)
      <3>1. s = {}
        BY <1>1, <2>1, FS_EmptySet
      <3>2. f[s] = 0 /\ g[s] = 0
        BY <1>s, <3>1 DEF Stepped
      <3>3. Count(ev, src, s) = 0
        BY <3>1, CountNone
      <3> QED BY <3>2, <3>3 DEF MoreBy
    <2> QED BY <2>1
  <1>3. ASSUME NEW k \in 0 .. n, k \in T, k + 1 \in 0 .. n PROVE k + 1 \in T
    <2>1. ASSUME NEW s \in UpTo(S, n), Cardinality(s) = k + 1 PROVE MoreBy(f, g, ev, src, s)
      <3> DEFINE x == Pick(s)
                 r == s \ {x}
      <3>1. s # {}
        <4>1. k + 1 # 0
          BY <1>3
        <4> QED BY <2>1, <4>1, FS_EmptySet, Zenon
      <3>2. x \in s /\ x \in S /\ r \in UpTo(S, n) /\ Cardinality(r) = Cardinality(s) - 1
        BY <1>1, <3>1, OneLess
      <3>3. MoreBy(f, g, ev, src, r)
        BY <1>3, <2>1, <3>2
      <3>4. f[s] = tab[x][src] + f[r] /\ g[s] = tab2[x][src] + g[r]
        BY <1>s, <3>1 DEF Stepped
      <3>5. Count(ev, src, s) = Count(ev, src, {x}) + Count(ev, src, r)
        BY <3>2, CountSplits
      <3>6. tab[x][src] \in Nat /\ tab2[x][src] = tab[x][src] + Count(ev, src, {x})
        BY <3>2
      <3>7. Count(ev, src, {x}) \in Nat /\ Count(ev, src, r) \in Nat
        BY CountNat
      <3> HIDE DEF x, r
      <3> QED BY <3>3, <3>4, <3>5, <3>6, <3>7 DEF MoreBy
    <2> QED BY <1>3, <2>1
  <1>4. \A k \in 0 .. n : k \in T
    <2> HIDE DEF T
    <2> QED BY <1>2, <1>3, Induction, Zenon
  <1> QED BY <1>1, <1>4

\* Adding each article's events to its column adds the directory's events to the sum.
LEMMA SumPlus ==
    ASSUME NEW S, IsFiniteSet(S), NEW ev \in Seq(Event), NEW src, NEW tab, NEW tab2,
           \A a \in S :
              tab[a][src] \in Nat /\ tab2[a][src] = tab[a][src] + Count(ev, src, {a})
    PROVE  SumIn(tab2, S, src) = SumIn(tab, S, src) + Count(ev, src, S)
  <1> DEFINE n == Cardinality(S)
  <1>1. n \in Nat /\ S \in UpTo(S, n)
    BY FS_CardinalityType DEF UpTo
  <1>2. PICK f : Sums(f, tab, src, S, n) /\ SumIn(tab, S, src) = f[S]
    BY SumIs
  <1>3. PICK g : Sums(g, tab2, src, S, n) /\ SumIn(tab2, S, src) = g[S]
    BY SumIs
  <1> HIDE DEF n
  <1>4. \A s \in UpTo(S, n) : MoreBy(f, g, ev, src, s)
    BY <1>1, <1>2, <1>3, SumsPlus
  <1> QED BY <1>1, <1>2, <1>3, <1>4 DEF MoreBy

\* A column of zeros.
LEMMA SumZero ==
    ASSUME NEW S, IsFiniteSet(S), NEW src, NEW tab, \A a \in S : tab[a][src] = 0
    PROVE  SumIn(tab, S, src) = 0
  <1> DEFINE n == Cardinality(S)
  <1>1. n \in Nat /\ S \in UpTo(S, n)
    BY FS_CardinalityType DEF UpTo
  <1>2. PICK f : Sums(f, tab, src, S, n) /\ SumIn(tab, S, src) = f[S]
    BY SumIs
  <1> HIDE DEF n
  <1> DEFINE T == {k \in 0 .. n : \A s \in UpTo(S, n) : Cardinality(s) = k => f[s] = 0}
  <1>3. \A s \in UpTo(S, n) : s \in SUBSET S /\ IsFiniteSet(s) /\ Cardinality(s) \in 0 .. n
    BY <1>1, FS_Subset, FS_CardinalityType DEF UpTo
  <1>s. \A s \in UpTo(S, n) : Stepped(f, tab, src, s)
    BY <1>1, <1>2, SumsStep, Zenon
  <1>4. 0 \in T
    <2>1. ASSUME NEW s \in UpTo(S, n), Cardinality(s) = 0 PROVE f[s] = 0
      <3>1. IsFiniteSet(s)
        BY <1>3
      <3>2. s = {}
        BY <2>1, <3>1, FS_EmptySet, Zenon
      <3> QED BY <1>s, <3>2 DEF Stepped
    <2> QED BY <1>1, <2>1
  <1>5. ASSUME NEW k \in 0 .. n, k \in T, k + 1 \in 0 .. n PROVE k + 1 \in T
    <2>1. ASSUME NEW s \in UpTo(S, n), Cardinality(s) = k + 1 PROVE f[s] = 0
      <3>1. s # {}
        <4>1. k + 1 # 0
          BY <1>5
        <4> QED BY <2>1, <4>1, FS_EmptySet, Zenon
      <3>2. Pick(s) \in S /\ s \ {Pick(s)} \in UpTo(S, n) /\ Cardinality(s \ {Pick(s)}) = Cardinality(s) - 1
        BY <1>1, <1>3, <3>1, OneLess
      <3>3. f[s \ {Pick(s)}] = 0
        BY <1>5, <2>1, <3>2
      <3>4. f[s] = tab[Pick(s)][src] + f[s \ {Pick(s)}]
        BY <1>s, <3>1 DEF Stepped
      <3> QED BY <3>2, <3>3, <3>4
    <2> QED BY <1>5, <2>1
  <1>6. \A k \in 0 .. n : k \in T
    <2> HIDE DEF T
    <2> QED BY <1>1, <1>4, <1>5, Induction, Zenon
  <1> QED BY <1>1, <1>2, <1>3, <1>6

\* Sums of numbers are numbers.
LEMMA SumsNat ==
    ASSUME NEW S, IsFiniteSet(S), NEW n \in Nat, NEW src, NEW tab, NEW f, Sums(f, tab, src, S, n),
           \A a \in S : tab[a][src] \in Nat
    PROVE  \A s \in UpTo(S, n) : f[s] \in Nat
  <1>1. <<>> \in Seq(Event)
    OBVIOUS
  <1>2. \A a \in S : Count(<<>>, src, {a}) = 0
    <2>1. ASSUME NEW a \in S PROVE {i \in DOMAIN <<>> : <<>>[i].source = src /\ <<>>[i].article \in {a}} = {}
      OBVIOUS
    <2> QED BY <2>1, FS_EmptySet DEF Count
  <1>3. \A s \in UpTo(S, n) : MoreBy(f, f, <<>>, src, s)
    <2>1. \A a \in S : tab[a][src] \in Nat /\ tab[a][src] = tab[a][src] + Count(<<>>, src, {a})
      BY <1>2
    <2> QED BY <1>1, <2>1, SumsPlus
  <1> QED BY <1>3 DEF MoreBy

\* The sum over a set from that over the set without article x,
Peeled(f, tab, src, s, x) == f[s] = tab[x][src] + f[s \ {x}]

\* whichever x of the set that is, by induction on the size of the set.
LEMMA SumsPeel ==
    ASSUME NEW S, IsFiniteSet(S), NEW n \in Nat, NEW src, NEW tab, NEW f, Sums(f, tab, src, S, n),
           \A a \in S : tab[a][src] \in Nat
    PROVE  \A s \in UpTo(S, n) : \A x \in s : Peeled(f, tab, src, s, x)
  <1> DEFINE T == {k \in 0 .. n : \A s \in UpTo(S, n) : Cardinality(s) = k =>
                      \A x \in s : Peeled(f, tab, src, s, x)}
  <1>1. \A s \in UpTo(S, n) : s \in SUBSET S /\ IsFiniteSet(s) /\ Cardinality(s) \in 0 .. n
    BY FS_Subset, FS_CardinalityType DEF UpTo
  <1>n. \A s \in UpTo(S, n) : f[s] \in Nat
    BY SumsNat
  <1>s. \A s \in UpTo(S, n) : Stepped(f, tab, src, s)
    BY SumsStep, Zenon
  <1>r. ASSUME NEW s \in UpTo(S, n), NEW x \in s
        PROVE  /\ s \ {x} \in UpTo(S, n) /\ f[s \ {x}] \in Nat
               /\ Cardinality(s \ {x}) = Cardinality(s) - 1
    <2>1. IsFiniteSet(s) /\ s \in SUBSET S /\ Cardinality(s) \in 0 .. n
      BY <1>1
    <2>2. Cardinality(s \ {x}) = Cardinality(s) - 1
      BY <2>1, FS_RemoveElement
    <2>3. s \ {x} \in UpTo(S, n)
      BY <2>1, <2>2 DEF UpTo
    <2> QED BY <1>n, <2>2, <2>3
  <1>2. 0 \in T
    <2>1. ASSUME NEW s \in UpTo(S, n), Cardinality(s) = 0 PROVE s = {}
      BY <1>1, <2>1, FS_EmptySet
    <2> QED BY <2>1
  <1>3. ASSUME NEW k \in 0 .. n, k \in T, k + 1 \in 0 .. n PROVE k + 1 \in T
    <2>1. ASSUME NEW s \in UpTo(S, n), Cardinality(s) = k + 1, NEW x \in s
          PROVE  Peeled(f, tab, src, s, x)
      <3> DEFINE y == Pick(s)
                 r == s \ {y}
                 q == s \ {x}
      <3>1. y \in s
        BY DEF Pick
      <3>2. f[s] = tab[y][src] + f[r]
        BY <1>s, <2>1 DEF Stepped
      <3> HIDE DEF y
      <3>3. CASE x = y
        BY <3>2, <3>3 DEF Peeled
      <3>4. CASE x # y
        <4>1. x \in r /\ y \in q /\ r \ {x} = q \ {y}
          BY <3>1, <3>4
        <4>2. /\ r \in UpTo(S, n) /\ Cardinality(r) = k /\ q \in UpTo(S, n) /\ Cardinality(q) = k
          <5>1. (k + 1) - 1 = k
            OBVIOUS
          <5> QED BY <1>r, <2>1, <3>1, <5>1
        <4> HIDE DEF r, q
        <4>3. f[r] = tab[x][src] + f[r \ {x}] /\ f[q] = tab[y][src] + f[q \ {y}]
          BY <1>3, <4>1, <4>2 DEF Peeled
        <4>4. f[q \ {y}] \in Nat
          BY <1>r, <4>1, <4>2
        <4>5. tab[x][src] \in Nat /\ tab[y][src] \in Nat
          BY <1>1, <2>1, <3>1
        <4>6. f[s] = tab[y][src] + (tab[x][src] + f[q \ {y}])
          BY <3>2, <4>1, <4>3, Zenon
        <4>7. f[s] = tab[x][src] + f[q]
          BY <4>3, <4>4, <4>5, <4>6
        <4> QED BY <4>7 DEF Peeled, q
      <3> QED BY <3>3, <3>4
    <2> QED BY <1>3, <2>1
  <1>4. \A k \in 0 .. n : k \in T
    <2> HIDE DEF T
    <2> QED BY <1>2, <1>3, Induction, Zenon
  <1> QED BY <1>1, <1>4

\* Of two tables of sums, h sums those of A, f all.
Within(h, f, A, s) == h[A \cap s] <= f[s]

\* Some of the rows are never more than all of them together.
LEMMA SumsWithin ==
    ASSUME NEW S, IsFiniteSet(S), NEW n \in Nat, NEW src, NEW tab, NEW f, Sums(f, tab, src, S, n),
           NEW A \in SUBSET S, NEW m \in Nat, NEW h, Sums(h, tab, src, A, m), Cardinality(A) = m,
           \A a \in S : tab[a][src] \in Nat
    PROVE  \A s \in UpTo(S, n) : Within(h, f, A, s)
  <1> DEFINE T == {k \in 0 .. n : \A s \in UpTo(S, n) : Cardinality(s) = k => Within(h, f, A, s)}
  <1>1. \A s \in UpTo(S, n) : s \in SUBSET S /\ IsFiniteSet(s) /\ Cardinality(s) \in 0 .. n
    BY FS_Subset, FS_CardinalityType DEF UpTo
  <1>a. IsFiniteSet(A) /\ \A s : A \cap s \in UpTo(A, m)
    BY FS_Subset, AllUpTo
  <1>n. (\A s \in UpTo(S, n) : f[s] \in Nat) /\ (\A s : h[A \cap s] \in Nat)
    <2>1. \A s \in UpTo(A, m) : h[s] \in Nat
      BY <1>a, SumsNat
    <2> QED BY <1>a, <2>1, SumsNat
  <1>s. \A s \in UpTo(S, n) : Stepped(f, tab, src, s)
    BY SumsStep, Zenon
  <1>2. 0 \in T
    <2>1. ASSUME NEW s \in UpTo(S, n), Cardinality(s) = 0 PROVE Within(h, f, A, s)
      <3>1. s = {} /\ A \cap s = {}
        BY <1>1, <2>1, FS_EmptySet
      <3>2. Stepped(h, tab, src, A \cap s)
        BY <1>a, SumsStep
      <3> QED BY <1>s, <3>1, <3>2 DEF Stepped, Within
    <2> QED BY <2>1
  <1>3. ASSUME NEW k \in 0 .. n, k \in T, k + 1 \in 0 .. n PROVE k + 1 \in T
    <2>1. ASSUME NEW s \in UpTo(S, n), Cardinality(s) = k + 1 PROVE Within(h, f, A, s)
      <3> DEFINE x == Pick(s)
                 r == s \ {x}
      <3>1. s # {}
        <4>1. k + 1 # 0
          BY <1>3
        <4> QED BY <2>1, <4>1, FS_EmptySet, Zenon
      <3>2. x \in s /\ x \in S /\ r \in UpTo(S, n) /\ Cardinality(r) = Cardinality(s) - 1
        BY <1>1, <3>1, OneLess
      <3>3. f[s] = tab[x][src] + f[r]
        BY <1>s, <3>1 DEF Stepped
      <3> HIDE DEF x
      <3>4. /\ h[A \cap r] <= f[r] /\ h[A \cap r] \in Nat /\ f[r] \in Nat
            /\ tab[x][src] \in Nat
        BY <1>3, <1>n, <2>1, <3>2 DEF Within
      <3>5. CASE x \in A
        <4>1. h[A \cap s] = tab[x][src] + h[(A \cap s) \ {x}]
          <5>1. A \cap s \in UpTo(A, m) /\ x \in A \cap s
            BY <1>a, <3>2, <3>5
          <5>2. \A a \in A : tab[a][src] \in Nat
            OBVIOUS
          <5>3. Peeled(h, tab, src, A \cap s, x)
            BY <1>a, <5>1, <5>2, SumsPeel
          <5> QED BY <5>3 DEF Peeled
        <4>2. (A \cap s) \ {x} = A \cap r
          OBVIOUS
        <4>3. h[A \cap s] = tab[x][src] + h[A \cap r]
          BY <4>1, <4>2, Zenon
        <4>4. h[A \cap s] <= f[s]
          <5> HIDE DEF r
          <5> QED BY <3>3, <3>4, <4>3
        <4> QED BY <4>4 DEF Within
      <3>6. CASE x \notin A
        <4>1. A \cap s = A \cap r
          BY <3>6
        <4>2. h[A \cap s] <= f[s]
          <5>1. h[A \cap s] = h[A \cap r]
            BY <4>1, Zenon
          <5> HIDE DEF r
          <5> QED BY <3>3, <3>4, <5>1
        <4> QED BY <4>2 DEF Within
      <3> QED BY <3>5, <3>6
    <2> QED BY <1>3, <2>1
  <1>4. \A k \in 0 .. n : k \in T
    <2> HIDE DEF T
    <2> QED BY <1>2, <1>3, Induction, Zenon
  <1> QED BY <1>1, <1>4

\* So the sum over some articles of a set is a number no larger than that over all.
LEMMA SumSome ==
    ASSUME NEW S, IsFiniteSet(S), NEW A \in SUBSET S, NEW src, NEW tab,
           \A a \in S : tab[a][src] \in Nat
    PROVE  SumIn(tab, A, src) <= SumIn(tab, S, src)
  <1> DEFINE n == Cardinality(S)
             m == Cardinality(A)
  <1>1. IsFiniteSet(A) /\ n \in Nat /\ m \in Nat /\ S \in UpTo(S, n)
    BY FS_Subset, FS_CardinalityType DEF UpTo
  <1>2. PICK f : Sums(f, tab, src, S, n) /\ SumIn(tab, S, src) = f[S]
    BY SumIs
  <1>3. PICK h : Sums(h, tab, src, A, m) /\ SumIn(tab, A, src) = h[A]
    BY <1>1, SumIs
  <1>4. A \cap S = A
    OBVIOUS
  <1>5. \A s \in UpTo(S, n) : Within(h, f, A, s)
    BY <1>1, <1>2, <1>3, SumsWithin
  <1> HIDE DEF n, m
  <1> QED BY <1>1, <1>2, <1>3, <1>4, <1>5 DEF Within

\* The sum depends on the rows it adds, not on the table they stand in.
LEMMA SumSame ==
    ASSUME NEW S, IsFiniteSet(S), NEW src, NEW tab, NEW tab2,
           \A a \in S : tab[a][src] \in Nat /\ tab2[a][src] = tab[a][src]
    PROVE  SumIn(tab2, S, src) = SumIn(tab, S, src)
  <1>1. <<>> \in Seq(Event) /\ \A A : Count(<<>>, src, A) = 0
    <2>1. ASSUME NEW A PROVE {i \in DOMAIN <<>> : <<>>[i].source = src /\ <<>>[i].article \in A} = {}
      OBVIOUS
    <2> QED BY <2>1, FS_EmptySet DEF Count
  <1>2. SumIn(tab, S, src) \in Nat
    <2> DEFINE n == Cardinality(S)
    <2>1. n \in Nat /\ S \in UpTo(S, n)
      BY FS_CardinalityType DEF UpTo
    <2>2. PICK f : Sums(f, tab, src, S, n) /\ SumIn(tab, S, src) = f[S]
      BY SumIs
    <2> HIDE DEF n
    <2> QED BY <2>1, <2>2, SumsNat
  <1>3. \A a \in S : tab[a][src] \in Nat /\ tab2[a][src] = tab[a][src] + Count(<<>>, src, {a})
    BY <1>1
  <1>4. SumIn(tab2, S, src) = SumIn(tab, S, src) + Count(<<>>, src, S)
    BY <1>1, <1>3, SumPlus
  <1> QED BY <1>1, <1>2, <1>4

-----------------------------------------------------------------------------
(* The tables agree.                                                       *)

\* What a session is shown.
NoNumbers == <<>>
RowsOf(K) == UNION {[S -> [Sources -> Nat]] : S \in SUBSET K}
Rows(K) == RowsOf(K) \cup {NoNumbers}
Snapshots == [ok : BOOLEAN, totals : Rows(Targets), articles : Rows(Articles)]

\* Numbers n for template p: the total of t covers the rows below it, and is their
\* sum if they are all of the directory.
Covers(p, n, t, src) ==
    LET rows == SumIn(n.articles, InTarget(t) \cap p.articles, src) IN
    /\ n.totals[t][src] >= rows
    /\ InTarget(t) \cap p.articles = InTarget(t) => n.totals[t][src] = rows

\* The total of a directory is the sum over its articles, for every source.
SumsAgree(tot, tab) ==
    \A t \in Targets, src \in Sources : tot[t][src] = SumIn(tab, InTarget(t), src)

\* Who reads a directory is a visitor, and nobody else.
VisitorsAgree ==
    \A t \in Targets :
       (\E v \in visitors : v[1] = t) <=> (\E src \in Sources : totals[t][src] > 0)

\* The session whose snapshot holds the store has its targets' totals as they are.
SnapOK ==
    /\ snap \in [Sessions -> Snapshots]
    /\ \A s \in Sessions : phase[s] = "new" => lock # s /\ ~snap[s].ok
    /\ \A s \in Sessions :
          lock = s => snap[s].totals = [t \in template[s].targets |-> totals[t]]
    /\ \A s \in Sessions : snap[s].ok =>
          \A t \in template[s].targets, src \in Sources : Covers(template[s], snap[s], t, src)

\* The invariant under which the tables agree.
TInv == IInv /\ SumsAgree(totals, articles) /\ VisitorsAgree /\ SnapOK

\* It is what TotalsAgree asks, and more.
LEMMA TInvAgrees == TInv => TotalsAgree
  <1> SUFFICES ASSUME TInv PROVE TotalsAgree
    OBVIOUS
  <1>1. ASSUME NEW s \in Sessions, snap[s].ok, NEW t \in template[s].targets, NEW src \in Sources
        PROVE  LET rows == SumIn(snap[s].articles, Listed(s, t), src) IN
                  /\ snap[s].totals[t][src] >= rows
                  /\ Listed(s, t) = InTarget(t) => snap[s].totals[t][src] = rows
    <2>1. Covers(template[s], snap[s], t, src)
      BY <1>1 DEF TInv, SnapOK
    <2> QED BY <2>1 DEF Covers, Listed
  <1> QED BY <1>1, Zenon DEF TInv, SumsAgree, VisitorsAgree, TotalsAgree

\* No rows are rows.
LEMMA NoRows ==
    ASSUME NEW K
    PROVE  <<>> \in Rows(K)
  <1>1. NoNumbers \in Rows(K)
    BY Zenon DEF Rows
  <1> QED BY <1>1 DEF NoNumbers

\* What is unavailable is no snapshot that is shown.
LEMMA UnavailableOK == Unavailable \in Snapshots /\ ~Unavailable.ok
  BY NoRows DEF Unavailable, Snapshots

\* A directory has finitely many articles.
LEMMA TargetFinite ==
    ASSUME NEW t
    PROVE  IsFiniteSet(InTarget(t)) /\ InTarget(t) \subseteq Articles
  BY StatisticsAssumption, FS_Subset DEF InTarget

\* A step that writes no table and takes no snapshot.
LEMMA TablesKept ==
    ASSUME TInv, IInv', UNCHANGED <<dbVars, template, snap, lock>>,
           \A s \in Sessions : phase'[s] = "new" => phase[s] = "new"
    PROVE  TInv'
  <1>1. UNCHANGED <<totals, articles, visitors, template, snap, lock>>
    BY DEF dbVars
  <1>2. SumsAgree(totals, articles)'
    BY <1>1 DEF TInv
  <1> QED BY <1>1, <1>2 DEF TInv, VisitorsAgree, SnapOK

\* There are events of a kind exactly if one of them is.
LEMMA CountPositive ==
    ASSUME NEW ev \in Seq(Event), NEW src, NEW A
    PROVE  Count(ev, src, A) > 0 <=> \E i \in DOMAIN ev : ev[i].source = src /\ ev[i].article \in A
  <1> DEFINE S == {i \in DOMAIN ev : ev[i].source = src /\ ev[i].article \in A}
  <1>1. S \in SUBSET (1 .. Len(ev)) /\ Len(ev) \in Nat
    OBVIOUS
  <1>2. IsFiniteSet(S)
    BY <1>1, FS_Interval, FS_Subset
  <1>3. Cardinality(S) \in Nat /\ (Cardinality(S) = 0 <=> S = {})
    BY <1>2, FS_CardinalityType, FS_EmptySet
  <1>4. Count(ev, src, A) = Cardinality(S)
    BY DEF Count
  <1>5. S # {} <=> \E i \in DOMAIN ev : ev[i].source = src /\ ev[i].article \in A
    OBVIOUS
  <1> HIDE DEF S
  <1> QED BY <1>3, <1>4, <1>5

\* A committed batch adds the same to a directory as to its articles together, and a
\* visitor exactly where it adds something.
LEMMA CommitAgrees ==
    ASSUME TInv, NEW ev \in Seq(Event), Commit(ev)
    PROVE  SumsAgree(totals', articles') /\ VisitorsAgree'
  <1>1. ASSUME NEW t \in Targets, NEW src \in Sources
        PROVE  /\ totals'[t][src] = totals[t][src] + Count(ev, src, InTarget(t))
               /\ totals[t][src] \in Nat /\ Count(ev, src, InTarget(t)) \in Nat
               /\ Count(ev, src, InTarget(t)) > 0
                    <=> \E i \in DOMAIN ev : ev[i].source = src /\ ev[i].article \in InTarget(t)
    <2>1. totals[t][src] \in Nat
      BY DEF TInv, IInv, TypeOK
    <2> QED BY <2>1, CountNat, CountPositive DEF Commit, TotalsPlus
  <1>2. ASSUME NEW t \in Targets, NEW src \in Sources
        PROVE  totals'[t][src] = SumIn(articles', InTarget(t), src)
    <2>1. ASSUME NEW a \in InTarget(t)
          PROVE  /\ articles[a][src] \in Nat
                 /\ articles'[a][src] = articles[a][src] + Count(ev, src, {a})
      BY TargetFinite DEF TInv, IInv, TypeOK, Commit, ArticlesPlus
    <2>2. IsFiniteSet(InTarget(t))
      BY TargetFinite
    <2>3. SumIn(articles', InTarget(t), src) = SumIn(articles, InTarget(t), src) + Count(ev, src, InTarget(t))
      BY <2>1, <2>2, SumPlus
    <2> QED BY <1>1, <2>3 DEF TInv, SumsAgree
  <1>3. ASSUME NEW t \in Targets
        PROVE  (\E v \in visitors' : v[1] = t) <=> (\E src \in Sources : totals'[t][src] > 0)
    <2> DEFINE Reads == \E i \in DOMAIN ev : ev[i].article \in InTarget(t)
    <2>1. (\E v \in visitors' : v[1] = t) <=> (\E v \in visitors : v[1] = t) \/ Reads
      <3>1. \A i \in DOMAIN ev : ev[i].article \in Articles
        <4>1. \A i \in DOMAIN ev : ev[i] \in Event
          OBVIOUS
        <4> QED BY <4>1 DEF Event
      <3>2. \A i \in DOMAIN ev : VisitorHash(ev[i])[1] = t <=> ev[i].article \in InTarget(t)
        BY <3>1 DEF VisitorHash, InTarget
      <3>3. visitors' = visitors \cup {VisitorHash(ev[i]) : i \in DOMAIN ev}
        BY DEF Commit, VisitorsPlus
      <3> QED BY <3>2, <3>3
    <2>2. Reads <=> \E src \in Sources : Count(ev, src, InTarget(t)) > 0
      <3>1. \A i \in DOMAIN ev : ev[i].source \in Sources
        <4>1. \A i \in DOMAIN ev : ev[i] \in Event
          OBVIOUS
        <4> QED BY <4>1 DEF Event
      <3> QED BY <1>1, <3>1
    <2>3. \A src \in Sources :
             totals'[t][src] > 0 <=> totals[t][src] > 0 \/ Count(ev, src, InTarget(t)) > 0
      BY <1>1
    <2> HIDE DEF Reads
    <2> QED BY <2>1, <2>2, <2>3 DEF TInv, VisitorsAgree
  <1> QED BY <1>2, <1>3 DEF SumsAgree, VisitorsAgree

\* record_batch changes all three tables or none, and not while a snapshot is taken.
LEMMA BatchAgrees ==
    ASSUME TInv, IInv', NEW r \in inbox, HandleBatch(r)
    PROVE  TInv'
  <1>1. UNCHANGED <<phase, template, snap, lock>> /\ lock \notin Sessions
    BY StatisticsAssumption DEF HandleBatch, StoreFree, watchVars
  <1>2. CASE UNCHANGED dbVars
    BY <1>1, <1>2, TablesKept
  <1>3. CASE Commit(r.events)
    <2>1. r.events \in Seq(Event)
      BY DEF TInv, IInv, MoreTypes, Requests
    <2>2. SumsAgree(totals', articles') /\ VisitorsAgree'
      BY <1>3, <2>1, CommitAgrees
    <2>3. SnapOK'
      BY <1>1 DEF TInv, SnapOK
    <2> QED BY <2>2, <2>3 DEF TInv
  <1> QED BY <1>2, <1>3 DEF HandleBatch, Rollback

\* A session that is prepared has no numbers yet.
LEMMA PrepareAgrees ==
    ASSUME TInv, IInv', NEW s \in Sessions, Prepare(s)
    PROVE  TInv'
  <1>1. UNCHANGED <<totals, articles, visitors, snap, lock>>
    BY DEF Prepare, statdVars, dbVars
  <1>2. /\ phase[s] = "new"
        /\ \A q \in Sessions \ {s} : template'[q] = template[q] /\ phase'[q] = phase[q]
        /\ phase'[s] # "new"
    BY DEF Prepare, TInv, IInv, TypeOK
  <1>3. lock # s /\ ~snap[s].ok
    BY <1>2 DEF TInv, SnapOK
  <1>4. SnapOK'
    BY <1>1, <1>2, <1>3 DEF TInv, SnapOK
  <1> QED BY <1>1, <1>4 DEF TInv, VisitorsAgree

\* The rows of the listed articles are at most the totals as they are.
LEMMA RowsCovered ==
    ASSUME TInv, NEW p \in Templates \cup {Unset}, NEW n,
           n.totals = [t \in p.targets |-> totals[t]],
           n.articles = [a \in p.articles |-> articles[a]],
           NEW t \in p.targets, NEW src \in Sources
    PROVE  Covers(p, n, t, src)
  <1> DEFINE A == InTarget(t) \cap p.articles
  <1>1. t \in Targets /\ p.articles \subseteq Articles
    BY TemplatesAssumption DEF Unset
  <1>2. IsFiniteSet(InTarget(t)) /\ IsFiniteSet(A)
    BY TargetFinite, FS_Subset
  <1>3. totals[t][src] = SumIn(articles, InTarget(t), src)
    BY <1>1 DEF TInv, SumsAgree
  <1>4. \A a \in InTarget(t) : articles[a][src] \in Nat
    BY TargetFinite DEF TInv, IInv, TypeOK
  <1>5. SumIn(articles, A, src) <= SumIn(articles, InTarget(t), src)
    BY <1>2, <1>4, SumSome
  <1>6. SumIn(n.articles, A, src) = SumIn(articles, A, src)
    <2>1. \A a \in A : articles[a][src] \in Nat /\ n.articles[a][src] = articles[a][src]
      BY <1>4
    <2> HIDE DEF A
    <2> QED BY <1>2, <2>1, SumSame
  <1>7. n.totals[t][src] = totals[t][src]
    OBVIOUS
  <1> QED BY <1>3, <1>5, <1>6, <1>7 DEF Covers

\* Between the two reads of a snapshot the tables stay as they are.
LEMMA SnapshotAgrees ==
    ASSUME TInv, IInv', NEW s \in Sessions, SnapshotTotals(s) \/ SnapshotArticles(s) \/ SnapshotFails(s)
    PROVE  TInv'
  <1> DEFINE tot == [t \in template[s].targets |-> totals[t]]
             art == [a \in template[s].articles |-> articles[a]]
  <1>1. UNCHANGED <<totals, articles, visitors, template>>
    BY DEF SnapshotTotals, SnapshotArticles, SnapshotFails, statdVars, dbVars
  <1>2. SumsAgree(totals, articles)' /\ VisitorsAgree'
    BY <1>1 DEF TInv, VisitorsAgree
  <1>3. template[s] \in Templates \cup {Unset}
    BY DEF TInv, IInv, TypeOK
  <1>4. tot \in Rows(Targets) /\ art \in Rows(Articles)
    <2>1. totals \in [Targets -> [Sources -> Nat]] /\ articles \in [Articles -> [Sources -> Nat]]
      BY StatisticsAssumption DEF TInv, IInv, TypeOK
    <2>2. template[s].targets \in SUBSET Targets /\ template[s].articles \in SUBSET Articles
      BY <1>3, TemplatesAssumption DEF Unset
    <2>3. tot \in [template[s].targets -> [Sources -> Nat]] /\ art \in [template[s].articles -> [Sources -> Nat]]
      BY <2>1, <2>2
    <2> HIDE DEF tot, art
    <2> QED BY <2>2, <2>3 DEF Rows, RowsOf
  <1>5. Unavailable \in Snapshots /\ ~Unavailable.ok
    BY UnavailableOK
  <1>6. SnapOK'
    <2>1. CASE SnapshotTotals(s)
      <3> DEFINE first == [ok |-> FALSE, totals |-> tot, articles |-> <<>>]
      <3>1. snap' = [snap EXCEPT ![s] = first] /\ lock' = s /\ phase[s] = "asking" /\ phase' = phase
        BY <2>1 DEF SnapshotTotals
      <3>2. first \in Snapshots /\ ~first.ok /\ first.totals = tot
        <4>1. <<>> \in Rows(Articles)
          BY NoRows
        <4> HIDE DEF tot
        <4> QED BY <1>4, <4>1 DEF Snapshots
      <3> HIDE DEF first
      <3> QED BY <1>1, <3>1, <3>2 DEF TInv, SnapOK
    <2>2. CASE SnapshotArticles(s)
      <3> DEFINE both == [snap[s] EXCEPT !.ok = TRUE, !.articles = art]
      <3>1. /\ snap' = [snap EXCEPT ![s] = both] \/ snap' = [snap EXCEPT ![s] = Unavailable]
            /\ lock = s /\ lock' \notin Sessions /\ phase' = [phase EXCEPT ![s] = "on"]
        BY <2>2, StatisticsAssumption DEF SnapshotArticles
      <3>2. both \in Snapshots /\ both.articles = art /\ both.totals = tot
        <4>1. snap[s] \in Snapshots /\ snap[s].totals = tot
          BY <3>1 DEF TInv, SnapOK
        <4> HIDE DEF art, tot
        <4> QED BY <1>4, <4>1 DEF Snapshots
      <3>3. \A t \in template[s].targets, src \in Sources : Covers(template[s], both, t, src)
        <4> HIDE DEF both
        <4> QED BY <1>3, <3>2, RowsCovered
      <3>4. \A q \in Sessions : phase'[q] = "new" => phase[q] = "new" /\ q # s
        BY <3>1 DEF TInv, IInv, TypeOK
      <3> HIDE DEF both
      <3> QED BY <1>1, <1>5, <3>1, <3>2, <3>3, <3>4 DEF TInv, SnapOK
    <2>3. CASE SnapshotFails(s)
      <3>1. /\ snap' = [snap EXCEPT ![s] = Unavailable] /\ lock' = lock /\ lock # s
            /\ phase' = [phase EXCEPT ![s] = "on"]
        BY <2>3 DEF SnapshotFails, statdVars
      <3>2. \A q \in Sessions : phase'[q] = "new" => phase[q] = "new" /\ q # s
        BY <3>1 DEF TInv, IInv, TypeOK
      <3> QED BY <1>1, <1>5, <3>1, <3>2 DEF TInv, SnapOK
    <2> QED BY <2>1, <2>2, <2>3
  <1> QED BY <1>2, <1>6 DEF TInv

\* A crash leaves the tables, and an unfinished snapshot shows nothing.
LEMMA CrashAgrees ==
    ASSUME TInv, IInv', Crash
    PROVE  TInv'
  <1>1. UNCHANGED <<totals, articles, visitors, template>> /\ lock' \notin Sessions
    BY StatisticsAssumption DEF Crash, dbVars
  <1>2. SumsAgree(totals, articles)' /\ VisitorsAgree'
    BY <1>1 DEF TInv, VisitorsAgree
  <1>3. Unavailable \in Snapshots /\ ~Unavailable.ok
    BY UnavailableOK
  <1>4. /\ snap' = [s \in Sessions |-> IF lock = s THEN Unavailable ELSE snap[s]]
        /\ \A s \in Sessions : phase'[s] = "new" => phase[s] = "new"
    BY DEF Crash
  <1>5. SnapOK'
    BY <1>1, <1>3, <1>4 DEF TInv, SnapOK
  <1> QED BY <1>2, <1>5 DEF TInv

\* It holds initially.
LEMMA InitAgrees == Init => TInv
  <1> SUFFICES ASSUME Init PROVE TInv
    OBVIOUS
  <1>1. IInv
    BY InitEstablishes
  <1>2. ASSUME NEW t \in Targets, NEW src \in Sources PROVE totals[t][src] = SumIn(articles, InTarget(t), src)
    <2>1. \A a \in InTarget(t) : articles[a][src] = 0
      BY TargetFinite DEF Init, Zero
    <2>2. SumIn(articles, InTarget(t), src) = 0
      BY <2>1, TargetFinite, SumZero
    <2> QED BY <2>2 DEF Init, Zero
  <1>3. VisitorsAgree
    BY DEF Init, Zero, VisitorsAgree
  <1>4. SnapOK
    <2>1. snap = [s \in Sessions |-> Unavailable] /\ lock \notin Sessions
      BY StatisticsAssumption DEF Init
    <2> QED BY <2>1, UnavailableOK DEF SnapOK
  <1> QED BY <1>1, <1>2, <1>3, <1>4 DEF TInv, SumsAgree

\* Every step keeps it.
LEMMA NextAgrees == TInv /\ [Next]_vars => TInv'
  <1> SUFFICES ASSUME TInv, [Next]_vars PROVE TInv'
    OBVIOUS
  <1>1. IInv'
    BY NextKeeps DEF TInv
  <1> DEFINE Quiet == /\ UNCHANGED <<dbVars, template, snap, lock>>
                      /\ \A s \in Sessions : phase'[s] = "new" => phase[s] = "new"
  <1>2. CASE Quiet
    BY <1>1, <1>2, TablesKept
  <1>3. CASE \E r \in inbox : HandleBatch(r)
    BY <1>1, <1>3, BatchAgrees
  <1>4. CASE \E s \in Sessions : SnapshotTotals(s) \/ SnapshotArticles(s) \/ SnapshotFails(s)
    BY <1>1, <1>4, SnapshotAgrees
  <1>5. CASE Crash
    BY <1>1, <1>5, CrashAgrees
  <1>6. CASE \E s \in Sessions : Prepare(s)
    BY <1>1, <1>6, PrepareAgrees
  <1>7. ASSUME NEW s \in Sessions,
               (\E a \in Articles : GuestReads(s, a)) \/ Watcher(s) \/ SessionSends(s)
        PROVE  Quiet
    BY <1>7 DEF GuestReads, Watcher, WatcherEnds, WatcherTakes, SessionSends, watchVars, statdVars
  <1>8. ASSUME NEW s \in Sessions, Stop(s) \/ Abort(s)
        PROVE  Quiet
    BY <1>8 DEF Stop, Abort, statdVars, TInv, IInv, TypeOK
  <1>9. CASE Restart \/ WebTakes \/ WebSends
    BY <1>2, <1>9 DEF Restart, WebTakes, WebSends, watchVars, statdVars
  <1>10. CASE Publish \/ Reload \/ UNCHANGED vars
    BY <1>2, <1>10 DEF Publish, Reload, vars, watchVars, statdVars
  <1>11. CASE (\E r \in replies : Receive(r)) \/ (\E w \in Workers : GiveUp(w))
    BY <1>2, <1>11 DEF Receive, GiveUp, watchVars
  <1>12. ASSUME NEW a \in Articles, NEW ip \in Clients, Get(a, ip)
         PROVE  Quiet
    BY <1>12 DEF Get, watchVars, statdVars
  <1> HIDE DEF Quiet
  <1> QED
    BY <1>2, <1>3, <1>4, <1>5, <1>6, <1>7, <1>8, <1>9, <1>10, <1>11, <1>12 DEF Next

\* However batches, failures, crashes of statd and snapshots interleave, for any number of
\* sessions and articles: the total of a directory is the sum of its articles' totals, a
\* directory has visitors exactly if something was read there, and what a session is
\* shown, which snapshot reads in two steps, is of one moment: no directory's total is
\* less than the rows of the articles the session's template lists add up to, and it is
\* their sum when the template lists every article that was ever read there.
THEOREM TablesAgree == Spec => []TotalsAgree
  BY TInvAgrees, InitAgrees, NextAgrees, PTL DEF Spec
=============================================================================
