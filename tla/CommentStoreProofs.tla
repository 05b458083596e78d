------------------------- MODULE CommentStoreProofs ---------------------------
(***************************************************************************)
(* Theorems about CommentStore, for any number of handlers, readers,       *)
(* targets and comments, any clock and any limits.                         *)
(*                                                                         *)
(* OpenSucceeds, RateLimited and RefinesLog are not inductive.  They hold  *)
(* because a candidate is always computed from the current contents        *)
(* (MemOK, which needs the lock: CommitOK), because the contents a power   *)
(* loss may leave are earlier versions of the current ones (Earlier), and  *)
(* because a response that speaks of a comment leaves its handler only     *)
(* when every such version has it (DisksOK).                               *)
(*                                                                         *)
(* SnapshotIsOneRevision and PublicListIsSound rest on what Filter makes   *)
(* of a list of any length, shown by induction, and on RInv: memory holds  *)
(* a sound list even when the store is poisoned (Sound), and a reader has  *)
(* what its revision holds up to its last page (ReadOK).                   *)
(***************************************************************************)
EXTENDS CommentStore, FiniteSetTheorems, WellFoundedInduction,
        SequenceTheorems, TLAPS

(* d is a version of the contents from which e was made by submissions and *)
(* decisions.                                                              *)
Earlier(d, e) ==
    /\ Len(d) <= Len(e)
    /\ \A i \in DOMAIN d : /\ Log!SameComment(d[i], e[i])
                           /\ d[i].status \in {"Pending", e[i].status}

(* IdsIncrease for every pair, not only for neighbours. *)
Sorted(cs) ==
    \A i, j \in DOMAIN cs : i < j => cs[i].id < cs[j].id

Limited(cs) ==
    \A i \in DOMAIN cs : Cardinality(RecentOf(SubSeq(cs, 1, i), cs[i].ip, cs[i].at)) <= RateLimit

Sound(cs) == Sorted(cs) /\ RelationsHold(cs) /\ Limited(cs)

(* What the response r says is true of the contents d. *)
Claims(r, d) ==
    /\ r.kind = "submitted" => Log!Has(d, r.comment)
    /\ r.kind = "moderated" => /\ r.status # "Pending"
                               /\ \A id \in r.ids : Log!Decision(d, <<id, r.status>>)

(* Init writes three files; it is at work between the first and the last. *)
LaidOK == initing => laid \in {1, 2}

(* A process that is down has no requests and is not poisoned. *)
DownOK == ~up => ~poisoned /\ \A h \in Handlers : hpc[h] = "idle"

(* One handler commits at a time, its candidate is in place, and its       *)
(* response is true of the candidate.                                      *)
CommitOK ==
    \A h \in Handlers : hpc[h] = "commit" =>
        /\ up /\ ~poisoned /\ file = cand[h]
        /\ Claims(resp[h], file)
        /\ \A g \in Handlers : hpc[g] = "commit" => g = h

(* Whoever gets the lock computes from the current contents. *)
MemOK == up /\ ~poisoned /\ LockFree => mem = file

(* Every version a power loss may leave is sound and earlier than the      *)
(* current one, and has all that was or is about to be acknowledged.       *)
DisksOK ==
    /\ file \in disks
    /\ \A d \in disks :
          /\ Sound(d)
          /\ Earlier(d, file)
          /\ \A c \in acked : Log!Has(d, c)
          /\ \A e \in decided : Log!Decision(d, e)
          /\ \A h \in Handlers : hpc[h] = "reply" => Claims(resp[h], d)

DecidedOK == \A e \in decided : e[2] # "Pending"

IInv == TypeOK /\ LaidOK /\ DownOK /\ CommitOK /\ MemOK /\ DisksOK /\ DecidedOK

-----------------------------------------------------------------------------
(* Versions. *)

(* A decision changes nothing of a comment but its status. *)
LEMMA StatusOnly ==
    ASSUME NEW c \in Comments, NEW s \in Statuses
    PROVE  /\ [c EXCEPT !.status = s] \in Comments
           /\ [c EXCEPT !.status = s].status = s
           /\ Log!SameComment(c, [c EXCEPT !.status = s])
           /\ \A f \in {"id", "target", "text", "ip", "at", "reply"} :
                 [c EXCEPT !.status = s][f] = c[f]
  BY DEF Comments, Statuses, Log!SameComment

(* Two versions of a comment have the same id. *)
LEMMA SameId ==
    ASSUME NEW c \in Comments, NEW d \in Comments, Log!SameComment(c, d)
    PROVE  c.id = d.id
  <1>1. [c EXCEPT !.status = "Pending"].id = c.id /\ [d EXCEPT !.status = "Pending"].id = d.id
    BY DEF Comments
  <1> QED BY <1>1 DEF Log!SameComment

LEMMA EarlierRefl ==
    ASSUME NEW d \in Seq(Comments)
    PROVE  Earlier(d, d)
  BY DEF Earlier, Log!SameComment

LEMMA EarlierTrans ==
    ASSUME NEW d \in Seq(Comments), NEW e \in Seq(Comments), NEW f \in Seq(Comments),
           Earlier(d, e), Earlier(e, f)
    PROVE  Earlier(d, f)
  <1>1. Len(d) \in Nat /\ Len(e) \in Nat /\ Len(f) \in Nat
    OBVIOUS
  <1>2. Len(d) <= Len(f)
    BY <1>1 DEF Earlier
  <1>3. ASSUME NEW i \in DOMAIN d
        PROVE  Log!SameComment(d[i], f[i]) /\ d[i].status \in {"Pending", f[i].status}
    <2>1. i \in DOMAIN e
      BY <1>1 DEF Earlier
    <2> QED BY <2>1 DEF Earlier, Log!SameComment
  <1> QED BY <1>2, <1>3 DEF Earlier

(* What is in a version, and what was decided in it, is in every later one. *)
LEMMA EarlierCarries ==
    ASSUME NEW d \in Seq(Comments), NEW e \in Seq(Comments), Earlier(d, e)
    PROVE  /\ \A c : Log!Has(d, c) => Log!Has(e, c)
           /\ \A x : x[2] # "Pending" /\ Log!Decision(d, x) => Log!Decision(e, x)
  <1>1. \A i \in DOMAIN d : i \in DOMAIN e
    <2>1. Len(d) \in Nat /\ Len(e) \in Nat
      OBVIOUS
    <2> QED BY <2>1 DEF Earlier
  <1>2. ASSUME NEW c, Log!Has(d, c) PROVE Log!Has(e, c)
    BY <1>1, <1>2 DEF Earlier, Log!Has, Log!SameComment
  <1>3. ASSUME NEW x, x[2] # "Pending", Log!Decision(d, x) PROVE Log!Decision(e, x)
    <2>1. PICK i \in DOMAIN d : d[i].id = x[1] /\ d[i].status = x[2]
      BY <1>3 DEF Log!Decision
    <2>2. i \in DOMAIN e /\ d[i] \in Comments /\ e[i] \in Comments
      BY <1>1
    <2>3. Log!SameComment(d[i], e[i]) /\ d[i].status = e[i].status
      BY <1>3, <2>1 DEF Earlier
    <2>4. e[i].id = x[1] /\ e[i].status = x[2]
      BY <2>1, <2>2, <2>3, SameId
    <2> QED BY <2>2, <2>4 DEF Log!Decision
  <1> QED BY <1>2, <1>3

LEMMA ClaimsCarry ==
    ASSUME NEW d \in Seq(Comments), NEW e \in Seq(Comments), Earlier(d, e),
           NEW r, Claims(r, d)
    PROVE  Claims(r, e)
  <1>1. ASSUME NEW id \in r.ids, r.kind = "moderated" PROVE Log!Decision(e, <<id, r.status>>)
    <2>1. Log!Decision(d, <<id, r.status>>) /\ <<id, r.status>>[2] # "Pending"
      BY <1>1 DEF Claims
    <2> QED BY <2>1, EarlierCarries
  <1> QED BY <1>1, EarlierCarries DEF Claims

(* Ids that increase for every pair do so for neighbours. *)
LEMMA SortedIncreases ==
    ASSUME NEW d \in Seq(Comments), Sorted(d)
    PROVE  IdsIncrease(d)
  <1>1. ASSUME NEW i \in DOMAIN d
        PROVE  d[i].id > 0 /\ (i > 1 => d[i - 1].id < d[i].id)
    <2>1. d[i] \in Comments
      OBVIOUS
    <2>2. d[i].id \in 1 .. MaxId
      BY <2>1 DEF Comments
    <2>3. ASSUME i > 1 PROVE i - 1 \in DOMAIN d /\ i - 1 < i
      BY <2>3
    <2> QED BY <2>2, <2>3, ConstAssumption DEF Sorted
  <1> QED BY <1>1 DEF IdsIncrease

-----------------------------------------------------------------------------
(* A submission: Append(f, c) with the next id. *)

LEMMA AppendedFields ==
    ASSUME NEW f \in Seq(Comments), NEW c \in Comments
    PROVE  /\ Append(f, c) \in Seq(Comments)
           /\ Len(Append(f, c)) = Len(f) + 1
           /\ Append(f, c)[Len(f) + 1] = c
           /\ \A i \in DOMAIN f : Append(f, c)[i] = f[i]
           /\ DOMAIN Append(f, c) = DOMAIN f \cup {Len(f) + 1}
           /\ DOMAIN f = 1 .. Len(f)
           /\ Len(f) \in Nat
  OBVIOUS

LEMMA AppendIsLater ==
    ASSUME NEW f \in Seq(Comments), NEW c \in Comments
    PROVE  Earlier(f, Append(f, c))
  BY AppendedFields DEF Earlier, Log!SameComment

(* In sorted contents the next id is above every id. *)
LEMMA NextIdIsNew ==
    ASSUME NEW f \in Seq(Comments), Sorted(f)
    PROVE  /\ NextId(f) \in Nat \ {0}
           /\ \A i \in DOMAIN f : f[i].id < NextId(f)
  <1>1. CASE f = <<>>
    BY <1>1 DEF NextId
  <1>2. CASE f # <<>>
    <2>1. Len(f) \in DOMAIN f /\ Len(f) \in Nat
      BY <1>2
    <2>2. \A i \in DOMAIN f : f[i] \in Comments
      OBVIOUS
    <2>3. \A i \in DOMAIN f : f[i].id \in 1 .. MaxId
      BY <2>2 DEF Comments
    <2>4. \A i \in DOMAIN f : f[i].id \in Nat /\ f[i].id > 0
      BY <2>3, ConstAssumption
    <2>5. NextId(f) = f[Len(f)].id + 1
      BY <1>2 DEF NextId
    <2>6. ASSUME NEW i \in DOMAIN f PROVE f[i].id <= f[Len(f)].id
      <3>1. CASE i = Len(f)
        BY <3>1, <2>1, <2>4
      <3>2. CASE i # Len(f)
        <4>1. i < Len(f)
          BY <3>2
        <4> QED BY <4>1, <2>1, <2>4 DEF Sorted
      <3> QED BY <3>1, <3>2
    <2> QED BY <2>1, <2>4, <2>5, <2>6
  <1> QED BY <1>1, <1>2

(* The comments of a prefix that count as recent are finitely many. *)
LEMMA RecentFinite ==
    ASSUME NEW f \in Seq(Comments), NEW ip, NEW now
    PROVE  IsFiniteSet(RecentOf(f, ip, now))
  <1>1. IsFiniteSet(1 .. Len(f))
    BY FS_Interval
  <1>2. RecentOf(f, ip, now) \subseteq 1 .. Len(f)
    BY DEF RecentOf
  <1> QED BY <1>1, <1>2, FS_Subset

LEMMA OneMore ==
    ASSUME NEW S, IsFiniteSet(S), NEW x
    PROVE  /\ IsFiniteSet(S \cup {x})
           /\ Cardinality(S \cup {x}) \in Nat /\ Cardinality(S) \in Nat
           /\ Cardinality(S \cup {x}) <= Cardinality(S) + 1
  <1>1. IsFiniteSet(S \cup {x}) /\ Cardinality(S) \in Nat
    BY FS_AddElement, FS_CardinalityType
  <1>2. Cardinality(S \cup {x}) = IF x \in S THEN Cardinality(S) ELSE Cardinality(S) + 1
    BY FS_AddElement
  <1> QED BY <1>1, <1>2

LEMMA AppendIsSound ==
    ASSUME NEW f \in Seq(Comments), Sound(f),
           NEW c \in Comments, c.id = NextId(f),
           c.reply # 0 => \E i \in DOMAIN f : /\ f[i].id = c.reply
                                              /\ f[i].target = c.target
                                              /\ f[i].status = "Approved",
           BelowRateLimit(f, c.ip, c.at)
    PROVE  Sound(Append(f, c))
  <1> DEFINE g == Append(f, c)
             n == Len(f)
  <1>0. /\ g \in Seq(Comments) /\ Len(g) = n + 1 /\ g[n + 1] = c
        /\ \A i \in DOMAIN f : g[i] = f[i]
        /\ DOMAIN g = DOMAIN f \cup {n + 1}
        /\ DOMAIN f = 1 .. n /\ n \in Nat
    BY AppendedFields
  <1> HIDE DEF g, n
  <1>1. Sorted(g)
    <2>1. \A i \in DOMAIN f : f[i].id < c.id
      BY NextIdIsNew DEF Sound
    <2> QED BY <1>0, <2>1 DEF Sorted, Sound
  <1>2. RelationsHold(g)
    <2>1. ASSUME NEW i \in DOMAIN g, g[i].reply # 0
          PROVE  \E j \in DOMAIN g : /\ j < i /\ g[j].id = g[i].reply
                                     /\ g[j].target = g[i].target /\ g[j].status = "Approved"
      <3>1. CASE i \in DOMAIN f
        BY <1>0, <2>1, <3>1 DEF Sound, RelationsHold
      <3>2. CASE i = n + 1
        BY <1>0, <2>1, <3>2
      <3> QED BY <1>0, <2>1, <3>1, <3>2
    <2> QED BY <2>1 DEF RelationsHold
  <1>3. Limited(g)
    <2>1. ASSUME NEW i \in DOMAIN f
          PROVE  Cardinality(RecentOf(SubSeq(g, 1, i), g[i].ip, g[i].at)) <= RateLimit
      <3>1. SubSeq(g, 1, i) = SubSeq(f, 1, i)
        BY <1>0
      <3> QED BY <1>0, <3>1 DEF Sound, Limited
    <2>2. Cardinality(RecentOf(SubSeq(g, 1, n + 1), c.ip, c.at)) <= RateLimit
      <3>1. SubSeq(g, 1, n + 1) = g
        BY <1>0
      <3>2. RecentOf(g, c.ip, c.at) \subseteq RecentOf(f, c.ip, c.at) \cup {n + 1}
        BY <1>0 DEF RecentOf
      <3> DEFINE R == RecentOf(f, c.ip, c.at)
      <3>3. IsFiniteSet(R) /\ Cardinality(R) \in Nat
        BY RecentFinite, FS_CardinalityType
      <3> HIDE DEF R
      <3>4. IsFiniteSet(R \cup {n + 1}) /\ Cardinality(R \cup {n + 1}) <= Cardinality(R) + 1
        BY <3>3, OneMore
      <3>5. /\ Cardinality(RecentOf(g, c.ip, c.at)) <= Cardinality(R \cup {n + 1})
            /\ Cardinality(RecentOf(g, c.ip, c.at)) \in Nat
            /\ Cardinality(R \cup {n + 1}) \in Nat
        BY <3>2, <3>4, FS_Subset, FS_CardinalityType DEF R
      <3>6. Cardinality(R) < RateLimit
        BY DEF BelowRateLimit, R
      <3>7. Cardinality(RecentOf(g, c.ip, c.at)) <= RateLimit
        BY <3>3, <3>4, <3>5, <3>6, ConstAssumption
      <3> QED BY <3>1, <3>7
    <2> QED BY <1>0, <2>1, <2>2 DEF Limited
  <1> QED BY <1>1, <1>2, <1>3 DEF Sound, g

-----------------------------------------------------------------------------
(* A decision: Moderated(f, ids, status). *)

WithStatus(c, s) == [c EXCEPT !.status = s]

(* d is what a decision of ids makes of c. *)
Decides(c, d, ids, s) ==
    /\ Log!SameComment(c, d)
    /\ d.id = c.id /\ d.target = c.target /\ d.ip = c.ip /\ d.at = c.at /\ d.reply = c.reply
    /\ \/ d = c
       \/ c.status = "Pending" /\ d = WithStatus(c, s)
    /\ c.status = "Pending" /\ c.id \in ids => d.status = s

LEMMA ModeratedFields ==
    ASSUME NEW f \in Seq(Comments), NEW ids, NEW s \in Statuses
    PROVE  /\ Moderated(f, ids, s) \in Seq(Comments)
           /\ DOMAIN Moderated(f, ids, s) = DOMAIN f
           /\ Len(Moderated(f, ids, s)) = Len(f)
           /\ \A i \in DOMAIN f : Decides(f[i], Moderated(f, ids, s)[i], ids, s)
  <1> DEFINE g == Moderated(f, ids, s)
  <1>1. \A i \in DOMAIN f : f[i] \in Comments
    OBVIOUS
  <1>2. ASSUME NEW i \in DOMAIN f
        PROVE  g[i] \in Comments /\ Decides(f[i], g[i], ids, s)
    <2>1. CASE f[i].status = "Pending" /\ f[i].id \in ids
      <3>1. g[i] = WithStatus(f[i], s)
        BY <2>1 DEF Moderated, WithStatus
      <3> HIDE DEF g
      <3>2. /\ WithStatus(f[i], s) \in Comments
            /\ WithStatus(f[i], s).status = s
            /\ Log!SameComment(f[i], WithStatus(f[i], s))
        BY <1>1, StatusOnly DEF WithStatus
      <3>3. \A k \in {"id", "target", "text", "ip", "at", "reply"} :
                 WithStatus(f[i], s)[k] = f[i][k]
        BY <1>1, StatusOnly DEF WithStatus
      <3> QED BY <2>1, <3>1, <3>2, <3>3 DEF Decides
    <2>2. CASE ~(f[i].status = "Pending" /\ f[i].id \in ids)
      <3>1. g[i] = f[i]
        BY <2>2 DEF Moderated
      <3> HIDE DEF g
      <3> QED BY <1>1, <2>2, <3>1 DEF Log!SameComment, Decides
    <2> QED BY <2>1, <2>2
  <1>3. DOMAIN g = 1 .. Len(f) /\ DOMAIN f = 1 .. Len(f) /\ Len(f) \in Nat
    BY DEF Moderated
  <1>4. g = [i \in 1 .. Len(f) |-> g[i]]
    BY <1>3 DEF Moderated
  <1> HIDE DEF g
  <1>5. g \in Seq(Comments) /\ Len(g) = Len(f)
    BY <1>2, <1>3, <1>4
  <1> QED BY <1>2, <1>3, <1>5 DEF g

LEMMA ModeratedIsLater ==
    ASSUME NEW f \in Seq(Comments), NEW ids, NEW s \in Statuses
    PROVE  Earlier(f, Moderated(f, ids, s))
  <1> DEFINE g == Moderated(f, ids, s)
  <1>1. DOMAIN g = DOMAIN f /\ Len(g) = Len(f) /\ Len(f) \in Nat
    BY ModeratedFields
  <1>2. \A i \in DOMAIN f : /\ Log!SameComment(f[i], g[i])
                            /\ g[i] = f[i] \/ f[i].status = "Pending"
    BY ModeratedFields DEF Decides
  <1> HIDE DEF g
  <1>3. Earlier(f, g)
    BY <1>1, <1>2 DEF Earlier
  <1> QED BY <1>3 DEF g

LEMMA ModeratedIsSound ==
    ASSUME NEW f \in Seq(Comments), Sound(f), NEW ids, NEW s \in Statuses
    PROVE  Sound(Moderated(f, ids, s))
  <1> DEFINE g == Moderated(f, ids, s)
  <1>1. /\ g \in Seq(Comments) /\ DOMAIN g = DOMAIN f /\ Len(g) = Len(f)
        /\ DOMAIN f = 1 .. Len(f) /\ Len(f) \in Nat
    BY ModeratedFields
  <1>2. \A i \in DOMAIN f :
            /\ g[i].id = f[i].id /\ g[i].target = f[i].target /\ g[i].ip = f[i].ip
            /\ g[i].at = f[i].at /\ g[i].reply = f[i].reply
            /\ g[i] = f[i] \/ f[i].status = "Pending"
    BY ModeratedFields DEF Decides
  <1> HIDE DEF g
  <1>3. Sorted(g)
    BY <1>1, <1>2 DEF Sorted, Sound
  <1>4. RelationsHold(g)
    <2>1. ASSUME NEW i \in DOMAIN f, f[i].reply # 0
          PROVE  \E j \in DOMAIN f : /\ j < i /\ g[j].id = g[i].reply
                                     /\ g[j].target = g[i].target /\ g[j].status = "Approved"
      BY <1>2, <2>1 DEF Sound, RelationsHold
    <2> QED BY <1>1, <1>2, <2>1 DEF RelationsHold
  <1>5. Limited(g)
    <2>1. ASSUME NEW i \in DOMAIN f
          PROVE  Cardinality(RecentOf(SubSeq(g, 1, i), g[i].ip, g[i].at)) <= RateLimit
      <3>1. /\ DOMAIN SubSeq(g, 1, i) = 1 .. i /\ DOMAIN SubSeq(f, 1, i) = 1 .. i
            /\ \A k \in 1 .. i : SubSeq(g, 1, i)[k] = g[k] /\ SubSeq(f, 1, i)[k] = f[k]
        BY <1>1
      <3>2. \A k \in 1 .. i : k \in DOMAIN f
        BY <1>1
      <3>3. RecentOf(SubSeq(g, 1, i), g[i].ip, g[i].at) = RecentOf(SubSeq(f, 1, i), f[i].ip, f[i].at)
        BY <1>2, <3>1, <3>2 DEF RecentOf, Recent
      <3> QED BY <3>3 DEF Sound, Limited
    <2> QED BY <1>1, <2>1 DEF Limited
  <1> QED BY <1>3, <1>4, <1>5 DEF Sound, g

-----------------------------------------------------------------------------
(* What submit and moderate commit. *)

(* The comment Store::submit builds from an accepted line. *)
Submitted(cs, t, x, ip, r, now) ==
    [id |-> NextId(cs), target |-> t, text |-> x, ip |-> ip, at |-> now,
     reply |-> r, status |-> "Pending"]

LEMMA SubmitMakes ==
    ASSUME NEW cs \in Seq(Comments), Sound(cs),
           NEW t \in Targets, NEW x \in Texts, NEW ip \in Ips,
           NEW n \in 0 .. MaxId, NEW r \in 0 .. MaxId, NEW now \in Clock,
           Accepts(cs, t, x, ip, n, r, now)
    PROVE  LET c == Submitted(cs, t, x, ip, r, now) IN
           /\ c \in Comments
           /\ Append(cs, c) \in Seq(Comments)
           /\ Sound(Append(cs, c))
           /\ Earlier(cs, Append(cs, c))
           /\ Log!Has(Append(cs, c), c)
           /\ \A i \in DOMAIN cs : cs[i].id < c.id
           /\ r # 0 => \E i \in DOMAIN cs : /\ cs[i].id = r /\ cs[i].target = t
                                            /\ cs[i].status = "Approved"
  <1> DEFINE c == Submitted(cs, t, x, ip, r, now)
  <1>1. NextId(cs) \in 1 .. MaxId /\ \A i \in DOMAIN cs : cs[i].id < NextId(cs)
    <2>1. NextId(cs) \in Nat \ {0} /\ \A i \in DOMAIN cs : cs[i].id < NextId(cs)
      BY NextIdIsNew DEF Sound
    <2>2. NextId(cs) <= MaxId
      BY DEF Accepts, HasNextId
    <2> QED BY <2>1, <2>2, ConstAssumption
  <1>2. /\ c.id = NextId(cs) /\ c.target = t /\ c.ip = ip /\ c.at = now /\ c.reply = r
        /\ c \in Comments
    BY <1>1 DEF Submitted, Comments, Statuses
  <1>3. r # 0 => \E i \in DOMAIN cs : /\ cs[i].id = r /\ cs[i].target = t
                                      /\ cs[i].status = "Approved"
    BY DEF Accepts, resolve_reply_id, ApprovedIn
  <1>4. BelowRateLimit(cs, ip, now)
    BY DEF Accepts
  <1> HIDE DEF c
  <1>5. Append(cs, c) \in Seq(Comments) /\ Sound(Append(cs, c)) /\ Earlier(cs, Append(cs, c))
    BY <1>2, <1>3, <1>4, AppendIsSound, AppendIsLater, AppendedFields
  <1>6. Log!Has(Append(cs, c), c)
    BY <1>2, AppendedFields DEF Log!Has, Log!SameComment
  <1> QED BY <1>1, <1>2, <1>3, <1>5, <1>6 DEF c

(* Every id that moderate reports has the status it reports. *)
LEMMA ModerateMakes ==
    ASSUME NEW cs \in Seq(Comments), Sound(cs), NEW ids, NEW s \in Statuses,
           NEW i \in DOMAIN cs, cs[i].status = "Pending", cs[i].id \in ids
    PROVE  Log!Decision(Moderated(cs, ids, s), <<cs[i].id, s>>)
  <1>1. i \in DOMAIN Moderated(cs, ids, s) /\ Decides(cs[i], Moderated(cs, ids, s)[i], ids, s)
    BY ModeratedFields
  <1>2. Moderated(cs, ids, s)[i].id = cs[i].id /\ Moderated(cs, ids, s)[i].status = s
    BY <1>1 DEF Decides
  <1> QED BY <1>1, <1>2 DEF Log!Decision

-----------------------------------------------------------------------------
(* The initial state: an empty directory, no process. *)
LEMMA InitIInv == Init => IInv
  <1> SUFFICES ASSUME Init PROVE IInv
    OBVIOUS
  <1>1. <<>> \in Seq(Comments) /\ NoResp \in Responses
    BY DEF NoResp, Responses
  <1>2. TypeOK
    <2>0. laid \in 0 .. 3
      BY DEF Init
    <2>1. initing \in BOOLEAN /\ up \in BOOLEAN /\ poisoned \in BOOLEAN
      BY DEF Init
    <2>2. file \in Seq(Comments) /\ mem \in Seq(Comments) /\ disks \subseteq Seq(Comments)
      BY <1>1 DEF Init
    <2>3. hpc \in [Handlers -> {"idle", "commit", "reply", "check"}]
      BY DEF Init
    <2>4. cand \in [Handlers -> Seq(Comments)] /\ resp \in [Handlers -> Responses]
      BY <1>1 DEF Init
    <2>5. acked \subseteq Comments /\ decided \subseteq (1 .. MaxId) \X Statuses
      BY DEF Init
    <2> QED BY <2>0, <2>1, <2>2, <2>3, <2>4, <2>5 DEF TypeOK
  <1>3. LaidOK /\ DownOK /\ CommitOK /\ MemOK /\ DecidedOK
    BY DEF Init, LaidOK, DownOK, CommitOK, MemOK, DecidedOK
  <1>4. DisksOK
    <2>1. Sound(<<>>)
      BY DEF Sound, Sorted, RelationsHold, Limited
    <2> QED BY <1>1, <2>1, EarlierRefl DEF Init, DisksOK
  <1> QED BY <1>2, <1>3, <1>4 DEF IInv

(* A handler without the lock answers: nothing else changes. *)
LEMMA AnswerKeeps ==
    ASSUME IInv, NEW h \in Handlers, NEW r \in Responses,
           up, hpc[h] # "commit", Answer(h, r),
           \A d \in disks : Claims(r, d),
           UNCHANGED <<diskVars, up, mem, poisoned, cand, reader, histVars>>
    PROVE  IInv'
  <1>1. TypeOK'
    BY DEF IInv, TypeOK, Answer, diskVars, histVars
  <1>2. /\ \A g \in Handlers : hpc'[g] = "commit" <=> hpc[g] = "commit"
        /\ \A g \in Handlers : g # h => hpc'[g] = hpc[g] /\ resp'[g] = resp[g]
        /\ hpc'[h] = "reply" /\ resp'[h] = r
    BY DEF IInv, TypeOK, Answer
  <1>3. LaidOK' /\ DownOK' /\ DecidedOK'
    BY DEF IInv, LaidOK, DownOK, DecidedOK, diskVars, histVars
  <1>4. CommitOK'
    BY <1>2 DEF IInv, CommitOK, diskVars, Claims
  <1>5. MemOK'
    BY <1>2 DEF IInv, MemOK, LockFree, diskVars
  <1>6. DisksOK'
    BY <1>2 DEF IInv, DisksOK, diskVars, histVars
  <1> QED BY <1>1, <1>3, <1>4, <1>5, <1>6 DEF IInv

(* Commit puts a later version in place, or fails and changes nothing. *)
LEMMA CommitKeeps ==
    ASSUME IInv, NEW h \in Handlers, Ready(h), ~poisoned,
           NEW c \in Seq(Comments), Sound(c), Earlier(mem, c),
           NEW r \in Responses, Claims(r, c), Commit(h, c, r),
           UNCHANGED <<up, mem, poisoned, reader, histVars>>
    PROVE  IInv'
  <1>1. CASE Answer(h, [kind |-> "error"]) /\ UNCHANGED <<diskVars, cand>>
    <2>1. [kind |-> "error"] \in Responses /\ \A d \in disks : Claims([kind |-> "error"], d)
      BY DEF Responses, Claims
    <2> QED BY <1>1, <2>1, AnswerKeeps DEF Ready
  <1>2. CASE /\ file' = c
             /\ disks' = disks \cup {c}
             /\ cand' = [cand EXCEPT ![h] = c]
             /\ hpc' = [hpc EXCEPT ![h] = "commit"]
             /\ resp' = [resp EXCEPT ![h] = r]
             /\ UNCHANGED <<laid, initing>>
    <2>1. TypeOK'
      BY <1>2 DEF IInv, TypeOK, histVars
    <2>2. /\ \A g \in Handlers : g # h => hpc'[g] = hpc[g] /\ resp'[g] = resp[g]
          /\ hpc'[h] = "commit" /\ resp'[h] = r /\ cand'[h] = c
          /\ \A g \in Handlers : hpc[g] # "commit"
      BY <1>2 DEF IInv, TypeOK, Ready, LockFree
    <2>3. LaidOK' /\ DownOK' /\ DecidedOK' /\ MemOK'
      BY <1>2, <2>2 DEF IInv, LaidOK, DownOK, DecidedOK, MemOK, LockFree, histVars, Ready
    <2>4. CommitOK'
      BY <1>2, <2>2 DEF CommitOK, Ready, Claims
    <2>5. DisksOK'
      <3>1. mem = file /\ file \in disks /\ file \in Seq(Comments) /\ disks \subseteq Seq(Comments)
        BY DEF IInv, TypeOK, MemOK, DisksOK, Ready
      <3>2. c \in disks'
        BY <1>2
      <3>3. ASSUME NEW d \in disks'
            PROVE  /\ Sound(d) /\ Earlier(d, c)
                   /\ \A a \in acked : Log!Has(d, a)
                   /\ \A e \in decided : Log!Decision(d, e)
                   /\ \A g \in Handlers : hpc'[g] = "reply" => Claims(resp'[g], d)
        <4>1. CASE d \in disks
          <5>1. Earlier(d, c)
            BY <3>1, <4>1, EarlierTrans DEF IInv, DisksOK
          <5>2. \A g \in Handlers : hpc'[g] = "reply" => Claims(resp'[g], d)
            BY <2>2, <4>1 DEF IInv, DisksOK
          <5> QED BY <4>1, <5>1, <5>2 DEF IInv, DisksOK
        <4>2. CASE d = c
          <5>1. \A a \in acked : Log!Has(c, a)
            BY <3>1, EarlierCarries DEF IInv, DisksOK
          <5>2. \A e \in decided : Log!Decision(c, e)
            BY <3>1, EarlierCarries DEF IInv, DisksOK, DecidedOK
          <5>3. \A g \in Handlers : hpc'[g] = "reply" => Claims(resp'[g], c)
            BY <2>2, <3>1, ClaimsCarry DEF IInv, DisksOK
          <5> QED BY <4>2, <5>1, <5>2, <5>3, EarlierRefl
        <4> QED BY <1>2, <3>3, <4>1, <4>2
      <3>4. UNCHANGED <<acked, decided>>
        BY DEF histVars
      <3> QED BY <1>2, <3>2, <3>3, <3>4 DEF DisksOK
    <2> QED BY <2>1, <2>3, <2>4, <2>5 DEF IInv
  <1> QED BY <1>1, <1>2 DEF Commit

(* The process ends, with the file system as it is or as a power loss      *)
(* leaves it.                                                              *)
LEMMA EndKeeps ==
    ASSUME IInv, ProcessEnds, UNCHANGED <<laid, acked, decided>>,
           initing' \in BOOLEAN, initing' => initing,
           \/ UNCHANGED <<file, disks>>
           \/ \E d \in disks : file' = d /\ disks' = {d}
    PROVE  IInv'
  <1>1. <<>> \in Seq(Comments) /\ NoResp \in Responses
    BY DEF NoResp, Responses
  <1>2. file' \in disks' /\ disks' \subseteq disks
    BY DEF IInv, DisksOK
  <1>3. TypeOK'
    <2>1. laid' \in 0 .. 3 /\ initing' \in BOOLEAN /\ up' \in BOOLEAN /\ poisoned' \in BOOLEAN
      BY DEF IInv, TypeOK, ProcessEnds
    <2>2. file' \in Seq(Comments) /\ mem' \in Seq(Comments) /\ disks' \subseteq Seq(Comments)
      BY <1>1, <1>2 DEF IInv, TypeOK, ProcessEnds
    <2>3. hpc' \in [Handlers -> {"idle", "commit", "reply", "check"}]
      BY DEF ProcessEnds
    <2>4. cand' \in [Handlers -> Seq(Comments)] /\ resp' \in [Handlers -> Responses]
      BY <1>1 DEF ProcessEnds
    <2>5. acked' \subseteq Comments /\ decided' \subseteq (1 .. MaxId) \X Statuses
      BY DEF IInv, TypeOK
    <2> QED BY <2>1, <2>2, <2>3, <2>4, <2>5 DEF TypeOK
  <1>4. LaidOK' /\ DownOK' /\ CommitOK' /\ MemOK' /\ DecidedOK'
    BY DEF IInv, LaidOK, DownOK, CommitOK, MemOK, DecidedOK, ProcessEnds
  <1>5. DisksOK'
    <2>1. \A d \in disks' : Earlier(d, file')
      BY <1>2, EarlierRefl DEF IInv, DisksOK, TypeOK
    <2>2. \A h \in Handlers : hpc'[h] # "reply"
      BY DEF ProcessEnds
    <2> QED BY <1>2, <2>1, <2>2 DEF IInv, DisksOK
  <1> QED BY <1>3, <1>4, <1>5 DEF IInv

-----------------------------------------------------------------------------
(* Every step of a handler keeps the invariant. *)

LEMMA SubmitKeeps ==
    ASSUME IInv, NEW h \in Handlers, NEW t \in Targets, NEW x \in Texts, NEW ip \in Ips,
           NEW n \in 0 .. MaxId, NEW r \in 0 .. MaxId, NEW now \in Clock,
           submit(h, t, x, ip, n, r, now)
    PROVE  IInv'
  <1> DEFINE c == Submitted(mem, t, x, ip, r, now)
             a == [kind |-> "submitted", comment |-> c]
  <1>1. /\ Ready(h) /\ ~poisoned /\ Accepts(mem, t, x, ip, n, r, now)
        /\ Commit(h, Append(mem, c), a)
        /\ UNCHANGED <<up, mem, poisoned, reader, histVars>>
    BY DEF submit, Submitted
  <1>2. mem \in Seq(Comments) /\ Sound(mem)
    BY <1>1 DEF IInv, TypeOK, MemOK, DisksOK, Ready
  <1>3. /\ c \in Comments /\ Append(mem, c) \in Seq(Comments) /\ Sound(Append(mem, c))
        /\ Earlier(mem, Append(mem, c)) /\ Log!Has(Append(mem, c), c)
    BY <1>1, <1>2, SubmitMakes
  <1> HIDE DEF c
  <1>4. a \in Responses /\ Claims(a, Append(mem, c))
    BY <1>3 DEF Responses, Claims
  <1> HIDE DEF a
  <1> QED BY <1>1, <1>3, <1>4, CommitKeeps

LEMMA ModerateKeeps ==
    ASSUME IInv, NEW h \in Handlers, NEW ids \in SUBSET (1 .. MaxId),
           NEW s \in {"Approved", "Deleted"}, moderate(h, ids, s)
    PROVE  IInv'
  <1> DEFINE changed == {i \in DOMAIN mem : mem[i].status = "Pending" /\ mem[i].id \in ids}
             hit == {mem[i].id : i \in changed}
             a == [kind |-> "moderated", ids |-> hit, status |-> s]
             m == Moderated(mem, ids, s)
  <1>1. /\ Ready(h) /\ ~poisoned
        /\ UNCHANGED <<up, mem, poisoned, reader, histVars>>
        /\ IF changed = {} THEN Answer(h, a) /\ UNCHANGED <<diskVars, cand>> ELSE Commit(h, m, a)
    BY DEF moderate
  <1>2. mem \in Seq(Comments) /\ Sound(mem) /\ s \in Statuses /\ s # "Pending"
    BY <1>1 DEF IInv, TypeOK, MemOK, DisksOK, Ready, Statuses
  <1>3. m \in Seq(Comments) /\ Sound(m) /\ Earlier(mem, m)
    BY <1>2, ModeratedFields, ModeratedIsSound, ModeratedIsLater
  <1>4. \A id \in hit : Log!Decision(m, <<id, s>>)
    BY <1>2, ModerateMakes
  <1>5. hit \in SUBSET (1 .. MaxId)
    OBVIOUS
  <1>6. changed = {} => hit = {}
    OBVIOUS
  <1> HIDE DEF changed, hit, m
  <1>7. a \in Responses
    BY <1>2, <1>5 DEF Responses
  <1>8. /\ a.kind = "moderated" /\ a.ids = hit /\ a.status = s
    OBVIOUS
  <1> HIDE DEF a
  <1>9. Claims(a, m) /\ (hit = {} => \A d \in disks : Claims(a, d))
    BY <1>2, <1>4, <1>8 DEF Claims
  <1>10. CASE changed = {}
    <2>1. /\ up /\ hpc[h] # "commit" /\ Answer(h, a)
          /\ UNCHANGED <<diskVars, up, mem, poisoned, cand, reader, histVars>>
      BY <1>1, <1>10 DEF Ready
    <2> QED BY <1>6, <1>7, <1>9, <1>10, <2>1, AnswerKeeps
  <1>11. CASE changed # {}
    BY <1>1, <1>3, <1>7, <1>9, <1>11, CommitKeeps
  <1> QED BY <1>10, <1>11

(* The operations that change nothing. *)
LEMMA QuietKeeps ==
    ASSUME IInv, NEW h \in Handlers,
           SubmitReject(h) \/ RefusePoisoned(h) \/ public_query(h)
    PROVE  IInv'
  <1>1. PICK k \in {"reject", "error", "view"} : Answer(h, [kind |-> k])
    BY DEF SubmitReject, RefusePoisoned, public_query
  <1>2. /\ up /\ hpc[h] # "commit"
        /\ UNCHANGED <<diskVars, up, mem, poisoned, cand, reader, histVars>>
    BY DEF SubmitReject, RefusePoisoned, public_query, Ready
  <1>3. [kind |-> k] \in Responses
    BY DEF Responses
  <1>4. \A d \in disks : Claims([kind |-> k], d)
    BY DEF Claims
  <1> QED BY <1>1, <1>2, <1>3, <1>4, AnswerKeeps

(* The directory is synced: the old versions are gone. *)
LEMMA SyncedKeeps ==
    ASSUME IInv, NEW h \in Handlers, CommitSynced(h)
    PROVE  IInv'
  <1>1. /\ hpc[h] = "commit" /\ up /\ ~poisoned /\ file = cand[h] /\ Claims(resp[h], file)
        /\ \A g \in Handlers : hpc[g] = "commit" => g = h
    BY DEF IInv, CommitOK, CommitSynced
  <1>2. /\ hpc'[h] = "reply" /\ \A g \in Handlers : g # h => hpc'[g] = hpc[g]
        /\ \A g \in Handlers : hpc'[g] # "commit"
    BY <1>1 DEF IInv, TypeOK, CommitSynced
  <1>3. TypeOK'
    BY DEF IInv, TypeOK, CommitSynced, histVars
  <1>4. LaidOK' /\ DownOK' /\ DecidedOK'
    BY <1>1 DEF IInv, LaidOK, DownOK, DecidedOK, CommitSynced, histVars
  <1>5. CommitOK' /\ MemOK'
    BY <1>1, <1>2 DEF CommitOK, MemOK, CommitSynced
  <1>6. DisksOK'
    BY <1>1, <1>2, EarlierRefl DEF IInv, DisksOK, TypeOK, CommitSynced, histVars
  <1> QED BY <1>3, <1>4, <1>5, <1>6 DEF IInv

(* It cannot be synced: the store is poisoned. *)
LEMMA PoisonKeeps ==
    ASSUME IInv, NEW h \in Handlers, CommitPoisons(h)
    PROVE  IInv'
  <1>1. up /\ \A g \in Handlers : hpc[g] = "commit" => g = h
    BY DEF IInv, CommitOK, CommitPoisons
  <1>2. [kind |-> "error"] \in Responses /\ \A d \in disks : Claims([kind |-> "error"], d)
    BY DEF Responses, Claims
  <1>3. /\ hpc'[h] = "reply" /\ resp'[h] = [kind |-> "error"]
        /\ \A g \in Handlers : g # h => hpc'[g] = hpc[g] /\ resp'[g] = resp[g]
        /\ \A g \in Handlers : hpc'[g] # "commit"
    BY <1>1 DEF IInv, TypeOK, CommitPoisons, Answer
  <1>4. TypeOK'
    BY <1>2 DEF IInv, TypeOK, CommitPoisons, Answer, diskVars, histVars
  <1>5. LaidOK' /\ DownOK' /\ DecidedOK' /\ CommitOK' /\ MemOK'
    BY <1>1, <1>3 DEF IInv, LaidOK, DownOK, DecidedOK, CommitOK, MemOK, CommitPoisons,
                      diskVars, histVars
  <1>6. DisksOK'
    BY <1>2, <1>3 DEF IInv, DisksOK, CommitPoisons, diskVars, histVars
  <1> QED BY <1>4, <1>5, <1>6 DEF IInv

(* The response is delivered: what it says is on record. *)
LEMMA ReplyKeeps ==
    ASSUME IInv, NEW h \in Handlers, Reply(h)
    PROVE  IInv'
  <1>1. /\ up /\ hpc[h] = "reply" /\ UNCHANGED <<diskVars, up, mem, poisoned, cand, reader>>
        /\ hpc' = [hpc EXCEPT ![h] = "check"] /\ resp' = [resp EXCEPT ![h] = NoResp]
    BY DEF Reply
  <1>2. /\ hpc'[h] = "check"
        /\ \A g \in Handlers : g # h => hpc'[g] = hpc[g] /\ resp'[g] = resp[g]
        /\ \A g \in Handlers : hpc'[g] = "commit" <=> hpc[g] = "commit"
    BY <1>1 DEF IInv, TypeOK
  <1>3. \A d \in disks : Claims(resp[h], d)
    BY <1>1 DEF IInv, DisksOK
  <1>4. resp[h] \in Responses /\ NoResp \in Responses
    BY DEF IInv, TypeOK, Responses, NoResp
  <1>5. ASSUME resp[h].kind = "submitted" PROVE resp[h].comment \in Comments
    BY <1>4, <1>5 DEF Responses
  <1>6. ASSUME resp[h].kind = "moderated"
        PROVE  resp[h].ids \subseteq 1 .. MaxId /\ resp[h].status \in Statuses
    BY <1>4, <1>6 DEF Responses
  <1>7. acked' \subseteq Comments /\ decided' \subseteq (1 .. MaxId) \X Statuses
    <2>1. acked' \subseteq Comments
      BY <1>5 DEF Reply, IInv, TypeOK
    <2>2. decided' \subseteq (1 .. MaxId) \X Statuses
      BY <1>6 DEF Reply, IInv, TypeOK
    <2> QED BY <2>1, <2>2
  <1>8. TypeOK'
    BY <1>1, <1>4, <1>7 DEF IInv, TypeOK, diskVars
  <1>9. LaidOK' /\ DownOK' /\ CommitOK' /\ MemOK'
    BY <1>1, <1>2 DEF IInv, LaidOK, DownOK, CommitOK, MemOK, LockFree, diskVars
  <1>10. \A e \in decided' : e \in decided
            \/ /\ resp[h].kind = "moderated" /\ resp[h].status # "Pending"
               /\ \E id \in resp[h].ids : e = <<id, resp[h].status>>
    <2>1. file \in disks
      BY DEF IInv, DisksOK
    <2>2. resp[h].kind = "moderated" => resp[h].status # "Pending"
      BY <1>3, <2>1 DEF Claims
    <2> QED BY <2>2 DEF Reply
  <1>11. DecidedOK'
    BY <1>10 DEF IInv, DecidedOK
  <1>12. DisksOK'
    <2>1. UNCHANGED <<file, disks>>
      BY <1>1 DEF diskVars
    <2>2. ASSUME NEW d \in disks
          PROVE  /\ \A c \in acked' : Log!Has(d, c)
                 /\ \A e \in decided' : Log!Decision(d, e)
                 /\ \A g \in Handlers : hpc'[g] = "reply" => Claims(resp'[g], d)
      <3>1. \A c \in acked' : c \in acked \/ (resp[h].kind = "submitted" /\ c = resp[h].comment)
        BY DEF Reply
      <3>2. \A c \in acked' : Log!Has(d, c)
        BY <1>3, <3>1 DEF IInv, DisksOK, Claims
      <3>3. \A e \in decided' : Log!Decision(d, e)
        BY <1>3, <1>10 DEF IInv, DisksOK, Claims
      <3>4. \A g \in Handlers : hpc'[g] = "reply" => Claims(resp'[g], d)
        BY <1>2 DEF IInv, DisksOK
      <3> QED BY <3>2, <3>3, <3>4
    <2> QED BY <2>1, <2>2 DEF IInv, DisksOK
  <1> QED BY <1>8, <1>9, <1>11, <1>12 DEF IInv

(* A handler moves between states in which it holds neither the lock nor a *)
(* response.                                                               *)
LEMMA MoveKeeps ==
    ASSUME IInv, NEW h \in Handlers, NEW s \in {"idle", "check"},
           hpc[h] # "commit", up, hpc' = [hpc EXCEPT ![h] = s],
           UNCHANGED <<diskVars, up, mem, poisoned, cand, resp, histVars>>
    PROVE  IInv'
  <1>1. /\ hpc'[h] = s /\ \A g \in Handlers : g # h => hpc'[g] = hpc[g]
        /\ \A g \in Handlers : hpc'[g] = "commit" <=> hpc[g] = "commit"
    BY DEF IInv, TypeOK
  <1>2. TypeOK'
    BY DEF IInv, TypeOK, diskVars, histVars
  <1>3. LaidOK' /\ DownOK' /\ CommitOK' /\ MemOK' /\ DecidedOK'
    BY <1>1 DEF IInv, LaidOK, DownOK, CommitOK, MemOK, DecidedOK, LockFree, diskVars, histVars
  <1>4. DisksOK'
    BY <1>1 DEF IInv, DisksOK, diskVars, histVars
  <1> QED BY <1>2, <1>3, <1>4 DEF IInv

LEMMA HandleKeeps ==
    ASSUME IInv, NEW h \in Handlers, Handle(h)
    PROVE  IInv'
  <1>1. ASSUME NEW q \in Readers, AllPage(h, q) PROVE IInv'
    BY <1>1, MoveKeeps DEF AllPage, Ready, histVars
  <1>2. CASE CheckPoisoned(h)
    <2>1. CASE poisoned
      <3>1. ProcessEnds /\ UNCHANGED <<laid, initing, file, disks, acked, decided>>
        BY <1>2, <2>1 DEF CheckPoisoned, diskVars, histVars
      <3>2. initing' \in BOOLEAN
        BY <3>1 DEF IInv, TypeOK
      <3> QED BY <3>1, <3>2, EndKeeps
    <2>2. CASE ~poisoned
      BY <1>2, <2>2, MoveKeeps DEF CheckPoisoned
    <2> QED BY <2>1, <2>2
  <1>3. ASSUME NEW ids \in SUBSET (1 .. MaxId), NEW status \in {"Approved", "Deleted"},
               moderate(h, ids, status)
        PROVE  IInv'
    BY <1>3, ModerateKeeps
  <1>4. ASSUME NEW t \in Targets, NEW x \in Texts, NEW ip \in Ips,
               NEW n \in 0 .. MaxId, NEW r \in 0 .. MaxId, NEW now \in Clock,
               submit(h, t, x, ip, n, r, now)
        PROVE  IInv'
    BY <1>4, SubmitKeeps
  <1> QED BY <1>1, <1>2, <1>3, <1>4, QuietKeeps, SyncedKeeps, PoisonKeeps, ReplyKeeps DEF Handle

-----------------------------------------------------------------------------
(* The steps of nobody's request. *)

LEMMA StutterKeeps == IInv /\ UNCHANGED <<diskVars, serverVars, histVars>> => IInv'
  <1> SUFFICES ASSUME IInv, UNCHANGED <<diskVars, serverVars, histVars>> PROVE IInv'
    OBVIOUS
  <1>1. TypeOK'
    BY DEF IInv, TypeOK, diskVars, serverVars, histVars
  <1>2. LaidOK' /\ DownOK' /\ CommitOK' /\ MemOK' /\ DecidedOK'
    BY DEF IInv, LaidOK, DownOK, CommitOK, MemOK, DecidedOK, LockFree,
           diskVars, serverVars, histVars
  <1>3. DisksOK'
    BY DEF IInv, DisksOK, diskVars, serverVars, histVars
  <1> QED BY <1>1, <1>2, <1>3 DEF IInv

LEMMA InitStoreKeeps == IInv /\ init => IInv'
  <1> SUFFICES ASSUME IInv, init PROVE IInv'
    OBVIOUS
  <1>1. laid' \in 0 .. 3 /\ LaidOK'
    <2>1. laid \in 0 .. 2
      BY DEF IInv, TypeOK, LaidOK, init
    <2>2. laid' \in 1 .. 3 /\ (laid + 1 < 3 => laid' \in {1, 2})
      BY <2>1 DEF init
    <2>3. initing' => laid + 1 < 3
      BY DEF init
    <2> QED BY <2>2, <2>3 DEF LaidOK
  <1>2. initing' \in BOOLEAN
    BY DEF init
  <1>3. UNCHANGED <<file, disks, up, mem, poisoned, hpc, cand, resp, acked, decided>>
    BY DEF init, serverVars, histVars
  <1>4. TypeOK'
    BY <1>1, <1>2, <1>3 DEF IInv, TypeOK
  <1>5. DownOK' /\ CommitOK' /\ MemOK' /\ DecidedOK'
    BY <1>3 DEF IInv, DownOK, CommitOK, MemOK, DecidedOK, LockFree
  <1>6. DisksOK'
    BY <1>3 DEF IInv, DisksOK
  <1> QED BY <1>1, <1>4, <1>5, <1>6 DEF IInv

LEMMA OpenKeeps == IInv /\ open => IInv'
  <1> SUFFICES ASSUME IInv, open PROVE IInv'
    OBVIOUS
  <1>1. TypeOK'
    BY DEF IInv, TypeOK, open, diskVars, histVars
  <1>2. LaidOK' /\ DownOK' /\ CommitOK' /\ MemOK' /\ DecidedOK'
    BY DEF IInv, LaidOK, DownOK, CommitOK, MemOK, DecidedOK, open, diskVars, histVars
  <1>3. DisksOK'
    BY DEF IInv, DisksOK, open, diskVars, histVars
  <1> QED BY <1>1, <1>2, <1>3 DEF IInv

(* What a power loss leaves behind is one of the versions in disks. *)
LEMMA PowerLossKeeps == IInv /\ PowerLoss => IInv'
  <1> SUFFICES ASSUME IInv, PowerLoss PROVE IInv'
    OBVIOUS
  <1>1. PICK d \in disks : file' = d /\ disks' = {d}
    BY DEF PowerLoss
  <1>2. UNCHANGED <<laid, acked, decided>> /\ ~initing' /\ initing' \in BOOLEAN
    BY DEF PowerLoss, histVars
  <1>3. CASE up
    BY <1>1, <1>2, <1>3, EndKeeps DEF PowerLoss
  <1>4. CASE ~up
    <2>1. UNCHANGED <<up, mem, poisoned, hpc, cand, resp>>
      BY <1>4 DEF PowerLoss, serverVars
    <2>2. d \in Seq(Comments)
      BY DEF IInv, TypeOK
    <2>3. TypeOK'
      BY <1>1, <1>2, <2>1, <2>2 DEF IInv, TypeOK
    <2>4. LaidOK' /\ DownOK' /\ CommitOK' /\ MemOK' /\ DecidedOK'
      BY <1>2, <1>4, <2>1 DEF IInv, LaidOK, DownOK, CommitOK, MemOK, DecidedOK
    <2>5. DisksOK'
      BY <1>1, <1>2, <2>1, <2>2, EarlierRefl DEF IInv, DisksOK
    <2> QED BY <2>3, <2>4, <2>5 DEF IInv
  <1> QED BY <1>3, <1>4

LEMMA NextIInv == IInv /\ [Next]_vars => IInv'
  <1> SUFFICES ASSUME IInv, [Next]_vars PROVE IInv'
    OBVIOUS
  <1>1. ASSUME NEW q \in Readers, AllStart(q) \/ AllFails(q) PROVE IInv'
    BY <1>1, StutterKeeps DEF AllStart, AllFails
  <1>2. CASE Crash
    <2>1. ProcessEnds /\ UNCHANGED <<laid, initing, file, disks, acked, decided>>
      BY <1>2 DEF Crash, diskVars, histVars
    <2>2. initing' \in BOOLEAN
      BY <2>1 DEF IInv, TypeOK
    <2> QED BY <2>1, <2>2, EndKeeps
  <1>3. CASE UNCHANGED vars
    BY <1>3, StutterKeeps DEF vars
  <1>4. ASSUME NEW h \in Handlers, Handle(h) PROVE IInv'
    BY <1>4, HandleKeeps
  <1> QED BY <1>1, <1>2, <1>3, <1>4, InitStoreKeeps, OpenKeeps, PowerLossKeeps DEF Next

(* The inductive invariant holds in every state of the server. *)
THEOREM InductiveInvariant == Spec => []IInv
  BY InitIInv, NextIInv, PTL DEF Spec

-----------------------------------------------------------------------------
(* Type correctness; in particular Store::submit never hands out an id     *)
(* above u64::MAX.                                                         *)
THEOREM TypeCorrect == Spec => []TypeOK
  <1>1. IInv => TypeOK
    BY DEF IInv
  <1> QED BY <1>1, InductiveInvariant, PTL

(* Whatever a crash or a power loss leaves of comments.jsonl, Store::open  *)
(* accepts it.                                                             *)
THEOREM OpenAlwaysSucceeds == Spec => []OpenSucceeds
  <1>1. IInv => OpenSucceeds
    <2> SUFFICES ASSUME IInv, NEW d \in disks \cup {file} PROVE Valid(d)
      BY DEF OpenSucceeds
    <2>1. d \in Seq(Comments) /\ Sorted(d) /\ RelationsHold(d)
      BY DEF IInv, TypeOK, DisksOK, Sound
    <2> QED BY <2>1, SortedIncreases DEF Valid
  <1> QED BY <1>1, InductiveInvariant, PTL

(* The rate limit of Store::submit holds for whatever is on the disk,      *)
(* across moderation, restarts, power losses and a clock that steps back.  *)
THEOREM RateLimitHolds == Spec => []RateLimited
  <1>1. IInv => RateLimited
    BY DEF IInv, DisksOK, Sound, Limited, RateLimited
  <1> QED BY <1>1, InductiveInvariant, PTL

-----------------------------------------------------------------------------
(* The refinement: the contents of the data file are the list.             *)

(* A commit adds a comment at the end of the list ... *)
LEMMA SubmitSimulates ==
    ASSUME IInv, NEW h \in Handlers, NEW t \in Targets, NEW x \in Texts, NEW ip \in Ips,
           NEW n \in 0 .. MaxId, NEW r \in 0 .. MaxId, NEW now \in Clock,
           submit(h, t, x, ip, n, r, now)
    PROVE  [Log!Next]_(Log!vars)
  <1> DEFINE c == Submitted(mem, t, x, ip, r, now)
  <1>1. /\ Ready(h) /\ ~poisoned /\ Accepts(mem, t, x, ip, n, r, now)
        /\ file' = Append(mem, c) \/ file' = file
        /\ UNCHANGED <<acked, decided>>
    BY DEF submit, Submitted, Commit, diskVars, histVars
  <1>2. mem = file /\ mem \in Seq(Comments) /\ Sound(mem)
    BY <1>1 DEF IInv, TypeOK, MemOK, DisksOK, Ready
  <1>3. /\ c \in Comments /\ \A i \in DOMAIN mem : mem[i].id < c.id
        /\ r # 0 => \E i \in DOMAIN mem : /\ mem[i].id = r /\ mem[i].target = t
                                           /\ mem[i].status = "Approved"
    BY <1>1, <1>2, SubmitMakes
  <1>4. c.status = "Pending" /\ c.reply = r /\ c.target = t
    BY DEF Submitted
  <1> HIDE DEF c
  <1>5. CASE file' = Append(mem, c)
    <2>1. Log!Add(c)
      BY <1>1, <1>2, <1>3, <1>4, <1>5 DEF Log!Add
    <2>2. c \in Log!Comments
      BY <1>3 DEF Comments, Statuses, Log!Comments, Log!Statuses
    <2> QED BY <2>1, <2>2 DEF Log!Next
  <1>6. CASE file' = file
    BY <1>1, <1>6 DEF Log!vars
  <1> QED BY <1>1, <1>5, <1>6

(* ... or decides pending comments ... *)
LEMMA ModerateSimulates ==
    ASSUME IInv, NEW h \in Handlers, NEW ids \in SUBSET (1 .. MaxId),
           NEW s \in {"Approved", "Deleted"}, moderate(h, ids, s)
    PROVE  [Log!Next]_(Log!vars)
  <1> DEFINE m == Moderated(mem, ids, s)
  <1>1. /\ Ready(h) /\ ~poisoned /\ UNCHANGED <<acked, decided>>
        /\ file' = m \/ file' = file
    BY DEF moderate, Commit, diskVars, histVars
  <1>2. mem = file /\ mem \in Seq(Comments) /\ s \in Statuses
    BY <1>1 DEF IInv, TypeOK, MemOK, Ready, Statuses
  <1>3. DOMAIN m = DOMAIN mem /\ \A i \in DOMAIN mem : Decides(mem[i], m[i], ids, s)
    BY <1>2, ModeratedFields
  <1> HIDE DEF m
  <1>4. CASE file' = m
    <2>1. \A i \in DOMAIN file :
             \/ m[i] = file[i]
             \/ file[i].status = "Pending" /\ m[i] = WithStatus(file[i], s)
      BY <1>2, <1>3 DEF Decides
    <2>2. Log!Decide(s)
      BY <1>1, <1>2, <1>3, <1>4, <2>1, Zenon DEF Log!Decide, WithStatus
    <2> QED BY <2>2 DEF Log!Next
  <1>5. CASE file' = file
    BY <1>1, <1>5 DEF Log!vars
  <1> QED BY <1>1, <1>4, <1>5

(* ... a delivered response is an acknowledgement, and the list has what   *)
(* it speaks of ...                                                        *)
LEMMA ReplySimulates ==
    ASSUME IInv, IInv', NEW h \in Handlers, Reply(h)
    PROVE  Log!Acknowledge
  <1>1. file' = file /\ acked \subseteq acked' /\ decided \subseteq decided'
    BY DEF Reply, diskVars
  <1>2. file' \in disks'
    BY DEF IInv, DisksOK
  <1>3. (\A c \in acked' : Log!Has(file, c)) /\ (\A e \in decided' : Log!Decision(file, e))
    BY <1>1, <1>2 DEF IInv, DisksOK
  <1> QED BY <1>1, <1>3 DEF Log!Acknowledge

(* ... and a power loss takes the list back to a version that has all that *)
(* was acknowledged.                                                       *)
LEMMA PowerLossSimulates == IInv /\ PowerLoss => Log!Forget
  <1> SUFFICES ASSUME IInv, PowerLoss PROVE Log!Forget
    OBVIOUS
  <1>1. PICK d \in disks : file' = d
    BY DEF PowerLoss
  <1>2. /\ Earlier(d, file) /\ UNCHANGED <<acked, decided>>
        /\ \A c \in acked : Log!Has(d, c)
        /\ \A e \in decided : Log!Decision(d, e)
    BY DEF IInv, DisksOK, PowerLoss, histVars
  <1> QED BY <1>1, <1>2 DEF Log!Forget, Earlier

(* Every step of commentd is a step of CommentLog or does not touch it. *)
LEMMA NextSimulates == IInv /\ IInv' /\ [Next]_vars => [Log!Next]_(Log!vars)
  <1> SUFFICES ASSUME IInv, IInv', [Next]_vars PROVE [Log!Next]_(Log!vars)
    OBVIOUS
  <1>1. ASSUME NEW h \in Handlers, Handle(h) PROVE [Log!Next]_(Log!vars)
    <2>1. CASE \E t \in Targets, x \in Texts, ip \in Ips, n, r \in 0 .. MaxId, now \in Clock :
                  submit(h, t, x, ip, n, r, now)
      BY <2>1, SubmitSimulates
    <2>2. CASE \E ids \in SUBSET (1 .. MaxId), status \in {"Approved", "Deleted"} :
                  ids # {} /\ moderate(h, ids, status)
      BY <2>2, ModerateSimulates
    <2>3. CASE Reply(h)
      BY <2>3, ReplySimulates DEF Log!Next
    <2>4. CASE SubmitReject(h) \/ RefusePoisoned(h) \/ public_query(h)
      BY <2>4 DEF SubmitReject, RefusePoisoned, public_query, diskVars, histVars, Log!vars
    <2>5. CASE \E q \in Readers : AllPage(h, q)
      BY <2>5 DEF AllPage, diskVars, Log!vars
    <2>6. CASE CommitSynced(h) \/ CommitPoisons(h) \/ CheckPoisoned(h)
      BY <2>6 DEF CommitSynced, CommitPoisons, CheckPoisoned, diskVars, histVars, Log!vars
    <2> QED BY <1>1, <2>1, <2>2, <2>3, <2>4, <2>5, <2>6 DEF Handle
  <1>2. CASE PowerLoss
    BY <1>2, PowerLossSimulates DEF Log!Next
  <1>3. CASE init \/ open \/ Crash \/ UNCHANGED vars
    BY <1>3 DEF init, open, Crash, vars, diskVars, histVars, Log!vars
  <1>4. CASE \E q \in Readers : AllStart(q) \/ AllFails(q)
    BY <1>4 DEF AllStart, AllFails, diskVars, histVars, Log!vars
  <1> QED BY <1>1, <1>2, <1>3, <1>4 DEF Next

(* commentd implements CommentLog: comments are appended in the order of   *)
(* their ids and decided once, an acknowledgement speaks of what the file  *)
(* holds, and nothing acknowledged is lost by a crash or a power loss.     *)
THEOREM Refinement == Spec => RefinesLog
  <1>1. Init => Log!Init
    BY DEF Init, Log!Init
  <1> QED BY <1>1, NextSimulates, InductiveInvariant, PTL DEF Spec, RefinesLog, Log!Spec

-----------------------------------------------------------------------------
(* Induction, from the order of the numbers being well-founded. *)

(* Every nonempty set of numbers has a least element. *)
LEMMA Least ==
    ASSUME NEW T \in SUBSET Nat, T # {}
    PROVE  \E x \in T : \A y \in T : x <= y
  <1>1. PICK x \in T : \A y \in T : ~ (<<y, x>> \in OpToRel(<, Nat))
    BY NatLessThanWellFounded, WFMin
  <1>2. ASSUME NEW y \in T PROVE x <= y
    <2>1. y < x => <<y, x>> \in {ss \in Nat \X Nat : ss[1] < ss[2]}
      OBVIOUS
    <2>2. y < x => <<y, x>> \in OpToRel(<, Nat)
      BY <2>1 DEF OpToRel
    <2>3. ~(y < x)
      BY <1>1, <2>2, Zenon
    <2> QED BY <2>3
  <1> QED BY <1>2

(* Induction up to a bound, for a set in place of a predicate. *)
LEMMA Induction ==
    ASSUME NEW n \in Nat, NEW T, 0 \in T,
           \A k \in 0 .. n : k \in T /\ k + 1 \in 0 .. n => k + 1 \in T
    PROVE  \A k \in 0 .. n : k \in T
  <1>1. ASSUME (0 .. n) \ T # {} PROVE FALSE
    <2> DEFINE U == (0 .. n) \ T
    <2>1. U \in SUBSET Nat /\ U # {}
      BY <1>1
    <2>2. PICK x \in U : \A y \in U : x <= y
      <3> HIDE DEF U
      <3> QED BY <2>1, Least
    <2>3. x # 0 /\ x - 1 \in 0 .. n /\ ~(x <= x - 1) /\ (x - 1) + 1 = x
      BY <2>2
    <2> QED BY <2>2, <2>3
  <1> QED BY <1>1

-----------------------------------------------------------------------------
(* Filter, by induction over the list of comments. *)

(* f holds what Filter has kept of the first i comments. *)
Filters(f, cs, I, n) ==
    f = [i \in 0 .. n |-> IF i = 0 THEN <<>>
                          ELSE IF i \in I THEN Append(f[i - 1], cs[i]) ELSE f[i - 1]]

(* The comment k + 1 is kept or not. *)
Decided(f, cs, I, k) == f[k + 1] = IF k + 1 \in I THEN Append(f[k], cs[k + 1]) ELSE f[k]

(* What it has after one more comment. *)
LEMMA FiltersStep ==
    ASSUME NEW n \in Nat, NEW cs, NEW I, NEW f, Filters(f, cs, I, n)
    PROVE  f[0] = <<>> /\ \A k \in Nat : k + 1 \in 0 .. n => Decided(f, cs, I, k)
  <1>1. 0 \in 0 .. n
    OBVIOUS
  <1>2. f[0] = <<>>
    BY <1>1, Zenon DEF Filters
  <1>3. ASSUME NEW k \in Nat, k + 1 \in 0 .. n
        PROVE  Decided(f, cs, I, k)
    <2>1. k + 1 # 0 /\ (k + 1) - 1 = k
      OBVIOUS
    <2>2. f[k + 1] = IF k + 1 = 0 THEN <<>>
                     ELSE IF k + 1 \in I THEN Append(f[(k + 1) - 1], cs[k + 1]) ELSE f[(k + 1) - 1]
      BY <1>3, Zenon DEF Filters
    <2> QED BY <2>1, <2>2, Zenon DEF Decided
  <1> QED BY <1>2, <1>3

(* Such a gathering can be carried one comment on ... *)
LEMMA FiltersMore ==
    ASSUME NEW cs, NEW I, NEW n \in Nat, NEW f, Filters(f, cs, I, n)
    PROVE  \E g : Filters(g, cs, I, n + 1)
  <1> DEFINE g == [i \in 0 .. n + 1 |-> IF i = 0 THEN <<>>
                     ELSE IF i \in I THEN Append(f[i - 1], cs[i]) ELSE f[i - 1]]
  <1>1. ASSUME NEW i \in 0 .. n PROVE g[i] = f[i]
    <2>1. f[i] = IF i = 0 THEN <<>> ELSE IF i \in I THEN Append(f[i - 1], cs[i]) ELSE f[i - 1]
      BY Zenon DEF Filters
    <2>2. i \in 0 .. n + 1
      OBVIOUS
    <2> QED BY <2>1, <2>2, Zenon
  <1>2. \A i \in 0 .. n + 1 : i # 0 => i - 1 \in 0 .. n
    OBVIOUS
  <1>3. g = [i \in 0 .. n + 1 |-> IF i = 0 THEN <<>>
                     ELSE IF i \in I THEN Append(g[i - 1], cs[i]) ELSE g[i - 1]]
    BY <1>1, <1>2
  <1> HIDE DEF g
  <1> QED BY <1>3 DEF Filters

(* ... so there is one for every length. *)
LEMMA FiltersExists ==
    ASSUME NEW cs, NEW I, NEW n \in Nat
    PROVE  \E f : Filters(f, cs, I, n)
  <1> DEFINE T == {k \in Nat : \E f : Filters(f, cs, I, k)}
  <1>1. 0 \in T
    <2> DEFINE f == [i \in 0 .. 0 |-> <<>>]
    <2>1. \A i \in 0 .. 0 : i = 0
      OBVIOUS
    <2>2. f = [i \in 0 .. 0 |-> IF i = 0 THEN <<>>
                          ELSE IF i \in I THEN Append(f[i - 1], cs[i]) ELSE f[i - 1]]
      BY <2>1, Zenon
    <2> HIDE DEF f
    <2>3. Filters(f, cs, I, 0)
      BY <2>2, Zenon DEF Filters
    <2> QED BY <2>3
  <1>2. \A k \in T : k + 1 \in T
    BY FiltersMore
  <1>3. n \in T
    <2> HIDE DEF T
    <2>1. \A k \in 0 .. n : k \in T /\ k + 1 \in 0 .. n => k + 1 \in T
      BY <1>2
    <2>2. \A k \in 0 .. n : k \in T
      BY <1>1, <2>1, Induction, Zenon
    <2> QED BY <2>2
  <1> QED BY <1>3

(* Filter is the last of such a gathering. *)
LEMMA FilterIs ==
    ASSUME NEW S, NEW cs \in Seq(S), NEW I
    PROVE  \E f : Filters(f, cs, I, Len(cs)) /\ Filter(cs, I) = f[Len(cs)]
  <1> DEFINE F == CHOOSE f : Filters(f, cs, I, Len(cs))
  <1>1. Len(cs) \in Nat
    OBVIOUS
  <1>2. Filters(F, cs, I, Len(cs))
    BY <1>1, FiltersExists, Zenon
  <1>3. Filter(cs, I) = F[Len(cs)]
    BY DEF Filter, Filters
  <1> QED BY <1>2, <1>3, Zenon

(* Every part that was kept is a sequence of comments, as long as the set. *)
Kept(f, cs, I, S) ==
    \A k \in 0 .. Len(cs) : f[k] \in Seq(S) /\ Len(f[k]) = Cardinality({j \in I : j \in 1 .. k})

(* From index m on, f is what it was there and then what g kept. *)
Continues(f, g, cs, m) == \A k \in m .. Len(cs) : f[k] = f[m] \o g[k]

(* Each comment of the result is the last one kept up to some index. *)
Located(f, cs, I) ==
    \A k \in 0 .. Len(cs) : \A i \in 1 .. Len(f[k]) :
        \E m \in 1 .. k : m \in I /\ Len(f[m]) = i /\ f[k][i] = cs[m]

(* By induction: its parts are sequences of comments, one for each index   *)
(* kept.                                                                   *)
LEMMA FiltersType ==
    ASSUME NEW S, NEW cs \in Seq(S), NEW I, NEW f, Filters(f, cs, I, Len(cs))
    PROVE  Kept(f, cs, I, S)
  <1> DEFINE n == Len(cs)
             R(k) == {j \in I : j \in 1 .. k}
             P(k) == f[k] \in Seq(S) /\ IsFiniteSet(R(k)) /\ Len(f[k]) = Cardinality(R(k))
             T == {k \in 0 .. n : P(k)}
  <1>1. n \in Nat
    OBVIOUS
  <1>2. P(0)
    <2>1. f[0] = <<>>
      BY <1>1, FiltersStep, Zenon
    <2>2. R(0) = {}
      OBVIOUS
    <2>3. IsFiniteSet({}) /\ Cardinality({}) = 0
      BY FS_EmptySet
    <2>4. <<>> \in Seq(S) /\ Len(<<>>) = 0
      OBVIOUS
    <2> HIDE DEF R
    <2> QED BY <2>1, <2>2, <2>3, <2>4
  <1>3. ASSUME NEW k \in 0 .. n, P(k), k + 1 \in 0 .. n PROVE P(k + 1)
    <2>1. k \in Nat /\ cs[k + 1] \in S
      BY <1>1, <1>3
    <2>2. f[k + 1] = IF k + 1 \in I THEN Append(f[k], cs[k + 1]) ELSE f[k]
      <3>1. Decided(f, cs, I, k)
        BY <1>1, <1>3, <2>1, FiltersStep, Zenon
      <3> QED BY <3>1 DEF Decided
    <2>3. f[k] \in Seq(S) /\ IsFiniteSet(R(k)) /\ Len(f[k]) = Cardinality(R(k))
      BY <1>3
    <2>4. CASE k + 1 \in I
      <3>1. R(k + 1) = R(k) \cup {k + 1} /\ k + 1 \notin R(k)
        BY <2>1, <2>4
      <3> HIDE DEF R
      <3>2. IsFiniteSet(R(k + 1)) /\ Cardinality(R(k + 1)) = Cardinality(R(k)) + 1
        BY <2>3, <3>1, FS_AddElement
      <3>3. f[k + 1] \in Seq(S) /\ Len(f[k + 1]) = Len(f[k]) + 1
        BY <2>1, <2>2, <2>3, <2>4
      <3> QED BY <2>3, <3>2, <3>3
    <2>5. CASE k + 1 \notin I
      <3>1. R(k + 1) = R(k)
        BY <2>1, <2>5
      <3> HIDE DEF R
      <3> QED BY <2>2, <2>3, <2>5, <3>1
    <2> QED BY <2>4, <2>5
  <1> HIDE DEF P, n
  <1>4. 0 \in T /\ \A k \in 0 .. n : k \in T /\ k + 1 \in 0 .. n => k + 1 \in T
    BY <1>1, <1>2, <1>3
  <1>5. \A k \in 0 .. n : k \in T
    <2> HIDE DEF T
    <2> QED BY <1>1, <1>4, Induction, Zenon
  <1>6. \A k \in 0 .. n : P(k)
    BY <1>5
  <1> QED BY <1>6 DEF P, n, Kept

(* Filtering the comments up to m and those after it. *)
LEMMA FiltersSplit ==
    ASSUME NEW S, NEW cs \in Seq(S), NEW I, NEW f, Filters(f, cs, I, Len(cs)),
           NEW m \in 0 .. Len(cs), NEW g, NEW J, Filters(g, cs, J, Len(cs)),
           J = {i \in I : i > m}
    PROVE  Continues(f, g, cs, m)
  <1> DEFINE n == Len(cs)
             T == {k \in 0 .. n : IF k <= m THEN g[k] = <<>> ELSE f[k] = f[m] \o g[k]}
  <1>1. n \in Nat /\ m \in Nat /\ m <= n
    OBVIOUS
  <1>2. \A k \in 0 .. n : f[k] \in Seq(S)
    BY FiltersType, Zenon DEF Kept
  <1>3. \A k \in 0 .. n : g[k] \in Seq(S)
    BY FiltersType, Zenon DEF Kept
  <1>4. f[m] \in Seq(S)
    BY <1>2
  <1>5. f[m] \o <<>> = f[m]
    BY <1>4
  <1>6. 0 \in T
    <2>1. g[0] = <<>>
      BY <1>1, FiltersStep, Zenon
    <2> QED BY <1>1, <2>1
  <1>7. ASSUME NEW k \in 0 .. n, k \in T, k + 1 \in 0 .. n PROVE k + 1 \in T
    <2>1. k \in Nat /\ cs[k + 1] \in S
      BY <1>1, <1>7
    <2>2. /\ f[k + 1] = IF k + 1 \in I THEN Append(f[k], cs[k + 1]) ELSE f[k]
          /\ g[k + 1] = IF k + 1 \in J THEN Append(g[k], cs[k + 1]) ELSE g[k]
      <3>1. Decided(f, cs, I, k) /\ Decided(g, cs, J, k)
        BY <1>1, <1>7, <2>1, FiltersStep, Zenon
      <3> QED BY <3>1 DEF Decided
    <2>3. CASE k + 1 <= m
      <3>1. k <= m /\ k + 1 \notin J
        BY <1>1, <2>1, <2>3
      <3>2. g[k] = <<>>
        BY <1>7, <3>1
      <3> QED BY <1>7, <2>2, <2>3, <3>1, <3>2
    <2>4. CASE ~(k + 1 <= m)
      <3>1. f[k] = f[m] \o g[k]
        <4>1. CASE k <= m
          <5>1. k = m
            BY <1>1, <2>1, <2>4, <4>1
          <5> QED BY <1>5, <1>7, <4>1, <5>1
        <4>2. CASE ~(k <= m)
          BY <1>7, <4>2
        <4> QED BY <4>1, <4>2
      <3>2. k + 1 \in J <=> k + 1 \in I
        BY <1>1, <2>1, <2>4
      <3>3. g[k] \in Seq(S)
        BY <1>3, <1>7
      <3>4. Append(f[m] \o g[k], cs[k + 1]) = f[m] \o Append(g[k], cs[k + 1])
        <4> DEFINE a == f[m]
                   b == g[k]
                   c == cs[k + 1]
        <4>1. a \in Seq(S) /\ b \in Seq(S) /\ c \in S
          BY <1>4, <2>1, <3>3
        <4> HIDE DEF a, b, c
        <4>2. Append(a \o b, c) = a \o Append(b, c)
          <5>1. Append(a \o b, c) = (a \o b) \o <<c>> /\ Append(b, c) = b \o <<c>> /\ <<c>> \in Seq(S)
            BY <4>1, AppendIsConcat, ConcatProperties
          <5>2. (a \o b) \o <<c>> = a \o (b \o <<c>>)
            BY <4>1, <5>1, ConcatAssociative, SMTT(30)
          <5> QED BY <5>1, <5>2
        <4> QED BY <4>2 DEF a, b, c
      <3>5. f[k + 1] = f[m] \o g[k + 1]
        BY <2>2, <3>1, <3>2, <3>4, Zenon
      <3> QED BY <1>7, <2>4, <3>5
    <2> QED BY <2>3, <2>4
  <1>8. \A k \in 0 .. n : k \in T
    <2>1. \A k \in 0 .. n : k \in T /\ k + 1 \in 0 .. n => k + 1 \in T
      BY <1>7
    <2> HIDE DEF T, n
    <2> QED BY <1>1, <1>6, <2>1, Induction, Zenon
  <1>9. ASSUME NEW k \in m .. n PROVE f[k] = f[m] \o g[k]
    <2>1. k \in 0 .. n /\ (k <= m => k = m)
      BY <1>1
    <2>2. IF k <= m THEN g[k] = <<>> ELSE f[k] = f[m] \o g[k]
      BY <1>8, <2>1
    <2> QED BY <1>5, <2>1, <2>2
  <1> QED BY <1>9 DEF Continues

(* Each comment of the result is the last one kept up to some index. *)
LEMMA FiltersAt ==
    ASSUME NEW S, NEW cs \in Seq(S), NEW I, NEW f, Filters(f, cs, I, Len(cs))
    PROVE  Located(f, cs, I)
  <1> DEFINE n == Len(cs)
             At(k, i) == \E m \in 1 .. k : m \in I /\ Len(f[m]) = i /\ f[k][i] = cs[m]
             T == {k \in 0 .. n : \A i \in 1 .. Len(f[k]) : At(k, i)}
  <1>1. n \in Nat
    OBVIOUS
  <1>2. \A k \in 0 .. n : f[k] \in Seq(S)
    BY FiltersType, Zenon DEF Kept
  <1>3. 0 \in T
    <2>1. f[0] = <<>>
      BY <1>1, FiltersStep, Zenon
    <2> QED BY <1>1, <2>1
  <1>4. ASSUME NEW k \in 0 .. n, k \in T, k + 1 \in 0 .. n PROVE k + 1 \in T
    <2>1. k \in Nat /\ cs[k + 1] \in S
      BY <1>1, <1>4
    <2>2. f[k + 1] = IF k + 1 \in I THEN Append(f[k], cs[k + 1]) ELSE f[k]
      <3>1. Decided(f, cs, I, k)
        BY <1>1, <1>4, <2>1, FiltersStep, Zenon
      <3> QED BY <3>1 DEF Decided
    <2>3. ASSUME NEW i \in 1 .. Len(f[k]), f[k + 1][i] = f[k][i] PROVE At(k + 1, i)
      <3>1. PICK m \in 1 .. k : m \in I /\ Len(f[m]) = i /\ f[k][i] = cs[m]
        BY <1>4
      <3>2. m \in 1 .. k + 1
        BY <2>1
      <3> QED BY <2>3, <3>1, <3>2
    <2>4. CASE k + 1 \in I
      <3>1. /\ Len(f[k + 1]) = Len(f[k]) + 1 /\ Len(f[k]) \in Nat
            /\ \A i \in 1 .. Len(f[k]) : f[k + 1][i] = f[k][i]
            /\ f[k + 1][Len(f[k]) + 1] = cs[k + 1]
        BY <1>2, <1>4, <2>1, <2>2, <2>4
      <3>2. k + 1 \in 1 .. k + 1
        BY <2>1
      <3>3. At(k + 1, Len(f[k + 1]))
        BY <2>4, <3>1, <3>2
      <3> HIDE DEF At
      <3>4. \A i \in 1 .. Len(f[k + 1]) : i \in 1 .. Len(f[k]) \/ i = Len(f[k + 1])
        BY <3>1
      <3> QED BY <1>4, <2>3, <3>1, <3>3, <3>4
    <2>5. CASE k + 1 \notin I
      <3> HIDE DEF At
      <3> QED BY <1>4, <2>2, <2>3, <2>5
    <2> QED BY <2>4, <2>5
  <1>5. \A k \in 0 .. n : k \in T
    <2>1. \A k \in 0 .. n : k \in T /\ k + 1 \in 0 .. n => k + 1 \in T
      BY <1>4
    <2> HIDE DEF T, n
    <2> QED BY <1>1, <1>3, <2>1, Induction, Zenon
  <1> QED BY <1>5 DEF Located

(* The result is a sequence of what the list holds. *)
LEMMA FilterType ==
    ASSUME NEW S, NEW cs \in Seq(S), NEW I
    PROVE  Filter(cs, I) \in Seq(S)
  <1>1. PICK f : Filters(f, cs, I, Len(cs)) /\ Filter(cs, I) = f[Len(cs)]
    BY FilterIs
  <1>2. Len(cs) \in 0 .. Len(cs)
    OBVIOUS
  <1>3. Kept(f, cs, I, S)
    BY <1>1, FiltersType, Zenon
  <1> QED BY <1>1, <1>2, <1>3 DEF Kept

(* The front of a concatenation. *)
LEMMA FrontOfConcat ==
    ASSUME NEW S, NEW a \in Seq(S), NEW b \in Seq(S)
    PROVE  SubSeq(a \o b, 1, Len(a)) = a
  OBVIOUS

(* A page and what comes after its last comment. *)
LEMMA PageAndRest ==
    ASSUME NEW cs \in Seq(Comments), Sorted(cs), NEW after \in Nat,
           NEW k \in 1 .. Len(ApprovedAfter(cs, after))
    PROVE  LET rest == ApprovedAfter(cs, after)
               page == SubSeq(rest, 1, k)
           IN  /\ page \in Seq(Comments) /\ Len(page) = k /\ page[k] \in Comments
               /\ page \o ApprovedAfter(cs, page[k].id) = rest
  <1> DEFINE n == Len(cs)
             I == {i \in DOMAIN cs : cs[i].status = "Approved" /\ cs[i].id > after}
             rest == ApprovedAfter(cs, after)
  <1>1. n \in Nat /\ DOMAIN cs = 1 .. n /\ n \in 0 .. n /\ \A i \in 1 .. n : cs[i] \in Comments
    OBVIOUS
  <1>2. PICK f : Filters(f, cs, I, n) /\ rest = f[n]
    <2>1. rest = Filter(cs, I)
      BY DEF ApprovedAfter
    <2> QED BY <2>1, FilterIs
  <1>3. PICK m \in 1 .. n : m \in I /\ Len(f[m]) = k /\ rest[k] = cs[m]
    <2> HIDE DEF I, rest
    <2>1. k \in 1 .. Len(f[n])
      BY <1>2 DEF rest
    <2>2. Located(f, cs, I)
      BY <1>2, FiltersAt, Zenon
    <2> QED BY <1>1, <1>2, <2>1, <2>2 DEF Located
  <1> DEFINE J == {i \in I : i > m}
  <1>4. PICK g : Filters(g, cs, J, n) /\ Filter(cs, J) = g[n]
    BY FilterIs
  <1>5. m \in 0 .. n /\ n \in m .. n
    BY <1>1
  <1>6. f[n] = f[m] \o g[n]
    <2> HIDE DEF I
    <2>1. Continues(f, g, cs, m)
      BY <1>2, <1>4, <1>5, FiltersSplit, Zenon
    <2> QED BY <1>5, <2>1 DEF Continues
  <1>7. f[m] \in Seq(Comments) /\ g[n] \in Seq(Comments)
    <2> HIDE DEF I, J
    <2>1. Kept(f, cs, I, Comments) /\ Kept(g, cs, J, Comments)
      BY <1>2, <1>4, FiltersType, Zenon
    <2> QED BY <1>1, <1>5, <2>1 DEF Kept
  <1>8. SubSeq(rest, 1, k) = f[m]
    <2> HIDE DEF rest
    <2> QED BY <1>2, <1>3, <1>6, <1>7, FrontOfConcat
  <1>9. f[m][k] = cs[m]
    <2>1. (f[m] \o g[n])[k] = f[m][k]
      <3> DEFINE a == f[m]
                 b == g[n]
      <3>1. a \in Seq(Comments) /\ b \in Seq(Comments) /\ k \in 1 .. Len(a)
        <4>1. Len(f[m]) = k /\ Len(f[m]) \in Nat /\ k >= 1
          BY <1>3, <1>7
        <4> QED BY <1>7, <4>1
      <3> HIDE DEF a, b
      <3>2. (a \o b)[k] = a[k]
        BY <3>1
      <3> QED BY <3>2 DEF a, b
    <2> HIDE DEF rest, I
    <2> QED BY <1>2, <1>3, <1>6, <2>1
  <1>10. J = {i \in DOMAIN cs : cs[i].status = "Approved" /\ cs[i].id > cs[m].id}
    <2>1. \A i \in 1 .. n : cs[i].id \in Nat
      BY <1>1 DEF Comments
    <2>2. \A i \in 1 .. n : i > m <=> cs[i].id > cs[m].id
      <3> TAKE i \in 1 .. n
      <3>1. i < m => cs[i].id < cs[m].id
        BY <1>1 DEF Sorted
      <3>2. m < i => cs[m].id < cs[i].id
        BY <1>1 DEF Sorted
      <3> QED BY <1>1, <2>1, <3>1, <3>2
    <2>3. cs[m].id > after
      BY <1>3
    <2>4. \A i \in 1 .. n : i > m => cs[i].id > after
      BY <2>1, <2>2, <2>3
    <2> QED BY <1>1, <2>2, <2>4
  <1>11. ApprovedAfter(cs, cs[m].id) = g[n]
    <2> HIDE DEF J
    <2> QED BY <1>4, <1>10, Zenon DEF ApprovedAfter
  <1> HIDE DEF rest
  <1>12. cs[m] \in Comments
    BY <1>1
  <1> QED BY <1>2, <1>3, <1>6, <1>7, <1>8, <1>9, <1>11, <1>12 DEF rest

(* The place of a kept comment in the result. *)
Rank(I, m) == Cardinality({j \in I : j <= m})

(* Later comments have later places. *)
LEMMA RankOrder ==
    ASSUME NEW n \in Nat, NEW I \in SUBSET (1 .. n), NEW j \in I, NEW m \in I, j < m
    PROVE  Rank(I, j) < Rank(I, m) /\ Rank(I, j) \in Nat /\ Rank(I, m) \in Nat
  <1> DEFINE A == {i \in I : i <= j}
             B == {i \in I : i <= m}
  <1>1. IsFiniteSet(1 .. n)
    BY FS_Interval
  <1>2. IsFiniteSet(B) /\ IsFiniteSet(A)
    BY <1>1, FS_Subset
  <1>3. m \notin A /\ A \cup {m} \subseteq B
    <2>1. I \subseteq Nat
      OBVIOUS
    <2>2. ~(m <= j) /\ m <= m /\ \A i \in I : i <= j => i <= m
      BY <2>1
    <2> QED BY <2>2, Zenon
  <1> HIDE DEF A, B
  <1>4. Cardinality(A \cup {m}) = Cardinality(A) + 1 /\ Cardinality(A \cup {m}) <= Cardinality(B)
    BY <1>2, <1>3, FS_AddElement, FS_Subset
  <1>5. Cardinality(A) \in Nat /\ Cardinality(B) \in Nat
    BY <1>2, FS_CardinalityType
  <1> QED BY <1>4, <1>5 DEF Rank, A, B

(* list holds the comments of I, each at its place, and nothing else. *)
Places(list, cs, I) ==
    /\ \A i \in 1 .. Len(list) : \E m \in I : Rank(I, m) = i /\ list[i] = cs[m]
    /\ \A m \in I : Rank(I, m) \in 1 .. Len(list) /\ list[Rank(I, m)] = cs[m]

(* Filter keeps the order. *)
LEMMA FilterPlaces ==
    ASSUME NEW S, NEW cs \in Seq(S), NEW I \in SUBSET (1 .. Len(cs))
    PROVE  Places(Filter(cs, I), cs, I)
  <1> DEFINE n == Len(cs)
             L == Filter(cs, I)
  <1>1. n \in Nat /\ n \in 0 .. n /\ \A i \in 1 .. n : cs[i] \in S
    OBVIOUS
  <1>2. PICK f : Filters(f, cs, I, n) /\ L = f[n]
    BY FilterIs
  <1>3. \A k \in 0 .. n : f[k] \in Seq(S) /\ Len(f[k]) = Cardinality({j \in I : j \in 1 .. k})
    <2>1. Kept(f, cs, I, S)
      BY <1>2, FiltersType, Zenon
    <2> QED BY <2>1, Zenon DEF Kept
  <1>4. \A m \in I : Len(f[m]) = Rank(I, m)
    <2> TAKE m \in I
    <2>1. m \in 1 .. n /\ I \subseteq 1 .. n
      OBVIOUS
    <2>2. \A j \in I : j \in 1 .. m <=> j <= m
      BY <1>1, <2>1
    <2>3. m \in 0 .. n
      BY <1>1, <2>1
    <2>4. {j \in I : j \in 1 .. m} = {j \in I : j <= m}
      BY <2>2, Zenon
    <2> QED BY <1>3, <2>3, <2>4, Zenon DEF Rank
  <1>5. ASSUME NEW i \in 1 .. Len(L) PROVE \E m \in I : Rank(I, m) = i /\ L[i] = cs[m]
    <2>1. i \in 1 .. Len(f[n])
      BY <1>2
    <2>2. PICK m \in 1 .. n : m \in I /\ Len(f[m]) = i /\ f[n][i] = cs[m]
      <3>1. Located(f, cs, I)
        BY <1>2, FiltersAt, Zenon
      <3> QED BY <1>1, <2>1, <3>1 DEF Located
    <2> QED BY <1>2, <1>4, <2>2
  <1>6. ASSUME NEW m \in I PROVE Rank(I, m) \in 1 .. Len(L) /\ L[Rank(I, m)] = cs[m]
    <2> DEFINE J == {i \in I : i > m}
               k == m - 1
    <2>1. m \in 0 .. n /\ n \in m .. n /\ k \in Nat /\ k \in 0 .. n /\ k + 1 = m /\ k + 1 \in 0 .. n
      BY <1>1
    <2>2. PICK g : Filters(g, cs, J, n)
      BY <1>1, FiltersExists, Zenon
    <2>3. f[n] = f[m] \o g[n]
      <3>1. Continues(f, g, cs, m)
        BY <1>2, <2>1, <2>2, FiltersSplit, Zenon
      <3> QED BY <2>1, <3>1 DEF Continues
    <2>4. Decided(f, cs, I, k)
      BY <1>1, <1>2, <2>1, FiltersStep, Zenon
    <2> HIDE DEF k
    <2>5. f[m] = Append(f[k], cs[m])
      BY <2>1, <2>4 DEF Decided
    <2>6. g[n] \in Seq(S)
      <3>1. Kept(g, cs, J, S)
        BY <2>2, FiltersType, Zenon
      <3> QED BY <1>1, <3>1 DEF Kept
    <2>7. f[k] \in Seq(S) /\ f[m] \in Seq(S) /\ cs[m] \in S
      BY <1>1, <1>3, <2>1
    <2> DEFINE a == f[m]
               b == g[n]
    <2>8. a \in Seq(S) /\ b \in Seq(S) /\ Len(a) >= 1 /\ Len(a) \in Nat /\ a[Len(a)] = cs[m]
      BY <2>5, <2>6, <2>7
    <2> HIDE DEF a, b
    <2>9. Len(a) \in 1 .. Len(a \o b) /\ (a \o b)[Len(a)] = a[Len(a)]
      BY <2>8
    <2>10. L = a \o b /\ Len(a) = Rank(I, m)
      BY <1>2, <1>4, <2>3 DEF a, b
    <2> HIDE DEF L
    <2> QED BY <2>8, <2>9, <2>10
  <1> QED BY <1>5, <1>6, Zenon DEF Places

(* The list of the public page and its numbers. *)
LEMMA PublicList ==
    ASSUME NEW cs \in Seq(Comments), Sorted(cs), RelationsHold(cs), NEW t
    PROVE  LET list == ApprovedOf(cs, t) IN
           /\ Visible(list)
           /\ \A i \in DOMAIN list : \E k \in resolve_reply_id(cs, t, VisibleNumber(list, i)) :
                 cs[k].id = list[i].id
  <1> DEFINE n == Len(cs)
             I == ApprovedIn(cs, t)
             list == ApprovedOf(cs, t)
             N == Len(list)
  <1>1. n \in Nat /\ DOMAIN cs = 1 .. n /\ \A i \in 1 .. n : cs[i] \in Comments
    OBVIOUS
  <1>2. /\ I \in SUBSET (1 .. n) /\ list = Filter(cs, I)
        /\ \A m \in I : cs[m] \in Comments /\ cs[m].status = "Approved" /\ cs[m].target = t
    BY <1>1 DEF ApprovedIn, ApprovedOf
  <1>3. list \in Seq(Comments)
    BY <1>2, FilterType
  <1>4. /\ \A i \in 1 .. N : \E m \in I : Rank(I, m) = i /\ list[i] = cs[m]
        /\ \A m \in I : Rank(I, m) \in 1 .. N /\ list[Rank(I, m)] = cs[m]
    <2>1. Places(list, cs, I)
      BY <1>2, FilterPlaces, Zenon
    <2> QED BY <2>1, Zenon DEF Places
  <1> HIDE DEF I, list
  <1>5. N \in Nat /\ DOMAIN list = 1 .. N /\ \A i \in 1 .. N : list[i] \in Comments
    BY <1>3
  <1>6. IdsIncrease(list)
    <2>1. ASSUME NEW i \in 1 .. N, i > 1 PROVE list[i - 1].id < list[i].id
      <3>1. i - 1 \in 1 .. N
        BY <1>5, <2>1
      <3>2. PICK m \in I : Rank(I, m) = i /\ list[i] = cs[m]
        BY <1>4
      <3>3. PICK j \in I : Rank(I, j) = i - 1 /\ list[i - 1] = cs[j]
        BY <1>4, <3>1
      <3>4. ~(m < j) /\ m # j
        <4>1. m < j => Rank(I, m) < Rank(I, j)
          BY <1>1, <1>2, RankOrder
        <4>2. ~(i < i - 1) /\ i # i - 1
          BY <1>5
        <4> QED BY <3>2, <3>3, <4>1, <4>2
      <3>5. j < m
        BY <1>1, <1>2, <3>4
      <3>6. cs[j].id < cs[m].id
        BY <1>1, <1>2, <3>5 DEF Sorted
      <3> QED BY <3>2, <3>3, <3>6
    <2>2. \A i \in 1 .. N : list[i].id > 0
      BY <1>5 DEF Comments
    <2> QED BY <1>5, <2>1, <2>2 DEF IdsIncrease
  <1>7. ASSUME NEW i \in 1 .. N, list[i].reply # 0
        PROVE  \E j \in 1 .. i - 1 : list[j].id = list[i].reply /\ list[j].target = list[i].target
    <2>1. PICK m \in I : Rank(I, m) = i /\ list[i] = cs[m]
      BY <1>4
    <2>2. PICK j \in 1 .. n : j < m /\ cs[j].id = cs[m].reply /\ cs[j].target = cs[m].target
                              /\ cs[j].status = "Approved"
      BY <1>1, <1>2, <1>7, <2>1 DEF RelationsHold
    <2>3. j \in I
      BY <1>1, <1>2, <2>1, <2>2 DEF I, ApprovedIn
    <2>4. Rank(I, j) < Rank(I, m) /\ Rank(I, j) \in 1 .. N /\ list[Rank(I, j)] = cs[j]
      BY <1>1, <1>2, <1>4, <2>2, <2>3, RankOrder
    <2>5. Rank(I, j) \in 1 .. i - 1
      BY <1>5, <2>1, <2>4
    <2> QED BY <2>1, <2>2, <2>4, <2>5
  <1>8. Visible(list)
    BY <1>5, <1>6, <1>7 DEF Visible
  <1>9. ASSUME NEW i \in 1 .. N
        PROVE  \E k \in resolve_reply_id(cs, t, VisibleNumber(list, i)) : cs[k].id = list[i].id
    <2>1. PICK m \in I : Rank(I, m) = i /\ list[i] = cs[m]
      BY <1>4
    <2>2. \A j \in 1 .. i : list[j].target = t
      BY <1>2, <1>4, <1>5, SMTT(30)
    <2>3. {j \in 1 .. i : list[j].target = list[i].target} = 1 .. i
      BY <1>5, <2>2
    <2>4. VisibleNumber(list, i) = i
      <3>1. Cardinality(1 .. i) = i
        BY <1>5, FS_Interval
      <3> QED BY <2>3, <3>1 DEF VisibleNumber
    <2>5. m \in resolve_reply_id(cs, t, i)
      BY <2>1 DEF resolve_reply_id, Rank, I
    <2> QED BY <2>1, <2>4, <2>5
  <1> QED BY <1>5, <1>8, <1>9 DEF list

-----------------------------------------------------------------------------
(* The readers, and the list the public sees. *)

(* The states of a reader. *)
Reading == [st : {"idle", "paging", "done"}, out : Seq(Comments),
            rev : Seq(Comments) \cup {None}, after : Nat, tries : Nat]

(* What a reader has, followed by what its revision holds after its last   *)
(* page, is all that is approved in that revision.                         *)
ReadOK(r) ==
    /\ r.rev = None => r.st # "done" /\ r.out = <<>> /\ r.after = 0
    /\ r.rev # None =>
          /\ r.st = "paging" => r.out \o ApprovedAfter(r.rev, r.after) = ApprovedAfter(r.rev, 0)
          /\ r.st = "done" => r.out = ApprovedAfter(r.rev, 0)

(* ReadOK of every reader. *)
ReaderOK == reader \in [Readers -> Reading] /\ \A q \in Readers : ReadOK(reader[q])

(* The copy in memory is sound even when the store is poisoned. *)
RInv == IInv /\ Sound(mem) /\ ReaderOK

(* A store without comments is sound. *)
LEMMA EmptySound == Sound(<<>>)
  BY DEF Sound, Sorted, RelationsHold, Limited

(* Memory only ever takes the contents of the file. *)
LEMMA MemSound ==
    ASSUME IInv, Sound(mem), [Next]_vars
    PROVE  Sound(mem')
  <1>1. CASE mem' = mem
    BY <1>1
  <1>2. CASE mem' = <<>>
    BY <1>2, EmptySound
  <1>3. CASE mem' = file
    BY <1>3 DEF IInv, DisksOK
  <1>4. ASSUME NEW h \in Handlers, CommitSynced(h) PROVE mem' = file
    BY <1>4 DEF CommitSynced, IInv, CommitOK
  <1>5. mem' = mem \/ mem' = <<>> \/ mem' = file
    <2>1. ASSUME NEW h \in Handlers, Handle(h) PROVE mem' = mem \/ mem' = <<>> \/ mem' = file
      <3>1. CASE \E t \in Targets, x \in Texts, ip \in Ips, n, r \in 0 .. MaxId, now \in Clock :
                    submit(h, t, x, ip, n, r, now)
        BY <3>1 DEF submit
      <3>2. CASE \E ids \in SUBSET (1 .. MaxId), status \in {"Approved", "Deleted"} :
                    ids # {} /\ moderate(h, ids, status)
        BY <3>2 DEF moderate
      <3>3. CASE SubmitReject(h) \/ RefusePoisoned(h) \/ public_query(h)
        BY <3>3 DEF SubmitReject, RefusePoisoned, public_query
      <3>4. CASE \E q \in Readers : AllPage(h, q)
        BY <3>4 DEF AllPage
      <3>5. CASE CommitSynced(h) \/ CommitPoisons(h) \/ Reply(h) \/ CheckPoisoned(h)
        BY <1>4, <3>5 DEF CommitPoisons, Reply, CheckPoisoned, ProcessEnds
      <3> QED BY <2>1, <3>1, <3>2, <3>3, <3>4, <3>5 DEF Handle
    <2>2. ASSUME NEW q \in Readers, AllStart(q) \/ AllFails(q) PROVE mem' = mem
      BY <2>2 DEF AllStart, AllFails, serverVars
    <2>3. CASE init \/ open \/ Crash \/ PowerLoss
      BY <2>3 DEF init, open, Crash, PowerLoss, ProcessEnds, serverVars
    <2>4. CASE UNCHANGED vars
      BY <2>4 DEF vars, serverVars
    <2> QED BY <2>1, <2>2, <2>3, <2>4 DEF Next
  <1> QED BY <1>1, <1>2, <1>3, <1>5

(* The states a round starts from. *)
LEMMA RoundStarts ==
    ASSUME NEW n \in Nat
    PROVE  /\ Fresh("paging", n) \in Reading /\ ReadOK(Fresh("paging", n))
           /\ ReaderIdle \in Reading /\ ReadOK(ReaderIdle)
  <1>1. <<>> \in Seq(Comments)
    OBVIOUS
  <1> QED BY <1>1 DEF Fresh, ReaderIdle, Reading, ReadOK

(* AllPage: a page of the same revision continues what the reader has;     *)
(* another revision makes it start again.                                  *)
LEMMA PageKeeps ==
    ASSUME IInv, Sound(mem), ReaderOK, NEW h \in Handlers, NEW q \in Readers, AllPage(h, q)
    PROVE  ReaderOK'
  <1> DEFINE r == reader[q]
             s == reader'[q]
             rest == ApprovedAfter(mem, r.after)
             more == Len(rest) > PageLimit
             page == IF more THEN SubSeq(rest, 1, PageLimit) ELSE rest
  <1>1. /\ reader \in [Readers -> Reading] /\ r \in Reading /\ ReadOK(r)
        /\ mem \in Seq(Comments) /\ Sorted(mem)
    BY DEF ReaderOK, IInv, TypeOK, Sound
  <1>2. r.st = "paging"
    BY DEF AllPage
  <1>3. /\ r.out \in Seq(Comments) /\ r.after \in Nat /\ r.tries \in Nat
        /\ r.rev \in Seq(Comments) \cup {None}
    BY <1>1 DEF Reading
  <1>4. mem # None
    BY <1>1, NoneAssumption
  <1> DEFINE new == IF Stale(r.rev) THEN NextRound(r.tries)
                    ELSE [st |-> IF more THEN "paging" ELSE "done",
                          out |-> r.out \o page,
                          rev |-> IF r.rev = None THEN mem ELSE r.rev,
                          after |-> IF more THEN page[Len(page)].id ELSE r.after,
                          tries |-> r.tries]
  <1>5. reader' = [reader EXCEPT ![q] = new]
    BY Zenon DEF AllPage
  <1>6. new \in Reading /\ ReadOK(new)
    <2>1. CASE Stale(r.rev)
      <3>1. new = NextRound(r.tries)
        BY <2>1
      <3> HIDE DEF new
      <3>2. r.tries + 1 \in Nat
        BY <1>3
      <3> QED BY <3>1, <3>2, RoundStarts, Zenon DEF NextRound
    <2>2. CASE ~Stale(r.rev)
      <3> DEFINE next == IF more THEN page[Len(page)].id ELSE r.after
                 then == IF more THEN "paging" ELSE "done"
      <3>1. r.rev = None \/ r.rev = mem
        BY <2>2 DEF Stale
      <3>2. new = [st |-> then, out |-> r.out \o page, rev |-> mem, after |-> next, tries |-> r.tries]
        BY <1>1, <2>2, <3>1 DEF Reading
      <3> HIDE DEF new
      <3>3. r.out \o rest = ApprovedAfter(mem, 0)
        <4>1. CASE r.rev = None
          <5>1. r.out = <<>> /\ rest = ApprovedAfter(mem, 0)
            BY <1>1, <4>1 DEF ReadOK
          <5>2. rest \in Seq(Comments)
            BY <1>1, FilterType DEF ApprovedAfter
          <5> HIDE DEF rest
          <5>3. <<>> \o rest = rest
            BY <5>2
          <5> QED BY <5>1, <5>3
        <4>2. CASE r.rev = mem
          BY <1>1, <1>2, <1>4, <4>2 DEF ReadOK
        <4> QED BY <3>1, <4>1, <4>2
      <3>4. rest \in Seq(Comments)
        BY <1>1, FilterType DEF ApprovedAfter
      <3>5. CASE more
        <4>1. PageLimit \in 1 .. Len(rest)
          BY <3>4, <3>5, ConstAssumption
        <4>2. /\ page \in Seq(Comments) /\ Len(page) = PageLimit /\ page[PageLimit] \in Comments
              /\ page \o ApprovedAfter(mem, page[PageLimit].id) = rest
          BY <1>1, <1>3, <3>5, <4>1, PageAndRest
        <4> HIDE DEF page
        <4>3. next = page[PageLimit].id /\ then = "paging"
          BY <3>5, <4>2
        <4>4. next \in Nat
          BY <4>2, <4>3 DEF Comments
        <4> HIDE DEF rest
        <4> DEFINE tail == ApprovedAfter(mem, next)
        <4>5. tail \in Seq(Comments)
          BY <1>1, FilterType DEF ApprovedAfter
        <4>6. page \o tail = rest
          BY <4>2, <4>3
        <4> HIDE DEF tail, next
        <4>7. (r.out \o page) \o tail = r.out \o (page \o tail) /\ r.out \o page \in Seq(Comments)
          <5> DEFINE a == r.out
          <5>1. a \in Seq(Comments) /\ page \in Seq(Comments) /\ tail \in Seq(Comments)
            BY <1>3, <4>2, <4>5
          <5> HIDE DEF a
          <5>2. (a \o page) \o tail = a \o (page \o tail) /\ a \o page \in Seq(Comments)
            BY ONLY <5>1, ConcatAssociative, ConcatProperties, SMTT(30)
          <5> QED BY <5>2 DEF a
        <4>8. new \in Reading
          BY <1>1, <1>3, <3>2, <4>3, <4>4, <4>7 DEF Reading
        <4>9. /\ new.rev = mem /\ new.st = "paging" /\ new.out = r.out \o page
              /\ new.after = next
          BY <3>2, <4>3
        <4>10. new.out \o ApprovedAfter(new.rev, new.after) = ApprovedAfter(new.rev, 0)
          BY <3>3, <4>6, <4>7, <4>9 DEF tail
        <4> QED BY <1>4, <4>8, <4>9, <4>10 DEF ReadOK
      <3>6. CASE ~more
        <4>1. page = rest /\ next = r.after /\ then = "done"
          BY <3>6
        <4> HIDE DEF rest, page, next, then
        <4>2. r.out \o rest \in Seq(Comments)
          BY <1>3, <3>4, ConcatProperties
        <4>3. new \in Reading
          BY <1>1, <1>3, <3>2, <4>1, <4>2 DEF Reading
        <4>4. new.rev = mem /\ new.st = "done" /\ new.out = r.out \o rest
          BY <3>2, <4>1
        <4> QED BY <1>4, <3>3, <4>3, <4>4 DEF ReadOK
      <3> QED BY <3>5, <3>6
    <2> QED BY <2>1, <2>2
  <1> HIDE DEF new
  <1> QED BY <1>1, <1>5, <1>6 DEF ReaderOK

(* Every step keeps what the readers have. *)
LEMMA ReaderKept ==
    ASSUME RInv, [Next]_vars
    PROVE  ReaderOK'
  <1>1. CASE reader' = reader
    BY <1>1 DEF RInv, ReaderOK
  <1>2. ASSUME NEW q \in Readers, AllStart(q) \/ AllFails(q) PROVE ReaderOK'
    <2> DEFINE start == Fresh("paging", 0)
    <2>1. reader' = [reader EXCEPT ![q] = start] \/ reader' = [reader EXCEPT ![q] = ReaderIdle]
      BY <1>2 DEF AllStart, AllFails
    <2>2. start \in Reading /\ ReadOK(start) /\ ReaderIdle \in Reading /\ ReadOK(ReaderIdle)
      BY RoundStarts
    <2> HIDE DEF start
    <2> QED BY <2>1, <2>2 DEF RInv, ReaderOK
  <1>3. ASSUME NEW h \in Handlers, Handle(h) PROVE ReaderOK'
    <2>1. CASE \E q \in Readers : AllPage(h, q)
      BY <2>1, PageKeeps DEF RInv
    <2>2. CASE ~\E q \in Readers : AllPage(h, q)
      <3>1. reader' = reader
        <4>1. CASE \E t \in Targets, x \in Texts, ip \in Ips, n, r \in 0 .. MaxId, now \in Clock :
                      submit(h, t, x, ip, n, r, now)
          BY <4>1 DEF submit
        <4>2. CASE \E ids \in SUBSET (1 .. MaxId), status \in {"Approved", "Deleted"} :
                      ids # {} /\ moderate(h, ids, status)
          BY <4>2 DEF moderate
        <4>3. CASE SubmitReject(h) \/ RefusePoisoned(h) \/ public_query(h)
          BY <4>3 DEF SubmitReject, RefusePoisoned, public_query
        <4>4. CASE CommitSynced(h) \/ CommitPoisons(h) \/ Reply(h) \/ CheckPoisoned(h)
          BY <4>4 DEF CommitSynced, CommitPoisons, Reply, CheckPoisoned
        <4> QED BY <1>3, <2>2, <4>1, <4>2, <4>3, <4>4 DEF Handle
      <3> QED BY <1>1, <3>1
    <2> QED BY <2>1, <2>2
  <1>4. CASE init \/ open \/ Crash \/ PowerLoss
    <2>1. reader' = reader
      BY <1>4 DEF init, open, Crash, PowerLoss
    <2> QED BY <1>1, <2>1
  <1>5. CASE UNCHANGED vars
    BY <1>1, <1>5 DEF vars
  <1> QED BY <1>2, <1>3, <1>4, <1>5 DEF Next

(* It holds initially. *)
LEMMA InitRInv == Init => RInv
  <1> SUFFICES ASSUME Init PROVE RInv
    OBVIOUS
  <1>1. IInv
    BY InitIInv
  <1>2. Sound(mem)
    BY EmptySound DEF Init
  <1>3. ReaderIdle \in Reading /\ ReadOK(ReaderIdle)
    BY RoundStarts
  <1>4. ReaderOK
    BY <1>3 DEF Init, ReaderOK
  <1> QED BY <1>1, <1>2, <1>4 DEF RInv

(* Every step keeps it. *)
LEMMA NextRInv == RInv /\ [Next]_vars => RInv'
  BY NextIInv, MemSound, ReaderKept DEF RInv

(* For any page size, any number of comments and any writes between the    *)
(* pages: the export a client puts together from several pages is all that *)
(* is approved in one revision of the store, in order, each comment once.  *)
THEOREM SnapshotsAreWhole == Spec => []SnapshotIsOneRevision
  <1>1. RInv => SnapshotIsOneRevision
    <2> SUFFICES ASSUME RInv, NEW q \in Readers, reader[q].st = "done"
                 PROVE  reader[q].out = ApprovedAfter(reader[q].rev, 0)
      BY DEF SnapshotIsOneRevision
    <2>1. ReadOK(reader[q])
      BY DEF RInv, ReaderOK
    <2> QED BY <2>1 DEF ReadOK
  <1> QED BY <1>1, InitRInv, NextRInv, PTL DEF Spec

(* In every state, poisoned or not, the public list of every target can be  *)
(* computed: it shows each reply after the comment it answers, and the      *)
(* number a visitor gives when replying resolves to the comment shown       *)
(* under it.                                                                *)
THEOREM PublicListAlwaysSound == Spec => []PublicListIsSound
  <1>1. RInv => PublicListIsSound
    <2> SUFFICES ASSUME RInv, NEW t \in Targets
                 PROVE  LET list == ApprovedOf(mem, t) IN
                        /\ Visible(list)
                        /\ \A i \in DOMAIN list :
                              \E k \in resolve_reply_id(mem, t, VisibleNumber(list, i)) :
                                 mem[k].id = list[i].id
      BY DEF PublicListIsSound
    <2>1. mem \in Seq(Comments) /\ Sorted(mem) /\ RelationsHold(mem)
      BY DEF RInv, IInv, TypeOK, Sound
    <2> QED BY <2>1, PublicList
  <1> QED BY <1>1, InitRInv, NextRInv, PTL DEF Spec
=============================================================================
