---------------------------- MODULE ReaderProofs ----------------------------
(***************************************************************************)
(* Proofs about the terminal reader: for every article and manifest, every *)
(* size of terminal and cell, every kind of image and any capacities.      *)
(*                                                                         *)
(* The inductive invariant says that the reader shows a window of a model  *)
(* that build_model made, with some of the failed images degraded.  What   *)
(* the model is good for follows from a walk over its rows that counts     *)
(* lines: each row takes the count from the lines before it to the lines   *)
(* after it, so all rows together account for every line once.             *)
(*                                                                         *)
(* For the screen, a drawing of the first n images shows the layout with   *)
(* the rows of the later ones blank; a slice found in a cache is the one   *)
(* its key names, so it is the one that would have been made.              *)
(*                                                                         *)
(* The library's induction theorems cannot be used here.  Induction comes  *)
(* from the well-foundedness of the order of Nat instead, over a set of    *)
(* numbers in place of a property of them; so do the values of recursive   *)
(* functions, of FlattenSeq's folds and of the scan of exit_view, which    *)
(* are shown to exist step by step.                                        *)
(***************************************************************************)
EXTENDS Reader, FiniteSetTheorems, SequenceTheorems, TLAPS

-----------------------------------------------------------------------------
(* Induction, and the caches of slices.                                      *)

\* A set of naturals that is not empty has a least one: the order of Nat is well-founded.
LEMMA Least ==
    ASSUME NEW T \in SUBSET Nat, T # {}
    PROVE  \E x \in T : \A y \in T : x <= y
<1>1. PICK x \in T : \A y \in T : ~ (<<y, x>> \in OpToRel(<, Nat))
  BY NatLessThanWellFounded, WFMin
<1>2. ASSUME NEW y \in T PROVE x <= y
  <2>1. y < x => <<y, x>> \in {ss \in Nat \X Nat : ss[1] < ss[2]}
    OBVIOUS
  <2>2. y < x => <<y, x>> \in OpToRel(<, Nat)
    BY <2>1 DEF OpToRel
  <2>3. ~(y < x)
    BY <1>1, <2>2, Zenon
  <2>4. QED
    BY <2>3
<1>3. QED
  BY <1>2

\* Induction, over a set instead of a property: from well-foundedness.
LEMMA Induction ==
    ASSUME NEW n \in Nat, NEW T, 0 \in T,
           \A k \in 0 .. n : k \in T /\ k + 1 \in 0 .. n => k + 1 \in T
    PROVE  \A k \in 0 .. n : k \in T
<1>1. ASSUME (0 .. n) \ T # {} PROVE FALSE
  <2> DEFINE U == (0 .. n) \ T
  <2>1. U \in SUBSET Nat /\ U # {}
    BY <1>1
  <2>2. PICK x \in U : \A y \in U : x <= y
    <3> HIDE DEF U
    <3>1. QED
      BY <2>1, Least
  <2>3. x # 0 /\ x - 1 \in 0 .. n /\ ~(x <= x - 1) /\ (x - 1) + 1 = x
    BY <2>2
  <2>4. QED
    BY <2>2, <2>3
<1>2. QED
  BY <1>1

\* The smaller and the greater of two numbers.
LEMMA MinOfTwo ==
    ASSUME NEW a \in Int, NEW b \in Int
    PROVE  Min({a, b}) = IF a <= b THEN a ELSE b
<1> DEFINE x == IF a <= b THEN a ELSE b
<1>1. x \in {a, b} /\ \A y \in {a, b} : x <= y
  OBVIOUS
<1>2. \A z \in {a, b} : (\A y \in {a, b} : z <= y) => z = x
  OBVIOUS
<1> HIDE DEF x
<1>3. Min({a, b}) = x
  BY <1>1, <1>2, Zenon DEF Min
<1>4. QED
  BY <1>3 DEF x

\* Max of two integers.
LEMMA MaxOfTwo ==
    ASSUME NEW a \in Int, NEW b \in Int
    PROVE  Max({a, b}) = IF a >= b THEN a ELSE b
<1> DEFINE x == IF a >= b THEN a ELSE b
<1>1. x \in {a, b} /\ \A y \in {a, b} : x >= y
  OBVIOUS
<1>2. \A z \in {a, b} : (\A y \in {a, b} : z >= y) => z = x
  OBVIOUS
<1> HIDE DEF x
<1>3. Max({a, b}) = x
  BY <1>1, <1>2, Zenon DEF Max
<1>4. QED
  BY <1>3 DEF x

\* The least of a set of numbers.
LEMMA MinOfMany ==
    ASSUME NEW T \in SUBSET Nat, T # {}
    PROVE  Min(T) \in T /\ \A y \in T : Min(T) <= y
<1>1. PICK x \in T : \A y \in T : x <= y
  BY Least
<1>2. QED
  BY <1>1, Zenon DEF Min

-----------------------------------------------------------------------------
\* A cache with one entry per key, within its capacity.
CacheSeq(c) == \E E : c \in Seq(E)
\* A cache within its capacity, one entry per key.
Sound(c, cap) == CacheSeq(c) /\ CacheOK(c, cap)

\* Taking one entry out of a sequence.
LEMMA RemoveAtFacts ==
    ASSUME NEW E, NEW c \in Seq(E), NEW p \in DOMAIN c
    PROVE  /\ RemoveAt(c, p) \in Seq(E) /\ Len(RemoveAt(c, p)) = Len(c) - 1
           /\ \A j \in 1 .. Len(c) - 1 : RemoveAt(c, p)[j] = IF j < p THEN c[j] ELSE c[j + 1]
<1> DEFINE x == SubSeq(c, 1, p - 1)
           y == SubSeq(c, p + 1, Len(c))
           n == Len(c)
<1>1. n \in Nat /\ p \in 1 .. n
  OBVIOUS
<1>2. x \in Seq(E) /\ Len(x) = p - 1 /\ \A j \in 1 .. p - 1 : x[j] = c[j]
  BY <1>1
<1>3. y \in Seq(E) /\ Len(y) = n - p /\ \A j \in 1 .. n - p : y[j] = c[p + j]
  BY <1>1
<1>4. RemoveAt(c, p) = x \o y
  BY DEF RemoveAt
<1> HIDE DEF x, y, n
<1>5. /\ x \o y \in Seq(E) /\ Len(x \o y) = Len(x) + Len(y)
      /\ \A j \in 1 .. Len(x) + Len(y) : (x \o y)[j] = IF j <= Len(x) THEN x[j] ELSE y[j - Len(x)]
  BY <1>2, <1>3, ConcatProperties
<1>6. \A j \in 1 .. n - 1 : (x \o y)[j] = IF j < p THEN c[j] ELSE c[j + 1]
  <2> TAKE j \in 1 .. n - 1
  <2>1. (x \o y)[j] = IF j <= p - 1 THEN x[j] ELSE y[j - (p - 1)]
    BY <1>1, <1>2, <1>3, <1>5, SMTT(30)
  <2>2. CASE j < p
    BY <1>1, <1>2, <2>1, <2>2
  <2>3. CASE ~(j < p)
    <3>1. j - (p - 1) \in 1 .. n - p /\ p + (j - (p - 1)) = j + 1 /\ ~(j <= p - 1)
      BY <1>1, <2>3
    <3>2. y[j - (p - 1)] = c[p + (j - (p - 1))]
      BY <1>3, <3>1
    <3>3. QED
      BY <2>1, <2>3, <3>1, <3>2
  <2>4. QED
    BY <2>2, <2>3
<1>7. Len(x \o y) = n - 1
  BY <1>1, <1>2, <1>3, <1>5
<1>8. QED
  BY <1>4, <1>5, <1>6, <1>7 DEF n

\* No two entries have the same key.
Distinct(c) == \A i, j \in DOMAIN c : c[i].key = c[j].key => i = j

\* Taking the entry of a key out of a cache.
LEMMA WithoutFacts ==
    ASSUME NEW E, NEW c \in Seq(E), NEW k, Cached(c, k), Distinct(c)
    PROVE  /\ Without(c, k) \in Seq(E) /\ Len(Without(c, k)) = Len(c) - 1
           /\ Distinct(Without(c, k)) /\ ~Cached(Without(c, k), k)
<1> DEFINE p == CHOOSE i \in DOMAIN c : c[i].key = k
           w == RemoveAt(c, p)
<1>1. p \in DOMAIN c /\ c[p].key = k
  BY DEF Cached
<1>2. Without(c, k) = w
  BY DEF Without
<1> HIDE DEF p
<1>3. /\ w \in Seq(E) /\ Len(w) = Len(c) - 1
      /\ \A j \in 1 .. Len(c) - 1 : w[j] = IF j < p THEN c[j] ELSE c[j + 1]
  BY <1>1, RemoveAtFacts
<1>4. DOMAIN w = 1 .. Len(c) - 1 /\ DOMAIN c = 1 .. Len(c) /\ Len(c) \in Nat
  BY <1>3
<1> DEFINE at(j) == IF j < p THEN j ELSE j + 1
<1>5. \A j \in DOMAIN w : w[j] = c[at(j)] /\ at(j) \in DOMAIN c /\ at(j) # p
  BY <1>1, <1>3, <1>4
<1>6. \A i, j \in DOMAIN w : at(i) = at(j) => i = j
  BY <1>1, <1>4
<1> HIDE DEF at, w
<1>7. Distinct(w)
  BY <1>5, <1>6 DEF Distinct
<1>8. ~Cached(w, k)
  BY <1>1, <1>5 DEF Distinct, Cached
<1>9. QED
  BY <1>2, <1>3, <1>7, <1>8

\* One more entry with a new key.
LEMMA AppendDistinct ==
    ASSUME NEW E, NEW c \in Seq(E), NEW e, Distinct(c), ~Cached(c, e.key)
    PROVE  /\ CacheSeq(Append(c, e)) /\ Distinct(Append(c, e)) /\ Len(Append(c, e)) = Len(c) + 1
<1> DEFINE F == E \cup {e}
           a == Append(c, e)
<1>1. c \in Seq(F) /\ e \in F /\ Len(c) \in Nat
  OBVIOUS
<1>2. a \in Seq(F) /\ Len(a) = Len(c) + 1 /\ a[Len(c) + 1] = e /\ \A i \in 1 .. Len(c) : a[i] = c[i]
  BY <1>1
<1>3. DOMAIN a = 1 .. Len(c) + 1 /\ DOMAIN c = 1 .. Len(c)
  BY <1>1, <1>2
<1> HIDE DEF a, F
<1>4. \A i \in DOMAIN a : i # Len(c) + 1 => i \in DOMAIN c /\ a[i] = c[i] /\ c[i].key # e.key
  BY <1>1, <1>2, <1>3 DEF Cached
<1>5. Distinct(a)
  BY <1>2, <1>4 DEF Distinct
<1>6. QED
  BY <1>2, <1>5 DEF a, CacheSeq

\* Looking an entry up keeps a cache sound.
LEMMA GetSound ==
    ASSUME NEW c, NEW cap, Sound(c, cap), NEW k, Cached(c, k)
    PROVE  Sound(LruGet(c, k), cap)
<1>1. PICK E : c \in Seq(E)
  BY DEF Sound, CacheSeq
<1>2. Distinct(c) /\ Len(c) <= cap
  BY DEF Sound, CacheOK, Distinct
<1> DEFINE w == Without(c, k)
           e == Entry(c, k)
<1>3. e.key = k
  BY DEF Entry, Cached, Range
<1>4. w \in Seq(E) /\ Len(w) = Len(c) - 1 /\ Distinct(w) /\ ~Cached(w, k)
  BY <1>1, <1>2, WithoutFacts
<1>5. LruGet(c, k) = Append(w, e)
  BY DEF LruGet
<1> HIDE DEF w, e
<1>6. CacheSeq(Append(w, e)) /\ Distinct(Append(w, e)) /\ Len(Append(w, e)) = Len(w) + 1
  BY <1>3, <1>4, AppendDistinct
<1>7. Len(w) + 1 = Len(c)
  BY <1>1, <1>4
<1>8. QED
  BY <1>2, <1>5, <1>6, <1>7 DEF Sound, CacheOK, Distinct

\* So does remembering what was not there.
LEMMA InsertSound ==
    ASSUME NEW c, NEW cap \in Nat \ {0}, Sound(c, cap), NEW k, ~Cached(c, k), NEW v
    PROVE  Sound(LruInsert(cap, c, k, v), cap)
<1>1. PICK E : c \in Seq(E)
  BY DEF Sound, CacheSeq
<1>2. Distinct(c) /\ Len(c) <= cap /\ Len(c) \in Nat
  BY <1>1 DEF Sound, CacheOK, Distinct
<1> DEFINE w == IF Len(c) >= cap THEN Tail(c) ELSE c
           e == [key |-> k, val |-> v]
<1>3. w \in Seq(E) /\ Len(w) < cap /\ Distinct(w) /\ ~Cached(w, k)
  <2>1. CASE Len(c) >= cap
    <3>1. c # <<>> /\ w = Tail(c)
      BY <1>1, <1>2, <2>1
    <3>2. Tail(c) \in Seq(E) /\ Len(Tail(c)) = Len(c) - 1
          /\ \A i \in 1 .. Len(c) - 1 : Tail(c)[i] = c[i + 1]
      BY <1>1, <3>1
    <3> HIDE DEF w
    <3>3. DOMAIN w = 1 .. Len(c) - 1 /\ DOMAIN c = 1 .. Len(c)
      BY <1>1, <1>2, <3>1, <3>2
    <3>4. \A i \in DOMAIN w : i + 1 \in DOMAIN c /\ w[i] = c[i + 1]
      BY <1>2, <3>1, <3>2, <3>3
    <3>5. Distinct(w)
      <4> SUFFICES ASSUME NEW i \in DOMAIN w, NEW j \in DOMAIN w, w[i].key = w[j].key
                   PROVE  i = j
        BY DEF Distinct
      <4>1. i + 1 = j + 1
        BY <1>2, <3>4 DEF Distinct
      <4>2. QED
        BY <3>3, <4>1
    <3>6. ~Cached(w, k)
      BY <3>4 DEF Cached
    <3>7. QED
      BY <1>2, <2>1, <3>1, <3>2, <3>5, <3>6
  <2>2. CASE ~(Len(c) >= cap)
    BY <1>1, <1>2, <2>2
  <2>3. QED
    BY <2>1, <2>2
<1>4. LruInsert(cap, c, k, v) = Append(w, e)
  BY DEF LruInsert
<1>5. e.key = k
  OBVIOUS
<1> HIDE DEF w, e
<1>6. CacheSeq(Append(w, e)) /\ Distinct(Append(w, e)) /\ Len(Append(w, e)) = Len(w) + 1
  BY <1>3, <1>5, AppendDistinct
<1>7. Len(w) + 1 <= cap
  BY <1>3
<1>8. QED
  BY <1>4, <1>6, <1>7 DEF Sound, CacheOK, Distinct

\* slice_payload keeps the cache of slices sound, on a hit, a miss and a failure.
LEMMA SlicePayloadSound ==
    ASSUME NEW c, Sound(c, LRU_CAP), NEW a, NEW wpx, NEW w
    PROVE  Sound(slice_payload(a, wpx, w, c).cache, LRU_CAP)
<1>1. LRU_CAP \in Nat \ {0}
  BY LimitsAssumption
<1> DEFINE key == <<a.asset, wpx, w[1], w[2]>>
<1>2. slice_payload(a, wpx, w, c).cache
        \in {c} \cup (IF Cached(c, key) THEN {LruGet(c, key)}
                     ELSE {LruInsert(LRU_CAP, c, key, Payload(a, wpx, w))})
  BY DEF slice_payload
<1> HIDE DEF key
<1>3. QED
  BY <1>1, <1>2, GetSound, InsertSound

\* row_payload keeps the cache of rows sound.
LEMMA RowPayloadSound ==
    ASSUME NEW c, Sound(c, ROW_SLICE_LRU_CAP), NEW a, NEW wpx, NEW off
    PROVE  Sound(row_payload(a, wpx, off, c).cache, ROW_SLICE_LRU_CAP)
<1>1. ROW_SLICE_LRU_CAP \in Nat \ {0}
  BY LimitsAssumption
<1> DEFINE key == row_key(a, wpx, off)
           p == Payload(a, wpx, slice_window(display_height(a, wpx), off, 1))
<1>2. row_payload(a, wpx, off, c).cache
        \in {c} \cup (IF Cached(c, key) THEN {LruGet(c, key)}
                     ELSE {LruInsert(ROW_SLICE_LRU_CAP, c, key, p)})
  BY DEF row_payload
<1> HIDE DEF key, p
<1>3. QED
  BY <1>1, <1>2, GetSound, InsertSound

-----------------------------------------------------------------------------
(* Concatenation, one sequence at a time.                                    *)

\* f[k] is what the first k sequences of s are when they are put together.
Flats(f, s, n) == f = [i \in 1 .. n |-> IF i = 1 THEN s[i] ELSE f[i - 1] \o s[i]]

\* The same, as a first value and a step.
Steps(f, s, n) ==
    /\ 1 \in 1 .. n => f[1] = s[1]
    /\ \A k \in 1 .. n : k + 1 \in 1 .. n => f[k + 1] = f[k] \o s[k + 1]

\* A table of partial concatenations has its values.
LEMMA FlatsStep ==
    ASSUME NEW n \in Nat, NEW s, NEW f, Flats(f, s, n)
    PROVE  Steps(f, s, n)
<1>1. 1 \in 1 .. n => f[1] = s[1]
  BY Zenon DEF Flats
<1>2. ASSUME NEW k \in 1 .. n, k + 1 \in 1 .. n
      PROVE  f[k + 1] = f[k] \o s[k + 1]
  <2>1. k + 1 # 1 /\ (k + 1) - 1 = k
    OBVIOUS
  <2>2. f[k + 1] = IF k + 1 = 1 THEN s[k + 1] ELSE f[(k + 1) - 1] \o s[k + 1]
    BY <1>2, Zenon DEF Flats
  <2>3. QED
    BY <2>1, <2>2, Zenon
<1>3. QED
  BY <1>1, <1>2 DEF Steps

\* There is one more step to it.
LEMMA FlatsMore ==
    ASSUME NEW s, NEW n \in Nat, NEW f, Flats(f, s, n)
    PROVE  \E g : Flats(g, s, n + 1)
<1> DEFINE g == [i \in 1 .. n + 1 |-> IF i = 1 THEN s[i] ELSE f[i - 1] \o s[i]]
<1>1. ASSUME NEW i \in 1 .. n PROVE g[i] = f[i]
  <2>1. f[i] = IF i = 1 THEN s[i] ELSE f[i - 1] \o s[i]
    BY Zenon DEF Flats
  <2>2. i \in 1 .. n + 1
    OBVIOUS
  <2>3. QED
    BY <2>1, <2>2, Zenon
<1>2. \A i \in 1 .. n + 1 : i # 1 => i - 1 \in 1 .. n
  OBVIOUS
<1>3. g = [i \in 1 .. n + 1 |-> IF i = 1 THEN s[i] ELSE g[i - 1] \o s[i]]
  BY <1>1, <1>2
<1> HIDE DEF g
<1>4. QED
  BY <1>3 DEF Flats

\* There is one for every length.
LEMMA FlatsExists ==
    ASSUME NEW s, NEW n \in Nat
    PROVE  \E f : Flats(f, s, n)
<1> DEFINE T == {k \in Nat : \E f : Flats(f, s, k)}
<1>1. 0 \in T
  <2> DEFINE f == [i \in 1 .. 0 |-> <<>>]
  <2>1. \A i \in 1 .. 0 : FALSE
    OBVIOUS
  <2>2. f = [i \in 1 .. 0 |-> IF i = 1 THEN s[i] ELSE f[i - 1] \o s[i]]
    BY <2>1, Zenon
  <2> HIDE DEF f
  <2>3. Flats(f, s, 0)
    BY <2>2, Zenon DEF Flats
  <2>4. QED
    BY <2>3
<1>2. \A k \in T : k + 1 \in T
  BY FlatsMore
<1>3. n \in T
  <2> HIDE DEF T
  <2>1. \A k \in 0 .. n : k \in T /\ k + 1 \in 0 .. n => k + 1 \in T
    BY <1>2
  <2>2. \A k \in 0 .. n : k \in T
    BY <1>1, <2>1, Induction, Zenon
  <2>3. QED
    BY <2>2
<1>4. QED
  BY <1>3

\* FlattenSeq is the last of the partial concatenations.
LEMMA FlattenIs ==
    ASSUME NEW S, NEW s \in Seq(S), s # <<>>
    PROVE  \E f : Flats(f, s, Len(s)) /\ FlattenSeq(s) = f[Len(s)]
<1> DEFINE F == CHOOSE f : Flats(f, s, Len(s))
<1>1. Len(s) \in Nat /\ Len(s) # 0
  OBVIOUS
<1>2. Flats(F, s, Len(s))
  BY <1>1, FlatsExists, Zenon
<1>3. FlattenSeq(s) = F[Len(s)]
  BY <1>1 DEF FlattenSeq, Flats
<1>4. QED
  BY <1>2, <1>3, Zenon

\* Of nothing, nothing.
LEMMA FlattenEmpty == FlattenSeq(<<>>) = <<>>
  BY DEF FlattenSeq

\* Both f and h put the first sequences of s together.
SameUpTo(s, t, m) == \A k \in 1 .. m : s[k] = t[k]

\* Partial concatenations depend on what they concatenate only.
LEMMA FlatsAgree ==
    ASSUME NEW n \in Nat, NEW m \in 0 .. n, NEW s, NEW t, NEW f, NEW h,
           Flats(f, s, n), Flats(h, t, m), SameUpTo(s, t, m)
    PROVE  SameUpTo(f, h, m)
<1> DEFINE T == {k \in 0 .. m : k # 0 => f[k] = h[k]}
<1>0. m \in Nat
  OBVIOUS
<1>s. Steps(f, s, n)
  BY FlatsStep, Zenon
<1>t. Steps(h, t, m)
  BY <1>0, FlatsStep, Zenon
<1>1. 0 \in T
  OBVIOUS
<1>2. ASSUME NEW k \in 0 .. m, k \in T, k + 1 \in 0 .. m PROVE k + 1 \in T
  <2>1. k + 1 \in 1 .. m /\ k + 1 \in 1 .. n /\ s[k + 1] = t[k + 1]
    BY <1>2 DEF SameUpTo
  <2>2. CASE k = 0
    BY <1>s, <1>t, <2>1, <2>2 DEF Steps
  <2>3. CASE k # 0
    <3>1. k \in 1 .. m /\ k \in 1 .. n /\ f[k] = h[k]
      BY <1>2, <2>3
    <3>2. f[k + 1] = f[k] \o s[k + 1]
      BY <1>s, <2>1, <3>1, Zenon DEF Steps
    <3>3. h[k + 1] = h[k] \o t[k + 1]
      BY <1>t, <2>1, <3>1, Zenon DEF Steps
    <3>4. f[k + 1] = h[k + 1]
      BY <2>1, <3>1, <3>2, <3>3, Zenon
    <3>5. QED
      BY <2>1, <3>4
  <2>4. QED
    BY <2>2, <2>3
<1>3. \A k \in 0 .. m : k \in T
  <2>1. \A k \in 0 .. m : k \in T /\ k + 1 \in 0 .. m => k + 1 \in T
    BY <1>2
  <2> HIDE DEF T
  <2>2. QED
    BY <1>0, <1>1, <2>1, Induction, Zenon
<1>4. QED
  BY <1>3 DEF SameUpTo

\* One sequence more.
LEMMA FlattenAppend ==
    ASSUME NEW S, NEW s \in Seq(Seq(S)), NEW x \in Seq(S)
    PROVE  FlattenSeq(Append(s, x)) = FlattenSeq(s) \o x
<1> DEFINE a == Append(s, x)
           n == Len(s)
<1>1. /\ a \in Seq(Seq(S)) /\ a # <<>> /\ Len(a) = n + 1 /\ n \in Nat /\ a[n + 1] = x
      /\ \A k \in 1 .. n : a[k] = s[k]
  <2> DEFINE Q == Seq(S)
  <2>1. s \in Seq(Q) /\ x \in Q
    OBVIOUS
  <2> HIDE DEF Q
  <2>2. a \in Seq(Q) /\ Len(a) = n + 1 /\ n \in Nat /\ a[n + 1] = x /\ \A k \in 1 .. n : a[k] = s[k]
    BY <2>1
  <2>3. a # <<>>
    BY <2>2
  <2>4. QED
    BY <2>2, <2>3 DEF Q
<1>q. SameUpTo(a, s, n)
  BY <1>1 DEF SameUpTo
<1> HIDE DEF a, n
<1>2. PICK f : Flats(f, a, n + 1) /\ FlattenSeq(a) = f[n + 1]
  BY <1>1, FlattenIs
<1>3. n + 1 \in Nat /\ n + 1 \in 1 .. n + 1 /\ n \in 0 .. n + 1
  BY <1>1
<1>4. Steps(f, a, n + 1)
  BY <1>2, <1>3, FlatsStep, Zenon
<1>5. CASE s = <<>>
  <2>1. n = 0
    BY <1>5 DEF n
  <2>2. f[1] = x
    BY <1>1, <1>4, <2>1 DEF Steps
  <2>3. <<>> \o x = x
    OBVIOUS
  <2>4. QED
    BY <1>2, <1>5, <2>1, <2>2, <2>3, FlattenEmpty DEF a
<1>6. CASE s # <<>>
  <2>1. n \in 1 .. n /\ n \in 1 .. n + 1
    BY <1>1, <1>6 DEF n
  <2>2. PICK h : Flats(h, s, n) /\ FlattenSeq(s) = h[n]
    BY <1>6, FlattenIs DEF n
  <2>3. SameUpTo(f, h, n)
    BY <1>q, <1>2, <1>3, <2>2, FlatsAgree, Zenon
  <2>4. f[n + 1] = f[n] \o a[n + 1]
    BY <1>3, <1>4, <2>1, Zenon DEF Steps
  <2>5. QED
    BY <1>1, <1>2, <2>1, <2>2, <2>3, <2>4 DEF a, SameUpTo
<1>7. QED
  BY <1>5, <1>6

\* What is flattened has the elements of its parts.
LEMMA FlattenType ==
    ASSUME NEW S, NEW s \in Seq(Seq(S))
    PROVE  FlattenSeq(s) \in Seq(S)
<1>1. CASE s = <<>>
  <2>1. <<>> \in Seq(S)
    OBVIOUS
  <2>2. QED
    BY <1>1, <2>1, FlattenEmpty
<1>2. CASE s # <<>>
  <2> DEFINE n == Len(s)
  <2>1. PICK f : Flats(f, s, n) /\ FlattenSeq(s) = f[n]
    BY <1>2, FlattenIs
  <2>2. n \in Nat \ {0}
    BY <1>2
  <2>s. Steps(f, s, n)
    BY <2>1, <2>2, FlatsStep
  <2> DEFINE T == {k \in 0 .. n : k # 0 => f[k] \in Seq(S)}
  <2>3. 0 \in T
    BY <2>2
  <2>4. ASSUME NEW k \in 0 .. n, k \in T, k + 1 \in 0 .. n PROVE k + 1 \in T
    <3>1. k + 1 \in 1 .. n /\ s[k + 1] \in Seq(S)
      BY <2>2, <2>4
    <3>2. CASE k = 0
      <4>1. f[1] = s[1]
        BY <2>s, <3>1, <3>2 DEF Steps
      <4>2. QED
        BY <3>1, <3>2, <4>1
    <3>3. CASE k # 0
      <4>1. k \in 1 .. n /\ f[k] \in Seq(S)
        BY <2>4, <3>3
      <4>2. f[k + 1] = f[k] \o s[k + 1]
        BY <2>s, <3>1, <4>1, Zenon DEF Steps
      <4>3. f[k + 1] \in Seq(S)
        BY <3>1, <4>1, <4>2
      <4>4. QED
        BY <3>1, <4>3
    <3>4. QED
      BY <3>2, <3>3
  <2> HIDE DEF n
  <2>5. \A k \in 0 .. n : k \in T
    <3>1. \A k \in 0 .. n : k \in T /\ k + 1 \in 0 .. n => k + 1 \in T
      BY <2>4
    <3> HIDE DEF T
    <3>2. QED
      BY <2>2, <2>3, <3>1, Induction, Zenon
  <2>6. QED
    BY <2>1, <2>2, <2>5
<1>3. QED
  BY <1>1, <1>2

-----------------------------------------------------------------------------
(* Drawing, as far as the bounds need it.                                    *)

\* What a frame has come to: nothing is taken from failed, and the cache stays sound.
DrawOK(d, bad) ==
    /\ d = [screen |-> d.screen, failed |-> d.failed, slices |-> d.slices]
    /\ bad \subseteq d.failed
    /\ Sound(d.slices, LRU_CAP)

\* The updates of a drawing, as records.
LEMMA DrawParts ==
    ASSUME NEW d, d = [screen |-> d.screen, failed |-> d.failed, slices |-> d.slices], NEW x, NEW y
    PROVE  /\ [d EXCEPT !.screen = x] = [screen |-> x, failed |-> d.failed, slices |-> d.slices]
           /\ [d EXCEPT !.screen = x, !.slices = y] = [screen |-> x, failed |-> d.failed, slices |-> y]
           /\ [d EXCEPT !.screen = x, !.failed = y] = [screen |-> x, failed |-> y, slices |-> d.slices]
<1> DEFINE e == [d EXCEPT !.screen = x]
<1>1. e = [screen |-> x, failed |-> d.failed, slices |-> d.slices]
  OBVIOUS
<1>2. /\ [d EXCEPT !.screen = x, !.slices = y] = [e EXCEPT !.slices = y]
      /\ [d EXCEPT !.screen = x, !.failed = y] = [e EXCEPT !.failed = y]
  OBVIOUS
<1> HIDE DEF e
<1>3. [e EXCEPT !.slices = y] = [screen |-> x, failed |-> d.failed, slices |-> y]
  BY <1>1
<1>4. [e EXCEPT !.failed = y] = [screen |-> x, failed |-> y, slices |-> d.slices]
  BY <1>1
<1>5. QED
  BY <1>1, <1>2, <1>3, <1>4 DEF e

\* place_image forgets no failure and keeps the cache sound.
LEMMA PlaceKeeps ==
    ASSUME NEW d, NEW bad, DrawOK(d, bad), NEW i, NEW m, NEW s, NEW c, NEW r
    PROVE  DrawOK(place_image(d, i, m, s, c, r), bad)
<1> DEFINE a    == images[i]
           g    == block_geometry(a, c)
           top  == m.block_row[i] - s
           k    == Max({0, -top})
           vis  == Max({1, Min({g.r - k, Max({0, r - Max({0, top})})})})
           whole == top >= 0 /\ top + g.r <= r
           res  == IF whole
                   THEN [ok |-> full_payload_ok(a, d.failed), cache |-> d.slices,
                         val |-> Payload(a, g.wpx, <<0, display_height(a, g.wpx)>>)]
                   ELSE slice_payload(a, g.wpx, slice_window(display_height(a, g.wpx), k, vis), d.slices)
           n    == Min({m.r_rows[i] + 1, a.block_end - a.block_start, Max({0, r - Max({0, top})})})
           fallen == [d EXCEPT !.screen = Fallback(@, a, top, n, r)]
           shown == [d EXCEPT !.screen = Drawn(@, res.val, Max({0, top}), r), !.slices = res.cache]
           lost == [d EXCEPT !.screen = Unknown(<<c, r>>), !.failed = @ \cup {a.asset}]
           p == place_image(d, i, m, s, c, r)
<1>1. p = (IF top + m.r_rows[i] + 1 <= 0 \/ top >= r THEN d
           ELSE IF a.asset \in d.failed THEN fallen
           ELSE IF top + g.r <= 0 THEN d
           ELSE IF res.ok THEN shown ELSE lost)
  BY Zenon DEF place_image
<1>2. Sound(res.cache, LRU_CAP)
  <2> DEFINE w == slice_window(display_height(a, g.wpx), k, vis)
             wpx == g.wpx
             h == display_height(a, g.wpx)
  <2>1. Sound(d.slices, LRU_CAP)
    BY DEF DrawOK
  <2>2. Sound(slice_payload(a, wpx, w, d.slices).cache, LRU_CAP)
    <3> HIDE DEF a, wpx, w
    <3>1. QED
      BY <2>1, SlicePayloadSound
  <2> HIDE DEF a, g, whole, k, vis
  <2>3. QED
    BY <2>1, <2>2
<1>3. d = [screen |-> d.screen, failed |-> d.failed, slices |-> d.slices] /\ bad \subseteq d.failed
      /\ Sound(d.slices, LRU_CAP)
  BY DEF DrawOK
<1> HIDE DEF p, a, g, top, k, vis, whole, n
<1> HIDE DEF res
<1>4. \E x : fallen = [screen |-> x, failed |-> d.failed, slices |-> d.slices]
  BY <1>3, DrawParts
<1>5. \E x : shown = [screen |-> x, failed |-> d.failed, slices |-> res.cache]
  <2> DEFINE x == Drawn(d.screen, res.val, Max({0, top}), r)
             y == res.cache
  <2>1. shown = [d EXCEPT !.screen = x, !.slices = y]
    OBVIOUS
  <2> HIDE DEF x, y, shown
  <2>2. shown = [screen |-> x, failed |-> d.failed, slices |-> y]
    BY <1>3, <2>1, DrawParts
  <2>3. QED
    BY <2>2 DEF y
<1>6. \E x : lost = [screen |-> x, failed |-> d.failed \cup {a.asset}, slices |-> d.slices]
  <2> DEFINE x == Unknown(<<c, r>>)
             y == d.failed \cup {a.asset}
  <2>1. lost = [d EXCEPT !.screen = x, !.failed = y]
    OBVIOUS
  <2> HIDE DEF x, y, lost
  <2>2. lost = [screen |-> x, failed |-> y, slices |-> d.slices]
    BY <1>3, <2>1, DrawParts
  <2>3. QED
    BY <2>2 DEF y
<1>7. DrawOK(fallen, bad) /\ DrawOK(shown, bad) /\ DrawOK(lost, bad)
  <2> HIDE DEF fallen, shown, lost
  <2>1. DrawOK(fallen, bad)
    BY <1>3, <1>4 DEF DrawOK
  <2>2. DrawOK(shown, bad)
    BY <1>2, <1>3, <1>5 DEF DrawOK
  <2>3. DrawOK(lost, bad)
    BY <1>3, <1>6 DEF DrawOK
  <2>4. QED
    BY <2>1, <2>2, <2>3
<1>8. p \in {d, fallen, shown, lost}
  BY <1>1, Zenon
<1> HIDE DEF fallen, shown, lost
<1>9. QED
  BY <1>7, <1>8 DEF p

\* f[i] is the frame after its first i images.
Draws(f, base, m, s, c, r, n) ==
    f = [i \in 0 .. n |-> IF i = 0 THEN base ELSE place_image(f[i - 1], i, m, s, c, r)]

\* The same, as a first value and a step.
DrawSteps(f, base, m, s, c, r, n) ==
    f[0] = base /\ \A k \in 0 .. n : k + 1 \in 0 .. n => f[k + 1] = place_image(f[k], k + 1, m, s, c, r)

\* A table of drawings has its values.
LEMMA DrawsStep ==
    ASSUME NEW n \in Nat, NEW base, NEW m, NEW s, NEW c, NEW r, NEW f, Draws(f, base, m, s, c, r, n)
    PROVE  DrawSteps(f, base, m, s, c, r, n)
<1>1. 0 \in 0 .. n
  OBVIOUS
<1>2. f[0] = base
  BY <1>1, Zenon DEF Draws
<1>3. ASSUME NEW k \in 0 .. n, k + 1 \in 0 .. n
      PROVE  f[k + 1] = place_image(f[k], k + 1, m, s, c, r)
  <2>1. k + 1 # 0 /\ (k + 1) - 1 = k
    OBVIOUS
  <2>2. f[k + 1] = IF k + 1 = 0 THEN base ELSE place_image(f[(k + 1) - 1], k + 1, m, s, c, r)
    BY <1>3, Zenon DEF Draws
  <2>3. QED
    BY <2>1, <2>2, Zenon
<1>4. QED
  BY <1>2, <1>3 DEF DrawSteps

\* There is one more image to it.
LEMMA DrawsMore ==
    ASSUME NEW n \in Nat, NEW base, NEW m, NEW s, NEW c, NEW r, NEW f, Draws(f, base, m, s, c, r, n)
    PROVE  \E g : Draws(g, base, m, s, c, r, n + 1)
<1> DEFINE g == [i \in 0 .. n + 1 |-> IF i = 0 THEN base ELSE place_image(f[i - 1], i, m, s, c, r)]
<1>1. ASSUME NEW i \in 0 .. n PROVE g[i] = f[i]
  <2>1. f[i] = IF i = 0 THEN base ELSE place_image(f[i - 1], i, m, s, c, r)
    BY Zenon DEF Draws
  <2>2. i \in 0 .. n + 1
    OBVIOUS
  <2>3. QED
    BY <2>1, <2>2, Zenon
<1>2. \A i \in 0 .. n + 1 : i # 0 => i - 1 \in 0 .. n
  OBVIOUS
<1>3. g = [i \in 0 .. n + 1 |-> IF i = 0 THEN base ELSE place_image(g[i - 1], i, m, s, c, r)]
  <2>1. \A i \in 0 .. n + 1 : i # 0 => g[i - 1] = f[i - 1]
    BY <1>1, <1>2
  <2>2. QED
    BY <2>1, Zenon
<1> HIDE DEF g
<1>4. QED
  BY <1>3 DEF Draws

\* There is one for every number of images.
LEMMA DrawsExists ==
    ASSUME NEW n \in Nat, NEW base, NEW m, NEW s, NEW c, NEW r
    PROVE  \E f : Draws(f, base, m, s, c, r, n)
<1> DEFINE T == {k \in Nat : \E f : Draws(f, base, m, s, c, r, k)}
<1>1. 0 \in T
  <2> DEFINE f == [i \in 0 .. 0 |-> base]
  <2>1. \A i \in 0 .. 0 : i = 0
    OBVIOUS
  <2>2. f = [i \in 0 .. 0 |-> IF i = 0 THEN base ELSE place_image(f[i - 1], i, m, s, c, r)]
    BY <2>1, Zenon
  <2> HIDE DEF f
  <2>3. Draws(f, base, m, s, c, r, 0)
    BY <2>2, Zenon DEF Draws
  <2>4. QED
    BY <2>3
<1>2. \A k \in T : k + 1 \in T
  BY DrawsMore
<1>3. n \in T
  <2> HIDE DEF T
  <2>1. \A k \in 0 .. n : k \in T /\ k + 1 \in 0 .. n => k + 1 \in T
    BY <1>2
  <2>2. \A k \in 0 .. n : k \in T
    BY <1>1, <2>1, Induction, Zenon
  <2>3. QED
    BY <2>2
<1>4. QED
  BY <1>3

\* draw_frame forgets no failure and keeps the cache sound.
LEMMA DrawKeeps ==
    ASSUME NEW m, NEW s, NEW c, NEW r, NEW bad, Len(images) \in Nat, Sound(slices, LRU_CAP)
    PROVE  DrawOK(draw_frame(m, s, c, r, bad), bad)
<1> DEFINE n == Len(images)
           base == [screen |-> [y \in 0 .. (r - 1) |-> fill_model_row(m, s + y)],
                    failed |-> bad, slices |-> slices]
           F == CHOOSE f : Draws(f, base, m, s, c, r, n)
<1>1. draw_frame(m, s, c, r, bad) = F[n]
  BY DEF draw_frame, Draws
<1>2. DrawOK(base, bad)
  BY DEF DrawOK
<1>3. Draws(F, base, m, s, c, r, n)
  <2> HIDE DEF base
  <2>1. QED
    BY DrawsExists, Zenon
<1> HIDE DEF F, base, n
<1>4. n \in Nat
  BY DEF n
<1>s. DrawSteps(F, base, m, s, c, r, n)
  BY <1>3, <1>4, DrawsStep, Zenon
<1>5. F[0] = base
  BY <1>s, Zenon DEF DrawSteps
<1>6. \A k \in 0 .. n : k + 1 \in 0 .. n => F[k + 1] = place_image(F[k], k + 1, m, s, c, r)
  BY <1>s, Zenon DEF DrawSteps
<1> DEFINE T == {k \in 0 .. n : DrawOK(F[k], bad)}
<1>7. 0 \in T
  BY <1>2, <1>4, <1>5
<1>8. ASSUME NEW k \in 0 .. n, k \in T, k + 1 \in 0 .. n PROVE k + 1 \in T
  <2>1. DrawOK(F[k], bad)
    BY <1>8
  <2>2. DrawOK(place_image(F[k], k + 1, m, s, c, r), bad)
    BY <2>1, PlaceKeeps, Zenon
  <2>3. F[k + 1] = place_image(F[k], k + 1, m, s, c, r)
    BY <1>6, <1>8
  <2>4. QED
    BY <1>8, <2>2, <2>3
<1>9. \A k \in 0 .. n : k \in T
  <2>1. \A k \in 0 .. n : k \in T /\ k + 1 \in 0 .. n => k + 1 \in T
    BY <1>8
  <2> HIDE DEF T
  <2>2. QED
    BY <1>4, <1>7, <2>1, Induction, Zenon
<1>10. n \in 0 .. n
  BY <1>4
<1>11. QED
  BY <1>1, <1>9, <1>10

-----------------------------------------------------------------------------
\* What a row of the model can be.
Items == {"text", "image", "alt"} \X Nat

\* What is known of the images of an article that was opened.
ImagesOK ==
    /\ images \in Manifests /\ images # <<>> /\ preflight(images) /\ cell \in Cells

\* What preflight guarantees of the anchors.
LEMMA ImageFacts ==
    ASSUME ImagesOK
    PROVE  /\ Len(images) \in Nat \ {0} /\ DOMAIN images = 1 .. Len(images) /\ NLines \in Nat \ {0}
           /\ \A i \in DOMAIN images :
                 /\ images[i].block_start \in Nat /\ images[i].block_end \in Nat
                 /\ images[i].w \in Nat \ {0} /\ images[i].h \in Nat \ {0}
                 /\ images[i].indent_cols \in Nat /\ images[i].display_cols \in Nat
                 /\ images[i].block_start < images[i].block_end /\ images[i].block_end <= NLines
                 /\ i > 1 => images[i - 1].block_end <= images[i].block_start
<1>1. images \in Seq(Range(images))
  BY ManifestsAssumption DEF ImagesOK
<1>2. Len(images) \in Nat \ {0} /\ DOMAIN images = 1 .. Len(images)
  BY <1>1 DEF ImagesOK
<1>3. ASSUME NEW i \in DOMAIN images
      PROVE  /\ images[i].block_start \in Nat /\ images[i].block_end \in Nat
             /\ images[i].w \in Nat \ {0} /\ images[i].h \in Nat \ {0}
             /\ images[i].indent_cols \in Nat /\ images[i].display_cols \in Nat
             /\ images[i].block_start < images[i].block_end /\ images[i].block_end <= NLines
             /\ i > 1 => images[i - 1].block_end <= images[i].block_start
  <2>1. {images[i].block_start, images[i].block_end, images[i].w, images[i].h,
         images[i].indent_cols, images[i].display_cols} \subseteq Nat
    BY ManifestsAssumption DEF ImagesOK
  <2>2. AnchorOK(images[i]) /\ (i > 1 => images[i - 1].block_end <= images[i].block_start)
    BY DEF ImagesOK, preflight
  <2>3. QED
    BY <2>1, <2>2 DEF AnchorOK
<1>4. NLines \in Nat \ {0}
  BY LinesAssumption DEF ImagesOK, preflight
<1>5. QED
  BY <1>2, <1>3, <1>4

\* An image has at least one row, whatever the width.
LEMMA GeometryFacts ==
    ASSUME ImagesOK, NEW i \in DOMAIN images, NEW c \in Nat
    PROVE  /\ block_geometry(images[i], c).wpx \in Nat \ {0}
           /\ display_height(images[i], block_geometry(images[i], c).wpx) \in Nat \ {0}
           /\ block_geometry(images[i], c).r \in Nat \ {0}
<1> DEFINE a == images[i]
           avail == Max({0, c - a.indent_cols})
           asked == Min({a.display_cols, avail})
           wcols == Max({1, asked})
           wpx == wcols * cell.w
           h == display_height(a, wpx)
           r == CeilDiv(h, cell.h)
<1>1. a.w \in Nat \ {0} /\ a.h \in Nat \ {0} /\ a.indent_cols \in Nat /\ a.display_cols \in Nat
  BY ImageFacts
<1>2. cell.w \in Nat \ {0} /\ cell.h \in Nat \ {0}
  BY CellsAssumption DEF ImagesOK
<1>3. block_geometry(a, c) = [wpx |-> wpx, r |-> r]
  BY DEF block_geometry
<1> HIDE DEF a
<1>4. avail \in Nat
  <2>1. 0 \in Int /\ c - a.indent_cols \in Int
    BY <1>1
  <2>2. QED
    BY <2>1, MaxOfTwo
<1> HIDE DEF avail
<1>5. asked \in Nat
  BY <1>1, <1>4, MinOfTwo
<1> HIDE DEF asked
<1>6. wcols \in Nat \ {0}
  BY <1>5, MaxOfTwo
<1> HIDE DEF wcols
<1>7. wpx \in Nat \ {0}
  BY <1>2, <1>6
<1> HIDE DEF wpx
<1>8. h \in Nat \ {0}
  <2>1. wpx * a.h \in Nat
    BY <1>1, <1>7
  <2> DEFINE p == wpx * a.h
             q == p \div a.w
  <2> HIDE DEF p
  <2>2. q \in Int
    BY <1>1, <2>1 DEF p
  <2> HIDE DEF q
  <2>3. Max({1, q}) \in Nat \ {0}
    BY <2>2, MaxOfTwo
  <2>4. QED
    BY <2>3 DEF h, display_height, p, q
<1> HIDE DEF h
<1>9. r \in Nat \ {0}
  <2> DEFINE p == h + cell.h - 1
  <2>1. p \in Nat /\ p >= cell.h
    BY <1>2, <1>8
  <2> DEFINE d == cell.h
  <2>2. d \in Nat \ {0}
    BY <1>2
  <2> HIDE DEF p, d
  <2>3. p \div d \in Nat \ {0}
    BY <2>1, <2>2 DEF d
  <2>4. QED
    BY <2>3 DEF p, d, r, CeilDiv
<1>10. QED
  BY <1>3, <1>7, <1>8, <1>9 DEF a, h, wpx

-----------------------------------------------------------------------------
(* What build_model puts together, and where.                                *)

(* The parts of build_model, for the width c and the failed assets bad. *)
\* The parts build_model puts together, each by its name: is block i shown,
ShownIn(bad, i) == full_payload_ok(images[i], bad)
\* how many rows it takes,
RowsIn(c, i) == block_geometry(images[i], c).r
\* where the text before it begins,
GapFrom(i) == IF i = 1 THEN 0 ELSE images[i - 1].block_end
\* that text,
Gap(i) == TextLines(GapFrom(i), images[i].block_start)
\* the rows of the block,
Block(c, bad, i) ==
    IF ShownIn(bad, i)
    THEN [j \in 1..(RowsIn(c, i) + 1) |-> IF j <= RowsIn(c, i) THEN Image(i) ELSE Alt(i)]
    ELSE TextLines(images[i].block_start, images[i].block_end)
\* the text and the block,
Part(c, bad, i) == Gap(i) \o Block(c, bad, i)
\* the first n parts,
Upto(c, bad, n) == FlattenSeq([i \in 1..n |-> Part(c, bad, i)])
\* and the text after the last.
Rest == TextLines(Last(images).block_end, NLines)

\* build_model is the concatenation of the parts.
LEMMA BuildIs ==
    ASSUME NEW c, NEW bad
    PROVE  build_model(c, bad) =
             [items     |-> Upto(c, bad, Len(images)) \o Rest,
              block_row |-> [i \in DOMAIN images |-> Len(Upto(c, bad, i - 1)) + Len(Gap(i))],
              r_rows    |-> [i \in DOMAIN images |-> IF ShownIn(bad, i) THEN RowsIn(c, i) ELSE 0]]
  BY Zenon DEF build_model, Upto, Rest, Part, Block, Gap, GapFrom, ShownIn, RowsIn

\* A run of text.
LEMMA TextLinesFacts ==
    ASSUME NEW from \in Nat, NEW to \in Nat, from <= to
    PROVE  /\ TextLines(from, to) \in Seq(Items) /\ Len(TextLines(from, to)) = to - from
           /\ \A j \in 1 .. to - from : TextLines(from, to)[j] = Text(from + j - 1)
<1>1. \A j \in 1 .. to - from : Text(from + j - 1) \in Items
  <2> TAKE j \in 1 .. to - from
  <2>1. from + j - 1 \in Nat
    OBVIOUS
  <2>2. QED
    BY <2>1 DEF Text, Items
<1>2. to - from \in Nat
  OBVIOUS
<1> DEFINE t == [j \in 1 .. to - from |-> Text(from + j - 1)]
<1>3. t \in [1 .. to - from -> Items]
  BY <1>1
<1>4. t \in Seq(Items) /\ Len(t) = to - from
  BY <1>2, <1>3
<1>5. QED
  BY <1>4 DEF TextLines

\* The text before a block.
LEMMA GapFacts ==
    ASSUME ImagesOK, NEW i \in DOMAIN images
    PROVE  /\ Gap(i) \in Seq(Items) /\ GapFrom(i) \in Nat /\ GapFrom(i) <= images[i].block_start
           /\ Len(Gap(i)) = images[i].block_start - GapFrom(i)
           /\ \A j \in 1 .. images[i].block_start - GapFrom(i) : Gap(i)[j] = Text(GapFrom(i) + j - 1)
<1>1. GapFrom(i) \in Nat /\ GapFrom(i) <= images[i].block_start /\ images[i].block_start \in Nat
  <2>1. CASE i = 1
    BY <2>1, ImageFacts DEF GapFrom
  <2>2. CASE i # 1
    <3>1. i > 1 /\ i - 1 \in DOMAIN images
      BY <2>2, ImageFacts
    <3>2. QED
      BY <2>2, <3>1, ImageFacts DEF GapFrom
  <2>3. QED
    BY <2>1, <2>2
<1>2. QED
  BY <1>1, TextLinesFacts DEF Gap

\* The rows of a block: those of the image and the alt line, or the placeholder lines.
LEMMA BlockFacts ==
    ASSUME ImagesOK, NEW c \in Nat, NEW bad, NEW i \in DOMAIN images
    PROVE  /\ Block(c, bad, i) \in Seq(Items) /\ RowsIn(c, i) \in Nat \ {0}
           /\ ShownIn(bad, i) =>
                 /\ Len(Block(c, bad, i)) = RowsIn(c, i) + 1
                 /\ \A j \in 1 .. RowsIn(c, i) : Block(c, bad, i)[j] = Image(i)
                 /\ Block(c, bad, i)[RowsIn(c, i) + 1] = Alt(i)
           /\ ~ShownIn(bad, i) =>
                 /\ Len(Block(c, bad, i)) = images[i].block_end - images[i].block_start
                 /\ \A j \in 1 .. images[i].block_end - images[i].block_start :
                       Block(c, bad, i)[j] = Text(images[i].block_start + j - 1)
<1>1. RowsIn(c, i) \in Nat \ {0}
  BY GeometryFacts DEF RowsIn
<1>2. CASE ShownIn(bad, i)
  <2> DEFINE r == RowsIn(c, i)
             b == [j \in 1 .. (r + 1) |-> IF j <= r THEN Image(i) ELSE Alt(i)]
  <2>1. Block(c, bad, i) = b
    BY <1>2 DEF Block
  <2>2. Image(i) \in Items /\ Alt(i) \in Items
    <3>1. i \in Nat
      BY ImageFacts
    <3>2. QED
      BY <3>1 DEF Image, Alt, Items
  <2> HIDE DEF r
  <2>3. r \in Nat \ {0}
    BY <1>1 DEF r
  <2>4. /\ b \in [1 .. (r + 1) -> Items] /\ \A j \in 1 .. r : b[j] = Image(i)
        /\ b[r + 1] = Alt(i)
    BY <2>2, <2>3
  <2> HIDE DEF b
  <2>5. b \in Seq(Items) /\ Len(b) = r + 1
    BY <2>3, <2>4
  <2>6. QED
    BY <1>1, <1>2, <2>1, <2>4, <2>5 DEF r
<1>3. CASE ~ShownIn(bad, i)
  <2>1. Block(c, bad, i) = TextLines(images[i].block_start, images[i].block_end)
    BY <1>3 DEF Block
  <2>2. /\ images[i].block_start \in Nat /\ images[i].block_end \in Nat
        /\ images[i].block_start <= images[i].block_end
    BY ImageFacts
  <2> DEFINE from == images[i].block_start
             to == images[i].block_end
             b == Block(c, bad, i)
  <2>3. from \in Nat /\ to \in Nat /\ from <= to /\ b = TextLines(from, to)
    BY <2>1, <2>2
  <2> HIDE DEF from, to, b
  <2>4. /\ b \in Seq(Items) /\ Len(b) = to - from
        /\ \A j \in 1 .. to - from : b[j] = Text(from + j - 1)
    BY <2>3, TextLinesFacts, Zenon
  <2>5. QED
    BY <1>1, <1>3, <2>4, Zenon DEF from, to, b
<1>4. QED
  BY <1>2, <1>3

\* A concatenation, by index.
LEMMA ConcatFacts ==
    ASSUME NEW S, NEW a \in Seq(S), NEW b \in Seq(S)
    PROVE  /\ a \o b \in Seq(S) /\ Len(a \o b) = Len(a) + Len(b) /\ Len(a) \in Nat /\ Len(b) \in Nat
           /\ \A j \in 1 .. Len(a) : (a \o b)[j] = a[j]
           /\ \A j \in 1 .. Len(b) : (a \o b)[Len(a) + j] = b[j]
<1>3. a \o b \in Seq(S) /\ Len(a \o b) = Len(a) + Len(b)
      /\ \A j \in 1 .. Len(a) + Len(b) : (a \o b)[j] = IF j <= Len(a) THEN a[j] ELSE b[j - Len(a)]
  BY ConcatProperties
<1>4. Len(a) \in Nat /\ Len(b) \in Nat
  OBVIOUS
<1>5. \A j \in 1 .. Len(a) : (a \o b)[j] = a[j]
  BY <1>3, <1>4
<1>6. \A j \in 1 .. Len(b) : (a \o b)[Len(a) + j] = b[j]
  <2> TAKE j \in 1 .. Len(b)
  <2>1. Len(a) + j \in 1 .. Len(a) + Len(b) /\ ~(Len(a) + j <= Len(a)) /\ (Len(a) + j) - Len(a) = j
    BY <1>4
  <2>2. QED
    BY <1>3, <2>1
<1>7. QED
  BY <1>3, <1>4, <1>5, <1>6

\* A part, by index.
LEMMA PartFacts ==
    ASSUME ImagesOK, NEW c \in Nat, NEW bad, NEW i \in DOMAIN images
    PROVE  /\ Part(c, bad, i) \in Seq(Items)
           /\ Len(Part(c, bad, i)) = Len(Gap(i)) + Len(Block(c, bad, i))
           /\ \A j \in 1 .. Len(Gap(i)) : Part(c, bad, i)[j] = Gap(i)[j]
           /\ \A j \in 1 .. Len(Block(c, bad, i)) : Part(c, bad, i)[Len(Gap(i)) + j] = Block(c, bad, i)[j]
<1>1. Gap(i) \in Seq(Items) /\ Block(c, bad, i) \in Seq(Items)
  BY GapFacts, BlockFacts
<1> DEFINE g == Gap(i)
           b == Block(c, bad, i)
           p == Part(c, bad, i)
<1>2. p = g \o b
  BY DEF Part
<1> HIDE DEF g, b, p
<1>3. /\ g \o b \in Seq(Items) /\ Len(g \o b) = Len(g) + Len(b)
      /\ \A j \in 1 .. Len(g) : (g \o b)[j] = g[j]
      /\ \A j \in 1 .. Len(b) : (g \o b)[Len(g) + j] = b[j]
  BY <1>1, ConcatFacts DEF g, b
<1>4. QED
  BY <1>2, <1>3, Zenon DEF g, b, p

\* The first parts, one by one.
LEMMA UptoFacts ==
    ASSUME ImagesOK, NEW c \in Nat, NEW bad
    PROVE  /\ Upto(c, bad, 0) = <<>>
           /\ \A n \in 0 .. Len(images) : Upto(c, bad, n) \in Seq(Items)
           /\ \A n \in 0 .. Len(images) : n + 1 \in 0 .. Len(images) =>
                 Upto(c, bad, n + 1) = Upto(c, bad, n) \o Part(c, bad, n + 1)
<1> DEFINE N == Len(images)
           P(n) == [i \in 1 .. n |-> Part(c, bad, i)]
<1>1. N \in Nat /\ DOMAIN images = 1 .. N
  BY ImageFacts
<1>2. \A i \in 1 .. N : Part(c, bad, i) \in Seq(Items)
  BY <1>1, PartFacts
<1>3. Upto(c, bad, 0) = <<>>
  <2>1. [i \in 1 .. 0 |-> Part(c, bad, i)] = <<>>
    OBVIOUS
  <2>2. QED
    BY <2>1, FlattenEmpty DEF Upto
<1> DEFINE Q == Seq(Items)
<1>4. \A n \in 0 .. N : P(n) \in Seq(Q)
  <2> HIDE DEF Q
  <2>1. \A i \in 1 .. N : Part(c, bad, i) \in Q
    BY <1>2 DEF Q
  <2> HIDE DEF N
  <2> TAKE n \in 0 .. N
  <2>2. n \in Nat /\ P(n) \in [1 .. n -> Q]
    BY <1>1, <2>1
  <2> HIDE DEF P
  <2>3. QED
    BY <2>2
<1>5. \A n \in 0 .. N : Upto(c, bad, n) \in Seq(Items)
  BY <1>4, FlattenType DEF Upto
<1>6. ASSUME NEW n \in 0 .. N, n + 1 \in 0 .. N
      PROVE  Upto(c, bad, n + 1) = Upto(c, bad, n) \o Part(c, bad, n + 1)
  <2> DEFINE s == P(n)
             t == P(n + 1)
             x == Part(c, bad, n + 1)
  <2>1. n \in Nat /\ n + 1 \in 1 .. N
    BY <1>1, <1>6
  <2>2. s \in Seq(Q) /\ Len(s) = n /\ t \in Seq(Q) /\ Len(t) = n + 1 /\ x \in Q
    BY <1>2, <1>4, <1>6, <2>1
  <2>3. \A k \in 1 .. n + 1 : t[k] = Append(s, x)[k]
    <3>1. \A k \in 1 .. n : s[k] = t[k]
      BY <2>1
    <3>2. t[n + 1] = x
      BY <2>1
    <3> HIDE DEF s, t, x, Q
    <3>3. QED
      BY <2>1, <2>2, <3>1, <3>2
  <2>4. t = Append(s, x)
    <3> HIDE DEF s, t, x, Q
    <3>1. Append(s, x) \in Seq(Q) /\ Len(Append(s, x)) = n + 1
      BY <2>2
    <3>2. QED
      BY <2>2, <2>3, <3>1, SeqEqual
  <2>5. FlattenSeq(Append(s, x)) = FlattenSeq(s) \o x
    <3> HIDE DEF s, t, x
    <3>1. QED
      BY <2>2, FlattenAppend
  <2>6. QED
    BY <2>4, <2>5 DEF Upto
<1>7. QED
  BY <1>3, <1>5, <1>6

\* The text after the last block.
LEMMA RestFacts ==
    ASSUME ImagesOK
    PROVE  LET e == images[Len(images)].block_end IN
           /\ e \in Nat /\ e <= NLines
           /\ Rest \in Seq(Items) /\ Len(Rest) = NLines - e
           /\ \A j \in 1 .. NLines - e : Rest[j] = Text(e + j - 1)
<1> DEFINE e == images[Len(images)].block_end
<1>1. e \in Nat /\ e <= NLines /\ NLines \in Nat
  <2>1. Len(images) \in DOMAIN images
    BY ImageFacts
  <2>2. QED
    BY <2>1, ImageFacts
<1>2. Rest = TextLines(e, NLines)
  BY DEF Rest, Last
<1> HIDE DEF e
<1>3. /\ TextLines(e, NLines) \in Seq(Items) /\ Len(TextLines(e, NLines)) = NLines - e
      /\ \A j \in 1 .. NLines - e : TextLines(e, NLines)[j] = Text(e + j - 1)
  BY <1>1, TextLinesFacts
<1>4. QED
  BY <1>1, <1>2, <1>3, Zenon DEF e

\* a is the beginning of b.
Prefix(a, b) == Len(a) <= Len(b) /\ \A j \in 1 .. Len(a) : b[j] = a[j]

\* The beginning of a sequence is the beginning of what continues it.
LEMMA PrefixFacts ==
    ASSUME NEW a \in Seq(Items), NEW b \in Seq(Items), NEW x \in Seq(Items), Prefix(a, b)
    PROVE  Prefix(a, b \o x)
<1>1. /\ Len(b \o x) = Len(b) + Len(x) /\ Len(b) \in Nat /\ Len(x) \in Nat /\ Len(a) \in Nat
      /\ \A j \in 1 .. Len(b) : (b \o x)[j] = b[j]
  BY ConcatFacts
<1>2. QED
  BY <1>1 DEF Prefix

\* The model begins with its first parts.
LEMMA UptoPrefix ==
    ASSUME ImagesOK, NEW c \in Nat, NEW bad, NEW i \in 0 .. Len(images)
    PROVE  Prefix(Upto(c, bad, i), build_model(c, bad).items)
<1> DEFINE N == Len(images)
           U(n) == Upto(c, bad, n)
           T == {n \in 0 .. N : i <= n => Prefix(U(i), U(n))}
<1>1. N \in Nat
  BY ImageFacts
<1>2. /\ \A n \in 0 .. N : U(n) \in Seq(Items)
      /\ \A n \in 0 .. N : n + 1 \in 0 .. N => U(n + 1) = U(n) \o Part(c, bad, n + 1)
  BY UptoFacts
<1>3. \A n \in 1 .. N : Part(c, bad, n) \in Seq(Items)
  BY PartFacts, ImageFacts
<1> HIDE DEF U, N
<1>4. Prefix(U(i), U(i))
  <2>1. Len(U(i)) \in Nat
    BY <1>2 DEF N
  <2>2. QED
    BY <2>1 DEF Prefix
<1>5. 0 \in T
  <2>1. 0 \in 0 .. N /\ (i <= 0 => i = 0)
    BY <1>1 DEF N
  <2>2. QED
    BY <1>4, <2>1
<1>6. \A n \in 0 .. N : n \in T /\ n + 1 \in 0 .. N => n + 1 \in T
  <2> SUFFICES ASSUME NEW n \in 0 .. N, n \in T, n + 1 \in 0 .. N, i <= n + 1
               PROVE  Prefix(U(i), U(n + 1))
    OBVIOUS
  <2>1. CASE i = n + 1
    BY <1>4, <2>1
  <2>2. CASE i # n + 1
    <3>1. i <= n /\ n + 1 \in 1 .. N
      BY <2>2, <1>1 DEF N
    <3>2. Prefix(U(i), U(n))
      BY <3>1
    <3>3. i \in 0 .. N
      BY DEF N
    <3>4. Prefix(U(i), U(n) \o Part(c, bad, n + 1))
      BY <1>2, <1>3, <3>1, <3>2, <3>3, PrefixFacts
    <3>5. U(n + 1) = U(n) \o Part(c, bad, n + 1)
      BY <1>2
    <3>6. QED
      BY <3>4, <3>5, Zenon
  <2>3. QED
    BY <2>1, <2>2
<1> HIDE DEF T
<1>7. \A n \in 0 .. N : n \in T
  BY <1>1, <1>5, <1>6, Induction
<1>8. Prefix(U(i), U(N))
  <2>1. N \in 0 .. N /\ i <= N
    BY <1>1 DEF N
  <2>2. QED
    BY <1>7, <2>1 DEF T
<1>9. Rest \in Seq(Items)
  BY RestFacts
<1>10. build_model(c, bad).items = U(N) \o Rest
  BY BuildIs DEF U, N
<1>11. i \in 0 .. N /\ N \in 0 .. N
  BY <1>1 DEF N
<1>12. U(i) \in Seq(Items) /\ U(N) \in Seq(Items)
  BY <1>2, <1>11, Zenon
<1>13. Prefix(U(i), U(N) \o Rest)
  BY <1>8, <1>9, <1>12, PrefixFacts
<1>14. QED
  BY <1>10, <1>13, Zenon DEF U

\* Where the rows of the i-th part are.
Off(c, bad, i) == Len(Upto(c, bad, i - 1))

\* Part i where it is in the model m.
Placed(m, c, bad, i) ==
    /\ Off(c, bad, i) \in Nat /\ Off(c, bad, i + 1) \in Nat /\ Off(c, bad, i + 1) <= Len(m.items)
    /\ m.block_row[i] = Off(c, bad, i) + (images[i].block_start - GapFrom(i))
    /\ \A j \in 1 .. images[i].block_start - GapFrom(i) :
          m.items[Off(c, bad, i) + j] = Text(GapFrom(i) + j - 1)
    /\ ShownIn(bad, i) =>
          /\ m.r_rows[i] = RowsIn(c, i)
          /\ Off(c, bad, i + 1) = m.block_row[i] + RowsIn(c, i) + 1
          /\ \A j \in 1 .. RowsIn(c, i) : m.items[m.block_row[i] + j] = Image(i)
          /\ m.items[m.block_row[i] + RowsIn(c, i) + 1] = Alt(i)
    /\ ~ShownIn(bad, i) =>
          /\ m.r_rows[i] = 0
          /\ Off(c, bad, i + 1) = m.block_row[i] + (images[i].block_end - images[i].block_start)
          /\ \A j \in 1 .. images[i].block_end - images[i].block_start :
                m.items[m.block_row[i] + j] = Text(images[i].block_start + j - 1)

\* Each part is in its place in what build_model makes.
LEMMA PartPlaced ==
    ASSUME ImagesOK, NEW c \in Nat, NEW bad, NEW i \in DOMAIN images
    PROVE  Placed(build_model(c, bad), c, bad, i)
<1> DEFINE m == build_model(c, bad)
           g == Gap(i)
           b == Block(c, bad, i)
           p == Part(c, bad, i)
           u == Upto(c, bad, i - 1)
           v == Upto(c, bad, i)
           o == Len(u)
           from == images[i].block_start
           to == images[i].block_end
           gf == GapFrom(i)
<1>1. /\ i \in 1 .. Len(images) /\ i - 1 \in 0 .. Len(images) /\ i \in 0 .. Len(images)
      /\ (i - 1) + 1 = i /\ (i + 1) - 1 = i
  BY ImageFacts
<1>2. u \in Seq(Items) /\ v \in Seq(Items) /\ v = u \o p
  BY <1>1, UptoFacts
<1>3. /\ p \in Seq(Items) /\ Len(p) = Len(g) + Len(b)
      /\ \A j \in 1 .. Len(g) : p[j] = g[j]
      /\ \A j \in 1 .. Len(b) : p[Len(g) + j] = b[j]
  BY PartFacts
<1>4. Prefix(v, m.items)
  BY <1>1, UptoPrefix
<1>5. /\ gf \in Nat /\ gf <= from /\ Len(g) = from - gf
      /\ \A j \in 1 .. from - gf : g[j] = Text(gf + j - 1)
  BY GapFacts
<1>6. from \in Nat /\ to \in Nat /\ from < to
  BY ImageFacts
<1>7. m.block_row[i] = o + Len(g) /\ m.r_rows[i] = IF ShownIn(bad, i) THEN RowsIn(c, i) ELSE 0
  BY BuildIs
<1>8. Off(c, bad, i) = o /\ Off(c, bad, i + 1) = Len(v)
  BY <1>1 DEF Off
<1>9. b \in Seq(Items)
  BY BlockFacts
<1>10. /\ RowsIn(c, i) \in Nat \ {0}
       /\ ShownIn(bad, i) =>
               /\ Len(b) = RowsIn(c, i) + 1
               /\ \A j \in 1 .. RowsIn(c, i) : b[j] = Image(i)
               /\ b[RowsIn(c, i) + 1] = Alt(i)
       /\ ~ShownIn(bad, i) =>
               /\ Len(b) = to - from
               /\ \A j \in 1 .. to - from : b[j] = Text(from + j - 1)
  BY BlockFacts
<1> DEFINE r == RowsIn(c, i)
           shown == ShownIn(bad, i)
<1> HIDE DEF m, g, b, p, u, v, from, to, gf, r, shown
<1>11. /\ Len(v) = o + Len(p) /\ o \in Nat /\ Len(p) \in Nat
       /\ \A j \in 1 .. Len(p) : v[o + j] = p[j]
  <2> DEFINE Q == Items
  <2>1. u \in Seq(Q) /\ p \in Seq(Q)
    BY <1>2, <1>3
  <2> HIDE DEF Q
  <2>2. /\ Len(u \o p) = Len(u) + Len(p) /\ Len(u) \in Nat /\ Len(p) \in Nat
        /\ \A j \in 1 .. Len(p) : (u \o p)[Len(u) + j] = p[j]
    BY <2>1, ConcatFacts
  <2>3. QED
    BY <1>2, <2>2, Zenon
<1>12. Len(g) \in Nat /\ Len(b) \in Nat
  BY <1>5, <1>6, <1>9
<1>13. \A j \in 1 .. Len(p) : o + j \in 1 .. Len(v)
  BY <1>11
<1>14. \A j \in 1 .. Len(p) : m.items[o + j] = p[j]
  BY <1>4, <1>11, <1>13, Zenon DEF Prefix
<1>15. \A j \in 1 .. Len(g) : j \in 1 .. Len(p)
  BY <1>3, <1>12
<1>16. \A j \in 1 .. Len(g) : m.items[o + j] = g[j]
  BY <1>3, <1>14, <1>15, Zenon
<1>17. \A j \in 1 .. Len(b) : Len(g) + j \in 1 .. Len(p) /\ o + (Len(g) + j) = (o + Len(g)) + j
  BY <1>3, <1>11, <1>12
<1>18. \A j \in 1 .. Len(b) : m.items[(o + Len(g)) + j] = b[j]
  <2> TAKE j \in 1 .. Len(b)
  <2>1. m.items[o + (Len(g) + j)] = p[Len(g) + j]
    BY <1>14, <1>17, Zenon
  <2>2. QED
    BY <1>3, <1>17, <2>1, Zenon
<1>19. Len(v) <= Len(m.items)
  BY <1>4 DEF Prefix
<1>20. \A j \in 1 .. from - gf : m.items[o + j] = Text(gf + j - 1)
  BY <1>5, <1>16
<1>21. ASSUME shown
       PROVE  /\ m.r_rows[i] = r /\ Len(v) = m.block_row[i] + r + 1
              /\ \A j \in 1 .. r : m.items[m.block_row[i] + j] = Image(i)
              /\ m.items[m.block_row[i] + r + 1] = Alt(i)
  <2>1. /\ r \in Nat \ {0} /\ Len(b) = r + 1 /\ b[r + 1] = Alt(i)
        /\ \A j \in 1 .. r : b[j] = Image(i)
    BY <1>10, <1>21 DEF r, shown
  <2>2. \A j \in 1 .. r : j \in 1 .. Len(b)
    BY <2>1
  <2>3. \A j \in 1 .. r : m.items[m.block_row[i] + j] = Image(i)
    BY <1>7, <1>18, <2>1, <2>2, Zenon
  <2>4. r + 1 \in 1 .. Len(b) /\ (o + Len(g)) + (r + 1) = (o + Len(g)) + r + 1
    BY <1>11, <1>12, <2>1
  <2>5. m.items[m.block_row[i] + r + 1] = Alt(i)
    BY <1>7, <1>18, <2>1, <2>4, Zenon
  <2>6. m.r_rows[i] = r
    BY <1>7, <1>21, Zenon DEF r, shown
  <2>7. Len(v) = m.block_row[i] + r + 1
    BY <1>3, <1>7, <1>11, <1>12, <2>1
  <2>8. QED
    BY <2>3, <2>5, <2>6, <2>7
<1>22. ASSUME ~shown
       PROVE  /\ m.r_rows[i] = 0 /\ Len(v) = m.block_row[i] + (to - from)
              /\ \A j \in 1 .. to - from : m.items[m.block_row[i] + j] = Text(from + j - 1)
  <2>1. /\ Len(b) = to - from
        /\ \A j \in 1 .. to - from : b[j] = Text(from + j - 1)
    BY <1>10, <1>22, Zenon DEF shown
  <2>2. \A j \in 1 .. to - from : m.items[m.block_row[i] + j] = Text(from + j - 1)
    BY <1>7, <1>18, <2>1, Zenon
  <2>3. m.r_rows[i] = 0
    BY <1>7, <1>22, Zenon DEF shown
  <2>4. Len(v) = m.block_row[i] + (to - from)
    BY <1>3, <1>7, <1>11, <1>12, <2>1
  <2>5. QED
    BY <2>2, <2>3, <2>4
<1>23. Len(v) \in Nat
  BY <1>11
<1>24. QED
  BY <1>5, <1>7, <1>8, <1>11, <1>19, <1>20, <1>21, <1>22, <1>23, Zenon
     DEF Placed, m, from, to, gf, r, shown

\* The last text where it is in the model m.
RestPlaced(m, c, bad) ==
    LET n == Len(images) IN
    /\ Off(c, bad, n + 1) \in Nat /\ m.items \in Seq(Items)
    /\ Len(m.items) = Off(c, bad, n + 1) + (NLines - images[n].block_end)
    /\ \A j \in 1 .. NLines - images[n].block_end :
          m.items[Off(c, bad, n + 1) + j] = Text(images[n].block_end + j - 1)

\* The last text is in its place in what build_model makes.
LEMMA RestIsPlaced ==
    ASSUME ImagesOK, NEW c \in Nat, NEW bad
    PROVE  RestPlaced(build_model(c, bad), c, bad)
<1> DEFINE n == Len(images)
           u == Upto(c, bad, n)
           e == images[n].block_end
<1>1. n \in 0 .. Len(images) /\ n \in Nat /\ (n + 1) - 1 = n
  BY ImageFacts
<1>2. u \in Seq(Items)
  BY <1>1, UptoFacts
<1>3. /\ Rest \in Seq(Items) /\ Len(Rest) = NLines - e
      /\ \A j \in 1 .. NLines - e : Rest[j] = Text(e + j - 1)
  BY RestFacts
<1>4. build_model(c, bad).items = u \o Rest
  BY BuildIs
<1>5. Off(c, bad, n + 1) = Len(u)
  BY <1>1 DEF Off
<1> HIDE DEF u, e
<1>6. /\ u \o Rest \in Seq(Items) /\ Len(u \o Rest) = Len(u) + Len(Rest) /\ Len(u) \in Nat
      /\ \A j \in 1 .. Len(Rest) : (u \o Rest)[Len(u) + j] = Rest[j]
  BY <1>2, <1>3, ConcatFacts
<1>7. QED
  BY <1>3, <1>4, <1>5, <1>6, Zenon DEF RestPlaced, e

-----------------------------------------------------------------------------
(* The lines the rows account for.                                           *)

\* The rows of a shown block.
Laid(m, i) ==
    /\ m.block_row[i] \in Nat /\ m.r_rows[i] \in Nat \ {0}
    /\ m.block_row[i] + m.r_rows[i] < Len(m.items)
    /\ \A j \in 1 .. m.r_rows[i] : m.items[m.block_row[i] + j] = Image(i)
    /\ m.items[m.block_row[i] + m.r_rows[i] + 1] = Alt(i)

\* Row s takes the first line that is not yet accounted for from x to y.
TextRow(m, s, x, y) == m.items[s + 1] = Text(x) /\ y = x + 1
\* Row s of the block of image i: its first row accounts for all of its lines.
BlockRow(m, s, x, y, i) ==
    /\ Laid(m, i) /\ y = images[i].block_end
    /\ \/ s = m.block_row[i] /\ x = images[i].block_start
       \/ s \in m.block_row[i] + 1 .. m.block_row[i] + m.r_rows[i] /\ x = images[i].block_end
\* Row s of m takes the count of lines from x to y.
Row(m, s, x, y) == TextRow(m, s, x, y) \/ \E i \in DOMAIN images : BlockRow(m, s, x, y, i)

\* b counts the lines before each of the first k rows of m.
Walk(m, b, k) ==
    b \in [0 .. k -> Nat] /\ b[0] = 0 /\ \A s \in 0 .. k : s + 1 \in 0 .. k => Row(m, s, b[s], b[s + 1])
\* The first k rows of m account for the first n lines.
Path(m, k, n) == \E b : Walk(m, b, k) /\ b[k] = n

\* One row more.
LEMMA PathMore ==
    ASSUME NEW m, NEW k \in Nat, NEW x, NEW y \in Nat, Path(m, k, x), Row(m, k, x, y)
    PROVE  Path(m, k + 1, y)
<1>1. PICK b : Walk(m, b, k) /\ b[k] = x
  BY DEF Path
<1> DEFINE d == [s \in 0 .. k + 1 |-> IF s = k + 1 THEN y ELSE b[s]]
<1>2. b \in [0 .. k -> Nat] /\ b[0] = 0
  BY <1>1 DEF Walk
<1>3. d \in [0 .. k + 1 -> Nat] /\ d[0] = 0 /\ d[k + 1] = y /\ d[k] = x
  BY <1>1, <1>2
<1>4. ASSUME NEW s \in 0 .. k + 1, s + 1 \in 0 .. k + 1 PROVE Row(m, s, d[s], d[s + 1])
  <2>1. CASE s = k
    BY <1>3, <2>1
  <2>2. CASE s # k
    <3>1. s \in 0 .. k /\ s + 1 \in 0 .. k /\ d[s] = b[s] /\ d[s + 1] = b[s + 1]
      BY <1>4, <2>2
    <3>2. Row(m, s, b[s], b[s + 1])
      BY <1>1, <3>1 DEF Walk
    <3>3. QED
      BY <3>1, <3>2
  <2>3. QED
    BY <2>1, <2>2
<1> HIDE DEF d
<1>5. Walk(m, d, k + 1)
  BY <1>3, <1>4, Zenon DEF Walk
<1>6. QED
  BY <1>3, <1>5, Zenon DEF Path

\* No row, no line.
LEMMA PathStart == ASSUME NEW m PROVE Path(m, 0, 0)
<1> DEFINE b == [s \in 0 .. 0 |-> 0]
<1>1. b \in [0 .. 0 -> Nat] /\ b[0] = 0
  OBVIOUS
<1>2. \A s \in 0 .. 0 : ~(s + 1 \in 0 .. 0)
  OBVIOUS
<1> HIDE DEF b
<1>3. Walk(m, b, 0)
  BY <1>1, <1>2, Zenon DEF Walk
<1>4. QED
  BY <1>1, <1>3, Zenon DEF Path

\* A run of text accounts for its lines.
LEMMA TextRun ==
    ASSUME NEW m, NEW k \in Nat, NEW x \in Nat, NEW n \in Nat, Path(m, k, x),
           \A j \in 1 .. n : m.items[k + j] = Text(x + j - 1)
    PROVE  Path(m, k + n, x + n)
<1> DEFINE T == {j \in 0 .. n : Path(m, k + j, x + j)}
<1>1. 0 \in T
  <2>1. k + 0 = k /\ x + 0 = x /\ 0 \in 0 .. n
    OBVIOUS
  <2>2. QED
    BY <2>1
<1>2. ASSUME NEW j \in 0 .. n, j \in T, j + 1 \in 0 .. n PROVE j + 1 \in T
  <2>1. Path(m, k + j, x + j)
    BY <1>2
  <2>2. m.items[k + (j + 1)] = Text(x + (j + 1) - 1)
    BY <1>2
  <2>3. /\ k + (j + 1) = (k + j) + 1 /\ x + (j + 1) - 1 = x + j /\ x + (j + 1) = (x + j) + 1
        /\ k + j \in Nat /\ (x + j) + 1 \in Nat
    OBVIOUS
  <2>4. Row(m, k + j, x + j, (x + j) + 1)
    BY <2>2, <2>3 DEF Row, TextRow
  <2>5. Path(m, (k + j) + 1, (x + j) + 1)
    BY <2>1, <2>3, <2>4, PathMore
  <2>6. QED
    BY <1>2, <2>3, <2>5
<1>3. \A j \in 0 .. n : j \in T /\ j + 1 \in 0 .. n => j + 1 \in T
  BY <1>2
<1> HIDE DEF T
<1>4. \A j \in 0 .. n : j \in T
  BY <1>1, <1>3, Induction
<1>5. n \in T
  BY <1>4
<1>6. QED
  BY <1>5 DEF T

\* The rows of an image and its alt line account for the lines of its block.
LEMMA ImageRun ==
    ASSUME NEW m, NEW i \in DOMAIN images, Laid(m, i), images[i].block_end \in Nat,
           Path(m, m.block_row[i], images[i].block_start)
    PROVE  Path(m, m.block_row[i] + m.r_rows[i] + 1, images[i].block_end)
<1> DEFINE k == m.block_row[i]
           r == m.r_rows[i]
           e == images[i].block_end
           T == {j \in 0 .. r : Path(m, (k + 1) + j, e)}
<1>1. k \in Nat /\ r \in Nat \ {0} /\ e \in Nat
  BY DEF Laid
<1>2. Row(m, k, images[i].block_start, e)
  BY DEF Row, BlockRow
<1>3. ASSUME NEW s \in k + 1 .. k + r PROVE Row(m, s, e, e)
  BY DEF Row, BlockRow
<1>4. Path(m, k + 1, e)
  BY <1>1, <1>2, PathMore
<1> HIDE DEF k, r, e
<1>5. 0 \in T
  <2>1. (k + 1) + 0 = k + 1 /\ 0 \in 0 .. r
    BY <1>1
  <2>2. QED
    BY <1>4, <2>1
<1>6. ASSUME NEW j \in 0 .. r, j \in T, j + 1 \in 0 .. r PROVE j + 1 \in T
  <2>1. /\ (k + 1) + j \in k + 1 .. k + r /\ (k + 1) + j \in Nat
        /\ ((k + 1) + j) + 1 = (k + 1) + (j + 1)
    BY <1>1, <1>6
  <2>2. Row(m, (k + 1) + j, e, e)
    BY <1>3, <2>1, Zenon
  <2>3. Path(m, (k + 1) + j, e)
    BY <1>6
  <2>4. Path(m, ((k + 1) + j) + 1, e)
    BY <1>1, <2>1, <2>2, <2>3, PathMore
  <2>5. QED
    BY <1>6, <2>1, <2>4
<1>7. \A j \in 0 .. r : j \in T /\ j + 1 \in 0 .. r => j + 1 \in T
  BY <1>6
<1> HIDE DEF T
<1>8. \A j \in 0 .. r : j \in T
  BY <1>1, <1>5, <1>7, Induction
<1>9. r \in T /\ (k + 1) + r = k + r + 1
  BY <1>1, <1>8
<1>10. QED
  BY <1>9 DEF T, k, r, e

\* A part accounts for its lines.
LEMMA PartPath ==
    ASSUME ImagesOK, NEW c \in Nat, NEW bad, NEW i \in DOMAIN images,
           Path(build_model(c, bad), Off(c, bad, i), GapFrom(i))
    PROVE  Path(build_model(c, bad), Off(c, bad, i + 1), images[i].block_end)
<1> DEFINE m == build_model(c, bad)
           o == Off(c, bad, i)
           x == GapFrom(i)
           from == images[i].block_start
           to == images[i].block_end
<1>1. Placed(m, c, bad, i)
  BY PartPlaced
<1>2. x \in Nat /\ from \in Nat /\ x <= from /\ to \in Nat /\ from < to
  BY GapFacts, ImageFacts
<1>3. o \in Nat
  BY <1>1 DEF Placed
<1>a. from - x \in Nat /\ x + (from - x) = from
  BY <1>2
<1>4. Path(m, o + (from - x), from)
  <2> HIDE DEF m, o, x, from, to
  <2>1. from - x \in Nat /\ x + (from - x) = from
    BY <1>a
  <2>2. \A j \in 1 .. from - x : m.items[o + j] = Text(x + j - 1)
    BY <1>1 DEF Placed, m, o, x, from
  <2>3. Path(m, o, x)
    BY DEF m, o, x
  <2>4. Path(m, o + (from - x), x + (from - x))
    BY <1>2, <1>3, <2>1, <2>2, <2>3, TextRun
  <2>5. QED
    BY <2>1, <2>4
<1>5. m.block_row[i] = o + (from - x)
  BY <1>1 DEF Placed
<1>6. m.block_row[i] \in Nat
  <2> HIDE DEF m, o, x, from, to
  <2>1. QED
    BY <1>2, <1>3, <1>5
<1>7. CASE ShownIn(bad, i)
  <2>1. Laid(m, i)
    <3>1. m.r_rows[i] \in Nat \ {0}
      BY <1>1, <1>7, BlockFacts DEF Placed
    <3>2. /\ m.r_rows[i] = RowsIn(c, i)
          /\ Off(c, bad, i + 1) = m.block_row[i] + m.r_rows[i] + 1
          /\ Off(c, bad, i + 1) <= Len(m.items)
          /\ \A j \in 1 .. m.r_rows[i] : m.items[m.block_row[i] + j] = Image(i)
          /\ m.items[m.block_row[i] + m.r_rows[i] + 1] = Alt(i)
      BY <1>1, <1>7 DEF Placed
    <3>3. Len(m.items) \in Nat
      BY RestIsPlaced DEF RestPlaced
    <3> HIDE DEF m
    <3>4. m.block_row[i] + m.r_rows[i] < Len(m.items)
      BY <1>6, <3>1, <3>2, <3>3
    <3>5. QED
      BY <1>6, <3>1, <3>2, <3>4, Zenon DEF Laid
  <2>2. Path(m, m.block_row[i], from)
    BY <1>4, <1>5
  <2>3. Off(c, bad, i + 1) = m.block_row[i] + m.r_rows[i] + 1
    BY <1>1, <1>7 DEF Placed
  <2> HIDE DEF m
  <2>4. Path(m, m.block_row[i] + m.r_rows[i] + 1, to)
    BY <1>2, <2>1, <2>2, ImageRun
  <2>5. QED
    BY <2>3, <2>4 DEF m
<1>8. CASE ~ShownIn(bad, i)
  <2>1. /\ Off(c, bad, i + 1) = m.block_row[i] + (to - from)
        /\ \A j \in 1 .. to - from : m.items[m.block_row[i] + j] = Text(from + j - 1)
    BY <1>1, <1>8 DEF Placed
  <2>2. Path(m, m.block_row[i], from)
    BY <1>4, <1>5
  <2> HIDE DEF m, from, to
  <2>3. to - from \in Nat /\ from + (to - from) = to
    BY <1>2
  <2>4. Path(m, m.block_row[i] + (to - from), from + (to - from))
    BY <1>2, <1>6, <2>1, <2>2, <2>3, TextRun
  <2>5. QED
    BY <2>1, <2>3, <2>4 DEF m, to
<1>9. QED
  BY <1>7, <1>8

\* The model accounts for the article.
LEMMA WholePath ==
    ASSUME ImagesOK, NEW c \in Nat, NEW bad
    PROVE  Path(build_model(c, bad), Len(build_model(c, bad).items), NLines)
<1> DEFINE m == build_model(c, bad)
           N == Len(images)
           e == images[N].block_end
           T == {n \in 0 .. N : Path(m, Off(c, bad, n + 1), GapFrom(n + 1))}
<1>1. N \in Nat \ {0} /\ DOMAIN images = 1 .. N /\ NLines \in Nat /\ e \in Nat /\ e <= NLines
  <2>1. Len(images) \in DOMAIN images
    BY ImageFacts
  <2>2. QED
    BY <2>1, ImageFacts
<1>2. 0 \in T
  <2>1. Off(c, bad, 0 + 1) = 0
    <3>1. (0 + 1) - 1 = 0 /\ Len(<<>>) = 0
      OBVIOUS
    <3>2. QED
      BY <3>1, UptoFacts DEF Off
  <2>2. GapFrom(0 + 1) = 0
    BY DEF GapFrom
  <2>3. Path(m, 0, 0)
    <3> HIDE DEF m
    <3>1. QED
      BY PathStart
  <2>4. 0 \in 0 .. N
    BY <1>1
  <2>5. QED
    BY <2>1, <2>2, <2>3, <2>4
<1>3. ASSUME NEW n \in 0 .. N, n \in T, n + 1 \in 0 .. N PROVE n + 1 \in T
  <2>1. n + 1 \in DOMAIN images /\ (n + 1) + 1 # 1 /\ ((n + 1) + 1) - 1 = n + 1
    BY <1>1, <1>3
  <2>2. Path(m, Off(c, bad, n + 1), GapFrom(n + 1))
    BY <1>3
  <2>3. Path(m, Off(c, bad, (n + 1) + 1), images[n + 1].block_end)
    BY <2>1, <2>2, PartPath
  <2>4. GapFrom((n + 1) + 1) = images[n + 1].block_end
    BY <2>1 DEF GapFrom
  <2>5. QED
    BY <1>3, <2>3, <2>4
<1>4. \A n \in 0 .. N : n \in T /\ n + 1 \in 0 .. N => n + 1 \in T
  BY <1>3
<1> HIDE DEF T, N
<1>5. \A n \in 0 .. N : n \in T
  BY <1>1, <1>2, <1>4, Induction
<1>6. N \in T
  BY <1>1, <1>5
<1>7. GapFrom(N + 1) = e
  <2>1. N + 1 # 1 /\ (N + 1) - 1 = N
    BY <1>1
  <2>2. QED
    BY <2>1 DEF GapFrom
<1>8. Path(m, Off(c, bad, N + 1), e)
  BY <1>6, <1>7 DEF T
<1>9. RestPlaced(m, c, bad)
  BY RestIsPlaced
<1>10. /\ Off(c, bad, N + 1) \in Nat /\ Len(m.items) = Off(c, bad, N + 1) + (NLines - e)
       /\ \A j \in 1 .. NLines - e : m.items[Off(c, bad, N + 1) + j] = Text(e + j - 1)
  BY <1>9, Zenon DEF RestPlaced, N
<1> HIDE DEF m, e
<1>11. NLines - e \in Nat /\ e + (NLines - e) = NLines
  BY <1>1
<1>12. Path(m, Off(c, bad, N + 1) + (NLines - e), e + (NLines - e))
  BY <1>1, <1>8, <1>10, <1>11, TextRun
<1>13. Path(m, Len(m.items), NLines)
  BY <1>10, <1>11, <1>12, Zenon
<1>14. QED
  BY <1>13 DEF m

-----------------------------------------------------------------------------
(* The lines are in order, and none is missing.                              *)

\* The line that row s stands for.
LineAt(m, s) == line_of(m.items[s + 1])

\* The lines that rows stand for never go back.
Orderly(m) ==
    /\ m.items \in Seq(Items) /\ Len(m.items) \in Nat \ {0}
    /\ \A s \in 0 .. Len(m.items) - 1 : LineAt(m, s) \in Nat
    /\ \A s, t \in 0 .. Len(m.items) - 1 : s <= t => LineAt(m, s) <= LineAt(m, t)

\* The line of each kind of row.
LEMMA LineOfItem ==
    ASSUME NEW i
    PROVE  /\ line_of(Text(i)) = i
           /\ line_of(Image(i)) = images[i].block_start
           /\ line_of(Alt(i)) = images[i].block_start
  BY DEF line_of, Text, Image, Alt

\* A row within a block.
Within(m, s, i) ==
    /\ Laid(m, i) /\ s \in m.block_row[i] .. m.block_row[i] + m.r_rows[i]

\* All rows of a block stand for its first line.
LEMMA WithinLine ==
    ASSUME NEW m, NEW s, NEW i, Within(m, s, i)
    PROVE  LineAt(m, s) = images[i].block_start
<1> DEFINE k == m.block_row[i]
           r == m.r_rows[i]
<1>1. k \in Nat /\ r \in Nat \ {0} /\ s \in k .. k + r
  BY DEF Within, Laid
<1>2. /\ \A j \in 1 .. r : m.items[k + j] = Image(i)
      /\ m.items[k + r + 1] = Alt(i)
  BY DEF Within, Laid
<1> HIDE DEF k, r
<1>3. CASE s = k + r
  <2>1. s + 1 = k + r + 1
    BY <1>1, <1>3
  <2>2. QED
    BY <1>2, <2>1, LineOfItem DEF LineAt
<1>4. CASE s # k + r
  <2>1. s + 1 - k \in 1 .. r /\ s + 1 = k + (s + 1 - k)
    BY <1>1, <1>4
  <2>2. m.items[s + 1] = Image(i)
    BY <1>2, <2>1
  <2>3. QED
    BY <2>2, LineOfItem DEF LineAt
<1>5. QED
  BY <1>3, <1>4

\* A row stands for a line it is counted by.
LEMMA RowLine ==
    ASSUME ImagesOK, NEW m, NEW s \in Nat, NEW x \in Nat, NEW y, Row(m, s, x, y)
    PROVE  /\ LineAt(m, s) \in Nat /\ LineAt(m, s) <= x /\ y \in Nat /\ x <= y
           /\ \/ LineAt(m, s) = x
              \/ \E i \in DOMAIN images : Within(m, s, i) /\ s \in m.block_row[i] + 1 .. m.block_row[i] + m.r_rows[i]
<1>1. CASE TextRow(m, s, x, y)
  <2>1. LineAt(m, s) = x /\ y = x + 1
    BY <1>1, LineOfItem DEF TextRow, LineAt
  <2>2. QED
    BY <2>1
<1>2. ASSUME NEW i \in DOMAIN images, BlockRow(m, s, x, y, i)
      PROVE  /\ LineAt(m, s) \in Nat /\ LineAt(m, s) <= x /\ y \in Nat /\ x <= y
             /\ \/ LineAt(m, s) = x
                \/ Within(m, s, i) /\ s \in m.block_row[i] + 1 .. m.block_row[i] + m.r_rows[i]
  <2>1. images[i].block_start \in Nat /\ images[i].block_end \in Nat /\ images[i].block_start < images[i].block_end
    BY ImageFacts
  <2>2. Laid(m, i) /\ y = images[i].block_end
    BY <1>2 DEF BlockRow
  <2>3. m.block_row[i] \in Nat /\ m.r_rows[i] \in Nat \ {0}
    BY <2>2 DEF Laid
  <2>4. CASE s = m.block_row[i] /\ x = images[i].block_start
    <3>1. s \in m.block_row[i] .. m.block_row[i] + m.r_rows[i]
      BY <2>3, <2>4
    <3>2. LineAt(m, s) = images[i].block_start
      BY <2>2, <3>1, WithinLine DEF Within
    <3>3. QED
      BY <2>1, <2>2, <2>4, <3>2
  <2>5. CASE s \in m.block_row[i] + 1 .. m.block_row[i] + m.r_rows[i] /\ x = images[i].block_end
    <3>1. s \in m.block_row[i] .. m.block_row[i] + m.r_rows[i]
      BY <2>3, <2>5
    <3>2. Within(m, s, i)
      BY <2>2, <3>1 DEF Within
    <3>3. LineAt(m, s) = images[i].block_start
      BY <3>2, WithinLine
    <3>4. QED
      BY <2>1, <2>2, <2>5, <3>2, <3>3
  <2>6. QED
    BY <1>2, <2>4, <2>5 DEF BlockRow
<1>3. QED
  BY <1>1, <1>2 DEF Row

\* The next row stands for no earlier line.
LEMMA NextLine ==
    ASSUME ImagesOK, NEW m, NEW s \in Nat, NEW x \in Nat, NEW y, NEW z, Row(m, s, x, y), Row(m, s + 1, y, z)
    PROVE  LineAt(m, s) <= LineAt(m, s + 1)
<1>1. LineAt(m, s) \in Nat /\ LineAt(m, s) <= x /\ y \in Nat /\ x <= y
  BY RowLine
<1>2. \/ LineAt(m, s + 1) = y
      \/ \E i \in DOMAIN images : Within(m, s + 1, i) /\ s + 1 \in m.block_row[i] + 1 .. m.block_row[i] + m.r_rows[i]
  <2>1. s + 1 \in Nat
    OBVIOUS
  <2>2. QED
    BY <1>1, <2>1, RowLine
<1>3. CASE LineAt(m, s + 1) = y
  BY <1>1, <1>3
<1>4. ASSUME NEW i \in DOMAIN images, Within(m, s + 1, i), s + 1 \in m.block_row[i] + 1 .. m.block_row[i] + m.r_rows[i]
      PROVE  LineAt(m, s) <= LineAt(m, s + 1)
  <2>1. Laid(m, i) /\ m.block_row[i] \in Nat /\ m.r_rows[i] \in Nat
    BY <1>4 DEF Within, Laid
  <2>2. s \in m.block_row[i] .. m.block_row[i] + m.r_rows[i]
    BY <1>4, <2>1
  <2>3. LineAt(m, s) = LineAt(m, s + 1)
    BY <1>4, <2>1, <2>2, WithinLine DEF Within
  <2>4. QED
    BY <1>1, <2>3
<1>5. QED
  BY <1>2, <1>3, <1>4

\* What build_model makes is orderly.
LEMMA ModelOrder ==
    ASSUME ImagesOK, NEW c \in Nat, NEW bad
    PROVE  Orderly(build_model(c, bad))
<1> DEFINE m == build_model(c, bad)
           K == Len(m.items)
<1>1. m.items \in Seq(Items)
  BY RestIsPlaced DEF RestPlaced
<1>2. PICK b : Walk(m, b, K) /\ b[K] = NLines
  BY WholePath DEF Path
<1> HIDE DEF m
<1>3. K \in Nat
  BY <1>1
<1>4. NLines \in Nat \ {0}
  BY ImageFacts
<1>5. b \in [0 .. K -> Nat] /\ b[0] = 0
  BY <1>2 DEF Walk
<1>6. K # 0
  BY <1>2, <1>4, <1>5
<1> HIDE DEF K
<1>7. ASSUME NEW s \in 0 .. K - 1 PROVE b[s] \in Nat /\ b[s + 1] \in Nat /\ Row(m, s, b[s], b[s + 1])
  <2>1. s \in 0 .. K /\ s + 1 \in 0 .. K
    BY <1>3
  <2>2. QED
    BY <1>2, <1>5, <2>1 DEF Walk
<1>8. \A s \in 0 .. K - 1 : LineAt(m, s) \in Nat
  <2> TAKE s \in 0 .. K - 1
  <2>1. s \in Nat
    BY <1>3
  <2>2. QED
    BY <1>7, <2>1, RowLine
<1>9. ASSUME NEW s \in 0 .. K - 1, s + 1 \in 0 .. K - 1 PROVE LineAt(m, s) <= LineAt(m, s + 1)
  <2>1. s \in Nat
    BY <1>3
  <2>2. Row(m, s, b[s], b[s + 1]) /\ b[s] \in Nat
    BY <1>7
  <2>3. Row(m, s + 1, b[s + 1], b[(s + 1) + 1])
    BY <1>7, <1>9
  <2>4. QED
    BY <2>1, <2>2, <2>3, NextLine
<1>10. ASSUME NEW s \in 0 .. K - 1, NEW t \in 0 .. K - 1, s <= t
       PROVE  LineAt(m, s) <= LineAt(m, t)
  <2> DEFINE n == t - s
             T == {d \in 0 .. n : LineAt(m, s) <= LineAt(m, s + d)}
  <2>1. n \in Nat /\ s + n = t
    BY <1>3, <1>10
  <2>2. 0 \in T
    <3>1. s + 0 = s /\ LineAt(m, s) <= LineAt(m, s) /\ 0 \in 0 .. n
      BY <1>3, <1>8, <2>1
    <3>2. QED
      BY <3>1
  <2>3. ASSUME NEW d \in 0 .. n, d \in T, d + 1 \in 0 .. n PROVE d + 1 \in T
    <3>1. s + d \in 0 .. K - 1 /\ (s + d) + 1 \in 0 .. K - 1 /\ (s + d) + 1 = s + (d + 1)
      BY <1>3, <1>10, <2>3
    <3>2. LineAt(m, s) <= LineAt(m, s + d)
      BY <2>3
    <3>3. LineAt(m, s + d) <= LineAt(m, (s + d) + 1)
      BY <1>9, <3>1
    <3>4. LineAt(m, s) \in Nat /\ LineAt(m, s + d) \in Nat /\ LineAt(m, (s + d) + 1) \in Nat
      BY <1>8, <3>1
    <3>5. LineAt(m, s) <= LineAt(m, (s + d) + 1)
      BY <3>2, <3>3, <3>4
    <3>6. LineAt(m, s) <= LineAt(m, s + (d + 1))
      BY <3>1, <3>5
    <3>7. QED
      BY <2>3, <3>6
  <2>4. \A d \in 0 .. n : d \in T /\ d + 1 \in 0 .. n => d + 1 \in T
    BY <2>3
  <2> HIDE DEF T, n
  <2>5. \A d \in 0 .. n : d \in T
    BY <2>1, <2>2, <2>4, Induction
  <2>6. n \in T
    BY <2>1, <2>5
  <2>7. QED
    BY <2>1, <2>6 DEF T
<1>11. QED
  BY <1>1, <1>3, <1>6, <1>8, <1>10 DEF Orderly, K, m

\* A row of q stands for the line.
HasLine(q, line) == \E k \in 1 .. Len(q) : line_of(q[k]) = line

\* The lines of a concatenation.
LEMMA HasLineConcat ==
    ASSUME NEW a \in Seq(Items), NEW b \in Seq(Items), NEW line
    PROVE  HasLine(a \o b, line) <=> HasLine(a, line) \/ HasLine(b, line)
<1>1. /\ a \o b \in Seq(Items) /\ Len(a \o b) = Len(a) + Len(b) /\ Len(a) \in Nat /\ Len(b) \in Nat
      /\ \A j \in 1 .. Len(a) : (a \o b)[j] = a[j]
      /\ \A j \in 1 .. Len(b) : (a \o b)[Len(a) + j] = b[j]
  BY ConcatFacts
<1> DEFINE ab == a \o b
<1> HIDE DEF ab
<1>2. ASSUME NEW k \in 1 .. Len(ab), line_of(ab[k]) = line
      PROVE  HasLine(a, line) \/ HasLine(b, line)
  <2>1. CASE k <= Len(a)
    <3>1. k \in 1 .. Len(a) /\ ab[k] = a[k]
      BY <1>1, <2>1 DEF ab
    <3>2. QED
      BY <1>2, <3>1 DEF HasLine
  <2>2. CASE ~(k <= Len(a))
    <3>1. k - Len(a) \in 1 .. Len(b) /\ Len(a) + (k - Len(a)) = k
      BY <1>1, <2>2 DEF ab
    <3>2. ab[k] = b[k - Len(a)]
      BY <1>1, <3>1 DEF ab
    <3>3. QED
      BY <1>2, <3>1, <3>2 DEF HasLine
  <2>3. QED
    BY <2>1, <2>2
<1>3. ASSUME NEW k \in 1 .. Len(a), line_of(a[k]) = line
      PROVE  HasLine(ab, line)
  <2>1. k \in 1 .. Len(ab) /\ ab[k] = a[k]
    BY <1>1 DEF ab
  <2>2. QED
    BY <1>3, <2>1 DEF HasLine
<1>4. ASSUME NEW k \in 1 .. Len(b), line_of(b[k]) = line
      PROVE  HasLine(ab, line)
  <2>1. Len(a) + k \in 1 .. Len(ab) /\ ab[Len(a) + k] = b[k]
    BY <1>1 DEF ab
  <2>2. QED
    BY <1>4, <2>1 DEF HasLine
<1>5. QED
  BY <1>2, <1>3, <1>4 DEF HasLine, ab

\* The lines of q all stand in q2 too.
Covers(q, q2) == \A line : HasLine(q, line) => HasLine(q2, line)

\* Covering is part by part.
LEMMA CoversConcat ==
    ASSUME NEW a \in Seq(Items), NEW b \in Seq(Items), NEW d \in Seq(Items), NEW e \in Seq(Items),
           Covers(a, d), Covers(b, e)
    PROVE  Covers(a \o b, d \o e)
<1> SUFFICES ASSUME NEW line, HasLine(a \o b, line) PROVE HasLine(d \o e, line)
  BY DEF Covers
<1>1. HasLine(a, line) \/ HasLine(b, line)
  BY HasLineConcat
<1>2. HasLine(d, line) \/ HasLine(e, line)
  BY <1>1 DEF Covers
<1>3. QED
  BY <1>2, HasLineConcat

\* A block that is degraded still has the line its image stood for.
LEMMA BlockCovers ==
    ASSUME ImagesOK, NEW c \in Nat, NEW bad, NEW c2 \in Nat, NEW bad2, bad \subseteq bad2,
           NEW i \in DOMAIN images
    PROVE  Covers(Block(c, bad, i), Block(c2, bad2, i))
<1> DEFINE from == images[i].block_start
           to == images[i].block_end
           b == Block(c, bad, i)
           b2 == Block(c2, bad2, i)
<1>1. from \in Nat /\ to \in Nat /\ from < to
  BY ImageFacts
<1>2. /\ RowsIn(c, i) \in Nat \ {0}
      /\ ShownIn(bad, i) =>
               /\ Len(b) = RowsIn(c, i) + 1
               /\ \A j \in 1 .. RowsIn(c, i) : b[j] = Image(i)
               /\ b[RowsIn(c, i) + 1] = Alt(i)
  BY BlockFacts
<1>3. /\ RowsIn(c2, i) \in Nat \ {0}
      /\ ShownIn(bad2, i) =>
               /\ Len(b2) = RowsIn(c2, i) + 1
               /\ \A j \in 1 .. RowsIn(c2, i) : b2[j] = Image(i)
      /\ ~ShownIn(bad2, i) =>
               /\ Len(b2) = to - from
               /\ \A j \in 1 .. to - from : b2[j] = Text(from + j - 1)
  BY BlockFacts
<1>4. HasLine(b2, from)
  <2>1. CASE ShownIn(bad2, i)
    <3>1. 1 \in 1 .. Len(b2) /\ b2[1] = Image(i)
      BY <1>3, <2>1
    <3>2. QED
      BY <3>1, LineOfItem DEF HasLine
  <2>2. CASE ~ShownIn(bad2, i)
    <3>1. 1 \in 1 .. Len(b2) /\ b2[1] = Text(from + 1 - 1) /\ from + 1 - 1 = from
      BY <1>1, <1>3, <2>2
    <3>2. QED
      BY <3>1, LineOfItem DEF HasLine
  <2>3. QED
    BY <2>1, <2>2
<1>5. CASE ShownIn(bad, i)
  <2> SUFFICES ASSUME NEW line, NEW k \in 1 .. Len(b), line_of(b[k]) = line PROVE HasLine(b2, line)
    BY DEF Covers, HasLine
  <2>1. b[k] \in {Image(i), Alt(i)}
    <3>1. k \in 1 .. RowsIn(c, i) \/ k = RowsIn(c, i) + 1
      BY <1>2, <1>5
    <3>2. QED
      BY <1>2, <1>5, <3>1
  <2>2. line = from
    BY <2>1, LineOfItem
  <2>3. QED
    BY <1>4, <2>2
<1>6. CASE ~ShownIn(bad, i)
  <2>1. ~ShownIn(bad2, i)
    BY <1>6 DEF ShownIn, full_payload_ok
  <2>2. b = b2
    BY <1>6, <2>1, Zenon DEF Block
  <2>3. QED
    BY <2>2 DEF Covers
<1>7. QED
  BY <1>5, <1>6

\* With another width and more failures, the model still has every line that rows stood for.
LEMMA ModelCovers ==
    ASSUME ImagesOK, NEW c \in Nat, NEW bad, NEW c2 \in Nat, NEW bad2, bad \subseteq bad2
    PROVE  Covers(build_model(c, bad).items, build_model(c2, bad2).items)
<1> DEFINE N == Len(images)
           U(n) == Upto(c, bad, n)
           V(n) == Upto(c2, bad2, n)
           T == {n \in 0 .. N : Covers(U(n), V(n))}
<1>1. N \in Nat
  BY ImageFacts
<1>2. ASSUME NEW q PROVE Covers(q, q)
  BY DEF Covers
<1>3. ASSUME NEW i \in 1 .. N
      PROVE  /\ Part(c, bad, i) \in Seq(Items) /\ Part(c2, bad2, i) \in Seq(Items)
             /\ Covers(Part(c, bad, i), Part(c2, bad2, i))
  <2>1. i \in DOMAIN images
    BY ImageFacts
  <2>2. Gap(i) \in Seq(Items) /\ Block(c, bad, i) \in Seq(Items) /\ Block(c2, bad2, i) \in Seq(Items)
    BY <2>1, GapFacts, BlockFacts
  <2>3. Covers(Block(c, bad, i), Block(c2, bad2, i))
    BY <2>1, BlockCovers
  <2>4. Covers(Gap(i) \o Block(c, bad, i), Gap(i) \o Block(c2, bad2, i))
    BY <1>2, <2>2, <2>3, CoversConcat
  <2>5. QED
    BY <2>1, <2>4, PartFacts DEF Part
<1>4. /\ U(0) = <<>> /\ V(0) = <<>>
      /\ \A n \in 0 .. N : U(n) \in Seq(Items) /\ V(n) \in Seq(Items)
      /\ \A n \in 0 .. N : n + 1 \in 0 .. N =>
            U(n + 1) = U(n) \o Part(c, bad, n + 1) /\ V(n + 1) = V(n) \o Part(c2, bad2, n + 1)
  BY UptoFacts
<1> HIDE DEF U, V, N
<1>5. 0 \in T
  <2>1. 0 \in 0 .. N
    BY <1>1
  <2>2. QED
    BY <1>2, <1>4, <2>1
<1>6. \A n \in 0 .. N : n \in T /\ n + 1 \in 0 .. N => n + 1 \in T
  <2> SUFFICES ASSUME NEW n \in 0 .. N, n \in T, n + 1 \in 0 .. N
               PROVE  Covers(U(n + 1), V(n + 1))
    OBVIOUS
  <2>1. n + 1 \in 1 .. N
    BY <1>1
  <2>2. Covers(U(n), V(n))
    OBVIOUS
  <2>3. Covers(U(n) \o Part(c, bad, n + 1), V(n) \o Part(c2, bad2, n + 1))
    BY <1>3, <1>4, <2>1, <2>2, CoversConcat
  <2>4. QED
    BY <1>4, <2>3
<1> HIDE DEF T
<1>7. \A n \in 0 .. N : n \in T
  BY <1>1, <1>5, <1>6, Induction
<1>8. N \in 0 .. N
  BY <1>1
<1>9. Covers(U(N), V(N)) /\ U(N) \in Seq(Items) /\ V(N) \in Seq(Items)
  BY <1>4, <1>7, <1>8 DEF T
<1>10. Rest \in Seq(Items)
  BY RestFacts
<1>11. Covers(U(N) \o Rest, V(N) \o Rest)
  BY <1>2, <1>9, <1>10, CoversConcat
<1>12. QED
  BY <1>11, BuildIs DEF U, V, N

\* scroll_to_line finds the first row of a line that is there.
LEMMA ScrollTo ==
    ASSUME NEW m, Orderly(m), NEW line, HasLine(m.items, line)
    PROVE  /\ scroll_to_line(m, line) \in 0 .. Len(m.items) - 1
           /\ LineAt(m, scroll_to_line(m, line)) = line
<1> DEFINE K == Len(m.items)
           S == {s \in 0 .. (K - 1) : line_of(m.items[s + 1]) >= line}
           s0 == scroll_to_line(m, line)
<1>1. K \in Nat \ {0} /\ S \subseteq 0 .. K - 1
  BY DEF Orderly
<1>2. PICK k \in 1 .. K : line_of(m.items[k]) = line
  BY DEF HasLine
<1>3. k - 1 \in 0 .. K - 1 /\ (k - 1) + 1 = k
  BY <1>1
<1>4. LineAt(m, k - 1) = line /\ line \in Nat
  BY <1>2, <1>3 DEF LineAt, Orderly
<1>5. k - 1 \in S
  BY <1>3, <1>4 DEF LineAt
<1>6. s0 \in {K} \cup S /\ \A t \in {K} \cup S : s0 <= t
  <2>1. s0 = Min({K} \cup S)
    BY DEF scroll_to_line
  <2> HIDE DEF S, K, s0
  <2>2. {K} \cup S \subseteq Nat /\ {K} \cup S # {}
    BY <1>1
  <2>3. QED
    BY <2>1, <2>2, MinOfMany
<1> HIDE DEF S, K, s0
<1>7. s0 <= k - 1 /\ s0 # K /\ s0 \in S /\ s0 \in 0 .. K - 1
  BY <1>1, <1>3, <1>5, <1>6
<1>8. LineAt(m, s0) >= line
  BY <1>7 DEF S, LineAt
<1>9. LineAt(m, s0) <= LineAt(m, k - 1) /\ LineAt(m, s0) \in Nat
  BY <1>3, <1>7 DEF Orderly, K
<1>10. LineAt(m, s0) = line
  BY <1>4, <1>8, <1>9
<1>11. QED
  BY <1>7, <1>10 DEF K, s0

-----------------------------------------------------------------------------
(* The inductive invariant: the window and the model it is on.               *)

\* A window on a layout: c columns and r rows, model m from row s on.
Shows(m, s, c, r, bad) ==
    /\ c \in Nat /\ r \in Nat \ {0} /\ s \in 0 .. max_scroll(m, r)
    /\ \E b \in SUBSET bad : m = build_model(c, b)

\* The constants of a session, and the size of the terminal.
World == images \in Manifests /\ cell \in Cells /\ tty \in Sizes
\* The command has not stopped on an error.
Stage == st \in {"shell", "less", "entering", "reading", "handoff", "quit", "panicked"}
\* Beyond preflight the images satisfy it.
Opened == st \in {"entering", "reading", "quit"} => ImagesOK
\* The reader shows a window of a model it has made.
Window == st \in {"reading", "quit"} => \E c \in {cols} : Shows(model, scroll, c, rows, failed)
\* A size the reader has not learnt is announced by an event.
Learnt == st = "reading" /\ ~resized => tty = <<cols, rows>>
\* It panics only when the window has shrunk and it has not read the event.
Panicked == st = "panicked" => resized /\ rows > tty[2]
\* Both caches are sound.
CachesSound == Sound(slices, LRU_CAP) /\ Sound(row_slices, ROW_SLICE_LRU_CAP)
\* The inductive invariant.
RdInv == World /\ Stage /\ Opened /\ Window /\ Learnt /\ Panicked /\ CachesSound

\* A layout depends on the images, their kinds, the cell and its parameters.
LEMMA SameLayout ==
    ASSUME UNCHANGED <<images, kind, cell>>, NEW c, NEW b
    PROVE  build_model(c, b)' = build_model(c, b)
<1>1. images' = images /\ kind' = kind /\ cell' = cell
  OBVIOUS
<1>2. QED
  BY <1>1, ZenonT(60) DEF build_model, full_payload_ok, block_geometry, display_height

\* So does a window.
LEMMA SameShows ==
    ASSUME UNCHANGED <<images, kind, cell>>, NEW m, NEW s, NEW c, NEW r, NEW bad, Shows(m, s, c, r, bad)
    PROVE  Shows(m, s, c, r, bad)'
<1>1. \A b \in SUBSET bad : build_model(c, b)' = build_model(c, b)
  BY SameLayout
<1>2. QED
  BY <1>1 DEF Shows, max_scroll

\* The size of a terminal.
LEMMA SizeFacts ==
    ASSUME tty \in Sizes
    PROVE  tty[1] \in Nat /\ tty[2] \in Nat \ {0} /\ tty = <<tty[1], tty[2]>>
  BY SizesAssumption

\* The last position of the window.
LEMMA ScrollMax ==
    ASSUME NEW m, Orderly(m), NEW r \in Nat \ {0}
    PROVE  /\ max_scroll(m, r) = IF Len(m.items) >= r THEN Len(m.items) - r ELSE 0
           /\ max_scroll(m, r) \in Nat /\ max_scroll(m, r) < Len(m.items)
<1> DEFINE K == Len(m.items)
<1>1. K \in Nat \ {0}
  BY DEF Orderly
<1>2. max_scroll(m, r) = Max({0, K - r})
  BY DEF max_scroll
<1> HIDE DEF K
<1>3. Max({0, K - r}) = IF 0 >= K - r THEN 0 ELSE K - r
  BY <1>1, MaxOfTwo
<1>4. QED
  BY <1>1, <1>2, <1>3 DEF K

\* What a window shows is orderly.
LEMMA ShowsOrderly ==
    ASSUME ImagesOK, NEW m, NEW s, NEW c, NEW r, NEW bad, Shows(m, s, c, r, bad)
    PROVE  Orderly(m)
  BY ModelOrder DEF Shows

\* A frame shows the window it was asked for, unless it panics.
LEMMA FrameKeeps ==
    ASSUME ImagesOK, World, NEW m, NEW s, NEW c, NEW r, NEW bad, Shows(m, s, c, r, bad),
           Sound(slices, LRU_CAP), Frame(m, s, c, r, bad)
    PROVE  /\ model' = m /\ scroll' = s /\ cols' = c /\ rows' = r
           /\ Shows(model', scroll', cols', rows', failed')
           /\ Sound(slices', LRU_CAP)
           /\ \/ st' = "reading"
              \/ st' = "panicked" /\ r > tty[2]
<1>1. model' = m /\ scroll' = s /\ cols' = c /\ rows' = r
  BY Zenon DEF Frame
<1>2. ASSUME bad \subseteq failed'
      PROVE  Shows(model', scroll', cols', rows', failed')
  <2>1. \A b \in SUBSET bad : b \in SUBSET failed'
    BY <1>2
  <2>2. QED
    BY <1>1, <2>1 DEF Shows
<1>3. CASE Panics(m, s, r)
  <2>1. st' = "panicked" /\ failed' = bad /\ slices' = slices
    BY <1>3, Zenon DEF Frame
  <2>2. r > tty[2]
    <3>1. tty[2] \in Nat /\ r \in Nat
      BY SizeFacts DEF World, Shows
    <3>2. PICK y \in tty[2] .. (r - 1) : TRUE
      BY <1>3 DEF Panics
    <3>3. QED
      BY <3>1, <3>2
  <2>3. Shows(model', scroll', cols', rows', failed')
    BY <1>2, <2>1
  <2>4. QED
    BY <1>1, <2>1, <2>2, <2>3
<1>4. CASE ~Panics(m, s, r)
  <2> DEFINE d == draw_frame(m, s, c, r, bad)
  <2>1. st' = "reading" /\ failed' = d.failed /\ slices' = d.slices
    BY <1>4, Zenon DEF Frame
  <2>2. DrawOK(d, bad)
    <3>1. Len(images) \in Nat
      BY ImageFacts
    <3>2. QED
      BY <3>1, DrawKeeps
  <2>3. bad \subseteq failed' /\ Sound(slices', LRU_CAP)
    BY <2>1, <2>2 DEF DrawOK
  <2>4. QED
    BY <1>1, <1>2, <2>1, <2>3
<1>5. QED
  BY <1>3, <1>4

\* What the command does, in one step from reading or to it.
LEMMA KeyTarget ==
    ASSUME ImagesOK, NEW key \in Keys, Shows(model, scroll, cols, rows, failed)
    PROVE  key_action(key) \in 0 .. max_scroll(model, rows)
<1> DEFINE last == max_scroll(model, rows)
<1>1. last \in Nat /\ scroll \in 0 .. last /\ rows \in Nat \ {0}
  BY ShowsOrderly, ScrollMax DEF Shows
<1> HIDE DEF last
<1>2. /\ scroll + 1 \in Int /\ scroll - 1 \in Int /\ scroll + rows \in Int /\ scroll - rows \in Int
      /\ 0 \in Int /\ last \in Int
  BY <1>1
<1>3. CASE key = "down"
  <2>1. key_action(key) = Min({scroll + 1, last})
    BY <1>3 DEF key_action, last
  <2>2. Min({scroll + 1, last}) = IF scroll + 1 <= last THEN scroll + 1 ELSE last
    BY <1>2, MinOfTwo
  <2>3. QED
    BY <1>1, <2>1, <2>2 DEF last
<1>4. CASE key = "up"
  <2>1. key_action(key) = Max({scroll - 1, 0})
    BY <1>4 DEF key_action, last
  <2>2. Max({scroll - 1, 0}) = IF scroll - 1 >= 0 THEN scroll - 1 ELSE 0
    BY <1>2, MaxOfTwo
  <2>3. QED
    BY <1>1, <2>1, <2>2 DEF last
<1>5. CASE key = "page down"
  <2>1. key_action(key) = Min({scroll + rows, last})
    BY <1>5 DEF key_action, last
  <2>2. Min({scroll + rows, last}) = IF scroll + rows <= last THEN scroll + rows ELSE last
    BY <1>2, MinOfTwo
  <2>3. QED
    BY <1>1, <2>1, <2>2 DEF last
<1>6. CASE key = "page up"
  <2>1. key_action(key) = Max({scroll - rows, 0})
    BY <1>6 DEF key_action, last
  <2>2. Max({scroll - rows, 0}) = IF scroll - rows >= 0 THEN scroll - rows ELSE 0
    BY <1>2, MaxOfTwo
  <2>3. QED
    BY <1>1, <2>1, <2>2 DEF last
<1>7. CASE key = "top"
  <2>1. key_action(key) = 0
    BY <1>7 DEF key_action, last
  <2>2. QED
    BY <1>1, <2>1 DEF last
<1>8. CASE key = "bottom"
  <2>1. key_action(key) = last
    BY <1>8 DEF key_action, last
  <2>2. QED
    BY <1>1, <2>1 DEF last
<1>9. QED
  BY <1>3, <1>4, <1>5, <1>6, <1>7, <1>8 DEF Keys

\* The window that shows line again in a new layout.
Target(m, line, r) == Min({scroll_to_line(m, line), max_scroll(m, r)})

\* That row is inside the bounds.
LEMMA TargetInside ==
    ASSUME NEW m, Orderly(m), NEW line, NEW r \in Nat \ {0}
    PROVE  Target(m, line, r) \in 0 .. max_scroll(m, r)
<1> DEFINE K == Len(m.items)
           S == {s \in 0 .. (K - 1) : line_of(m.items[s + 1]) >= line}
           s0 == scroll_to_line(m, line)
           last == max_scroll(m, r)
<1>1. K \in Nat \ {0} /\ last \in Nat
  BY ScrollMax DEF Orderly
<1>2. s0 \in Nat
  <2>1. s0 = Min({K} \cup S)
    BY DEF scroll_to_line
  <2> HIDE DEF s0, last
  <2>2. {K} \cup S \subseteq Nat /\ {K} \cup S # {}
    BY <1>1
  <2> HIDE DEF S, K
  <2>3. Min({K} \cup S) \in {K} \cup S
    BY <2>2, MinOfMany
  <2>4. QED
    BY <2>1, <2>2, <2>3
<1>3. Target(m, line, r) = Min({s0, last})
  BY DEF Target
<1> HIDE DEF s0, last
<1>4. Min({s0, last}) = IF s0 <= last THEN s0 ELSE last
  BY <1>1, <1>2, MinOfTwo
<1>5. QED
  BY <1>1, <1>2, <1>3, <1>4 DEF last

\* What a key does to the window: the same layout, or a new one around the line
\* the key moved to, because its image failed.
KeyEffect(new) ==
    \/ /\ model' = model /\ cols' = cols /\ rows' = rows /\ failed' = failed /\ st' = "reading"
       /\ slices' = slices /\ scroll' = new
    \/ Frame(model, new, cols, rows, failed)
    \/ /\ new \in {scroll - 1, scroll + 1}
       /\ \E bad : /\ failed \subseteq bad
                   /\ Frame(build_model(cols, bad), Target(build_model(cols, bad), anchor_line(model, new), rows),
                            cols, rows, bad)

\* A key has one of these effects.
LEMMA KeyDoes ==
    ASSUME RdInv, NEW key \in Keys, Key(key)
    PROVE  /\ KeyEffect(key_action(key)) /\ Sound(row_slices', ROW_SLICE_LRU_CAP)
           /\ ImagesOK /\ Shows(model, scroll, cols, rows, failed) /\ st = "reading"
<1> DEFINE new == key_action(key)
           K == Len(model.items)
           last == max_scroll(model, rows)
           at == incremental_target(new)
<1>1. ImagesOK /\ Shows(model, scroll, cols, rows, failed) /\ st = "reading"
  BY DEF RdInv, Opened, Window, Key
<1>2. new \in 0 .. last
  BY <1>1, KeyTarget
<1>3. /\ K \in Nat \ {0} /\ last = (IF K >= rows THEN K - rows ELSE 0) /\ rows \in Nat \ {0}
      /\ scroll \in 0 .. last /\ Orderly(model)
  <2>1. Orderly(model) /\ rows \in Nat \ {0}
    BY <1>1, ShowsOrderly DEF Shows
  <2>2. QED
    BY <1>1, <2>1, ScrollMax DEF Shows, Orderly
<1>4. Sound(row_slices, ROW_SLICE_LRU_CAP)
  BY DEF RdInv, CachesSound
<1>5. new # scroll
  BY DEF Key
<1>6. CASE ~(new - scroll \in {-1, 1})
  <2>1. Frame(model, new, cols, rows, failed) /\ row_slices' = row_slices
    BY <1>6 DEF Key
  <2>2. QED
    BY <1>1, <1>4, <2>1 DEF KeyEffect
<1>7. CASE new - scroll \in {-1, 1}
  <2> DEFINE item == model.items[at + 1]
             a    == images[item[2]]
             wpx  == block_geometry(a, cols).wpx
             off  == at - model.block_row[item[2]]
             res  == row_payload(a, wpx, off, row_slices)
             bad  == failed \cup {a.asset}
             m    == build_model(cols, bad)
  <2>1. draw_incremental_scroll(new)
    BY <1>7 DEF Key
  <2>2. at \in Nat /\ at < K /\ ~(at >= K)
    <3>1. at = IF new > scroll THEN new + rows - 1 ELSE new
      BY DEF incremental_target
    <3> HIDE DEF new, at, K, last
    <3>2. QED
      BY <1>2, <1>3, <1>7, <3>1
  <2>3. CASE item[1] # "image"
    <3>1. /\ scroll' = new
          /\ UNCHANGED <<st, cols, rows, model, failed, slices, row_slices>>
      BY <2>1, <2>2, <2>3 DEF draw_incremental_scroll
    <3>2. QED
      BY <1>1, <1>4, <3>1 DEF KeyEffect
  <2>4. CASE item[1] = "image"
    <3>1. /\ row_slices' = res.cache
          /\ IF res.ok
             THEN /\ scroll' = new
                  /\ screen' = Shifted(new, Strip(res.val, res.val.y0, res.val.y1))
                  /\ UNCHANGED <<st, cols, rows, model, failed, slices>>
             ELSE Frame(m, Min({scroll_to_line(m, anchor_line(model, new)), max_scroll(m, rows)}),
                        cols, rows, bad)
      BY <2>1, <2>2, <2>4 DEF draw_incremental_scroll
    <3>2. Sound(row_slices', ROW_SLICE_LRU_CAP)
      BY <1>4, <3>1, RowPayloadSound
    <3>3. CASE res.ok
      BY <1>1, <3>1, <3>2, <3>3 DEF KeyEffect
    <3>4. CASE ~res.ok
      <4>1. Frame(m, Target(m, anchor_line(model, new), rows), cols, rows, bad)
        BY <3>1, <3>4 DEF Target
      <4>2. failed \subseteq bad
        OBVIOUS
      <4>3. new \in {scroll - 1, scroll + 1}
        <5> HIDE DEF new
        <5>1. QED
          BY <1>2, <1>3, <1>7
      <4> HIDE DEF bad
      <4>4. KeyEffect(new)
        BY <4>1, <4>2, <4>3 DEF KeyEffect
      <4>5. QED
        BY <1>1, <3>2, <4>4
    <3>5. QED
      BY <3>3, <3>4
  <2>5. QED
    BY <2>3, <2>4
<1>8. QED
  BY <1>6, <1>7

\* The invariant holds at first.
LEMMA RdInit == Init => RdInv
<1> SUFFICES ASSUME Init PROVE RdInv
  OBVIOUS
<1>1. /\ images \in Manifests /\ tty \in Sizes /\ cell \in Cells /\ st = "shell"
      /\ slices = <<>> /\ row_slices = <<>>
  BY DEF Init, query_cell_size
<1>2. \A cap \in Nat : Sound(<<>>, cap)
  <2>1. <<>> \in Seq({}) /\ Len(<<>>) = 0 /\ DOMAIN <<>> = {}
    OBVIOUS
  <2>2. QED
    BY <2>1 DEF Sound, CacheSeq, CacheOK
<1>3. LRU_CAP \in Nat /\ ROW_SLICE_LRU_CAP \in Nat
  BY LimitsAssumption
<1>4. QED
  BY <1>1, <1>2, <1>3 DEF RdInv, World, Stage, Opened, Window, Learnt, Panicked, CachesSound

\* The invariant afterwards, by its parts.
LEMMA RdNext ==
    ASSUME RdInv, UNCHANGED <<images, kind, cell>>, tty' \in Sizes, Stage',
           st' \in {"entering", "reading", "quit"} => ImagesOK,
           st' \in {"reading", "quit"} => Shows(model', scroll', cols', rows', failed'),
           Learnt', Panicked', Sound(slices', LRU_CAP), Sound(row_slices', ROW_SLICE_LRU_CAP)
    PROVE  RdInv'
<1>1. images' = images /\ cell' = cell
  OBVIOUS
<1>2. World'
  BY <1>1 DEF RdInv, World
<1>3. ImagesOK => ImagesOK'
  BY <1>1 DEF ImagesOK, preflight, AnchorOK
<1>4. Opened'
  BY <1>3 DEF Opened
<1>5. ASSUME st' \in {"reading", "quit"}, NEW c, c = cols'
      PROVE  Shows(model, scroll, c, rows, failed)'
  <2>1. PICK b \in SUBSET failed' : model' = build_model(c, b)
    BY <1>5 DEF Shows
  <2>2. c \in Nat /\ rows' \in Nat \ {0} /\ scroll' \in 0 .. max_scroll(model', rows')
    BY <1>5 DEF Shows
  <2>3. build_model(c, b)' = build_model(c, b)
    BY SameLayout
  <2>4. QED
    BY <2>1, <2>2, <2>3 DEF Shows, max_scroll
<1>6. Window'
  BY <1>5 DEF Window
<1>7. CachesSound'
  BY DEF CachesSound
<1>8. QED
  BY <1>2, <1>4, <1>6, <1>7 DEF RdInv

\* Entering the reader.
LEMMA TryRunKeeps ==
    ASSUME RdInv, NEW capable \in BOOLEAN, try_run(capable)
    PROVE  RdInv'
<1>1. /\ UNCHANGED <<images, kind, cell, tty, resized, cols, rows, model, scroll, failed, slices, row_slices>>
      /\ \/ st' = "less"
         \/ st' = "entering" /\ images # <<>> /\ preflight(images)
  <2>1. UNCHANGED <<images, kind, cell, tty, resized, cols, rows, model, scroll, failed, slices, row_slices>>
    BY DEF try_run, fixed, view
  <2>2. CASE capable /\ tty[1] >= MIN_COLS /\ images # <<>> /\ preflight(images)
    BY <2>1, <2>2, Zenon DEF try_run
  <2>3. CASE ~(capable /\ tty[1] >= MIN_COLS /\ images # <<>> /\ preflight(images))
    BY <2>1, <2>3, Zenon DEF try_run
  <2>4. QED
    BY <2>2, <2>3
<1>2. st' = "entering" => ImagesOK
  BY <1>1 DEF RdInv, World, ImagesOK
<1>3. Stage' /\ Learnt' /\ Panicked'
  BY <1>1 DEF Stage, Learnt, Panicked
<1>4. QED
  BY <1>1, <1>2, <1>3, RdNext DEF RdInv, World, CachesSound

\* A frame leaves what the invariant asks, when a size not yet read is announced.
LEMMA FrameStep ==
    ASSUME RdInv, ImagesOK, NEW m, NEW s, NEW c, NEW r, NEW bad, Shows(m, s, c, r, bad), Frame(m, s, c, r, bad),
           UNCHANGED <<images, kind, cell, tty>>, Sound(row_slices', ROW_SLICE_LRU_CAP),
           tty # <<c, r>> => resized'
    PROVE  RdInv'
<1>1. World /\ Sound(slices, LRU_CAP)
  BY DEF RdInv, CachesSound
<1>2. /\ model' = m /\ scroll' = s /\ cols' = c /\ rows' = r
      /\ Shows(model', scroll', cols', rows', failed')
      /\ Sound(slices', LRU_CAP)
      /\ \/ st' = "reading"
         \/ st' = "panicked" /\ r > tty[2]
  BY <1>1, FrameKeeps
<1>3. tty' = tty /\ tty' \in Sizes
  BY <1>1 DEF World
<1>4. Stage' /\ Learnt'
  BY <1>2, <1>3 DEF Stage, Learnt
<1>5. r > tty[2] => tty # <<c, r>>
  <2>1. r \in Nat /\ tty[2] \in Nat
    BY <1>1, SizeFacts DEF Shows, World
  <2>2. QED
    BY <2>1
<1>6. Panicked'
  BY <1>2, <1>3, <1>5 DEF Panicked
<1>7. QED
  BY <1>2, <1>3, <1>4, <1>6, RdNext

\* The first layout.
LEMMA RunTuiKeeps ==
    ASSUME RdInv, run_tui
    PROVE  RdInv'
<1>1. ImagesOK /\ UNCHANGED <<images, kind, cell, tty, resized>>
  BY DEF RdInv, Opened, run_tui, fixed
<1>2. CASE tty[1] < MIN_COLS
  <2>1. st' = "handoff" /\ slices' = slices /\ row_slices' = row_slices
    BY <1>2 DEF run_tui, view
  <2>2. Stage' /\ Learnt' /\ Panicked'
    BY <2>1 DEF Stage, Learnt, Panicked
  <2>3. QED
    BY <1>1, <2>1, <2>2, RdNext DEF RdInv, World, CachesSound
<1>3. CASE ~(tty[1] < MIN_COLS)
  <2> DEFINE m == build_model(tty[1], {})
  <2>1. Frame(m, 0, tty[1], tty[2], {}) /\ row_slices' = row_slices
    BY <1>3 DEF run_tui
  <2>2. tty[1] \in Nat /\ tty[2] \in Nat \ {0} /\ tty = <<tty[1], tty[2]>>
    BY SizeFacts DEF RdInv, World
  <2>3. Shows(m, 0, tty[1], tty[2], {})
    <3>1. Orderly(m)
      BY <1>1, <2>2, ModelOrder
    <3>2. max_scroll(m, tty[2]) \in Nat
      BY <2>2, <3>1, ScrollMax
    <3>3. {} \in SUBSET {}
      OBVIOUS
    <3>4. QED
      BY <2>2, <3>2, <3>3 DEF Shows
  <2>4. Sound(row_slices', ROW_SLICE_LRU_CAP)
    BY <2>1 DEF RdInv, CachesSound
  <2> HIDE DEF m
  <2>5. tty # <<tty[1], tty[2]>> => resized'
    BY <2>2
  <2>6. QED
    BY <1>1, <2>1, <2>3, <2>4, <2>5, FrameStep
<1>4. QED
  BY <1>2, <1>3

\* A change of the size, which the reader has yet to learn.
LEMMA TerminalResizedKeeps ==
    ASSUME RdInv, NEW size \in Sizes, TerminalResized(size)
    PROVE  RdInv'
<1>1. /\ UNCHANGED <<images, kind, cell, st, cols, rows, model, scroll, failed, slices, row_slices>>
      /\ tty' = size /\ st \in {"entering", "reading"} /\ resized' = (st = "reading")
  BY DEF TerminalResized
<1>2. st' \in {"entering", "reading", "quit"} => ImagesOK
  BY <1>1 DEF RdInv, Opened
<1>3. st' \in {"reading", "quit"} => Shows(model', scroll', cols', rows', failed')
  BY <1>1 DEF RdInv, Window
<1>4. Stage' /\ Learnt' /\ Panicked'
  BY <1>1 DEF Stage, Learnt, Panicked
<1>5. QED
  BY <1>1, <1>2, <1>3, <1>4, RdNext DEF RdInv, CachesSound

\* A key.
LEMMA KeyKeeps ==
    ASSUME RdInv, NEW key \in Keys, Key(key)
    PROVE  RdInv'
<1> DEFINE new == key_action(key)
<1>1. /\ KeyEffect(new) /\ Sound(row_slices', ROW_SLICE_LRU_CAP)
      /\ ImagesOK /\ Shows(model, scroll, cols, rows, failed) /\ st = "reading"
  BY KeyDoes
<1>2. UNCHANGED <<images, kind, cell, tty, resized>>
  BY DEF Key, fixed
<1>3. tty # <<cols, rows>> => resized'
  BY <1>1, <1>2 DEF RdInv, Learnt
<1>4. new \in 0 .. max_scroll(model, rows)
  BY <1>1, KeyTarget
<1>5. Shows(model, new, cols, rows, failed)
  BY <1>1, <1>4 DEF Shows
<1> HIDE DEF new
<1>6. CASE /\ model' = model /\ cols' = cols /\ rows' = rows /\ failed' = failed /\ st' = "reading"
           /\ slices' = slices /\ scroll' = new
  <2>1. Shows(model', scroll', cols', rows', failed')
    BY <1>5, <1>6
  <2>2. Stage' /\ Panicked'
    BY <1>6 DEF Stage, Panicked
  <2>3. Learnt'
    BY <1>2, <1>3, <1>6 DEF Learnt
  <2>4. tty' \in Sizes
    BY <1>2 DEF RdInv, World
  <2>5. Sound(slices', LRU_CAP)
    BY <1>6 DEF RdInv, CachesSound
  <2>6. QED
    BY <1>1, <1>2, <2>1, <2>2, <2>3, <2>4, <2>5, RdNext
<1>7. CASE Frame(model, new, cols, rows, failed)
  BY <1>1, <1>2, <1>3, <1>5, <1>7, FrameStep
<1>8. ASSUME NEW bad, failed \subseteq bad,
             Frame(build_model(cols, bad), Target(build_model(cols, bad), anchor_line(model, new), rows),
                   cols, rows, bad)
      PROVE  RdInv'
  <2> DEFINE m == build_model(cols, bad)
             s == Target(m, anchor_line(model, new), rows)
  <2>1. cols \in Nat /\ rows \in Nat \ {0}
    BY <1>1 DEF Shows
  <2>2. s \in 0 .. max_scroll(m, rows)
    <3>1. Orderly(m)
      BY <1>1, <2>1, ModelOrder
    <3>2. QED
      BY <2>1, <3>1, TargetInside
  <2>3. bad \in SUBSET bad
    OBVIOUS
  <2>4. Shows(m, s, cols, rows, bad)
    BY <2>1, <2>2, <2>3 DEF Shows
  <2>5. QED
    BY <1>1, <1>2, <1>3, <1>8, <2>4, FrameStep
<1>9. QED
  BY <1>1, <1>6, <1>7, <1>8 DEF KeyEffect

\* Where a resize puts the window is a window.
LEMMA ResizedShows ==
    ASSUME ImagesOK, Shows(model, scroll, cols, rows, failed), tty[1] \in Nat, tty[2] \in Nat \ {0}
    PROVE  LET m == IF tty[1] # cols THEN build_model(tty[1], failed) ELSE model
           IN  Shows(m, ResizedScroll(m), tty[1], tty[2], failed)
<1> DEFINE m == IF tty[1] # cols THEN build_model(tty[1], failed) ELSE model
           s == ResizedScroll(m)
<1>1. CASE tty[1] # cols
  <2>1. m = build_model(tty[1], failed) /\ s = Target(m, anchor_line(model, scroll), tty[2])
    BY <1>1 DEF ResizedScroll, Target
  <2>2. Orderly(m)
    BY <2>1, ModelOrder
  <2>3. failed \in SUBSET failed
    OBVIOUS
  <2> HIDE DEF m, s
  <2>4. s \in 0 .. max_scroll(m, tty[2])
    BY <2>1, <2>2, TargetInside
  <2>5. QED
    BY <2>1, <2>3, <2>4 DEF Shows, m, s
<1>2. CASE tty[1] = cols
  <2>1. m = model /\ s = Min({scroll, max_scroll(m, tty[2])})
    BY <1>2 DEF ResizedScroll
  <2>2. Orderly(m)
    BY <2>1, ShowsOrderly
  <2>3. max_scroll(m, tty[2]) \in Nat
    BY <2>2, ScrollMax
  <2>4. scroll \in Nat
    <3>1. max_scroll(model, rows) \in Nat
      BY <2>1, <2>2, ScrollMax DEF Shows
    <3>2. QED
      BY <3>1 DEF Shows
  <2>5. s \in 0 .. max_scroll(m, tty[2])
    <3> DEFINE last == max_scroll(m, tty[2])
    <3> HIDE DEF last
    <3>1. last \in Nat /\ s = Min({scroll, last})
      BY <2>1, <2>3 DEF last
    <3>2. Min({scroll, last}) = IF scroll <= last THEN scroll ELSE last
      BY <2>4, <3>1, MinOfTwo
    <3> HIDE DEF s
    <3>3. s \in 0 .. last
      BY <2>4, <3>1, <3>2
    <3>4. QED
      BY <3>3 DEF last
  <2>6. \E b \in SUBSET failed : m = build_model(tty[1], b)
    BY <1>2, <2>1 DEF Shows
  <2> HIDE DEF m, s
  <2>7. QED
    BY <2>5, <2>6 DEF Shows, m, s
<1>3. QED
  BY <1>1, <1>2

\* A resize.
LEMMA ResizeKeeps ==
    ASSUME RdInv, Resize
    PROVE  RdInv'
<1>1. /\ ImagesOK /\ Shows(model, scroll, cols, rows, failed)
      /\ UNCHANGED <<images, kind, cell, tty>>
  BY DEF RdInv, Opened, Window, Resize, fixed
<1>2. CASE tty[1] < MIN_COLS
  <2>1. st' = "handoff" /\ slices' = slices /\ row_slices' = row_slices
    BY <1>2 DEF Resize, view
  <2>2. Stage' /\ Learnt' /\ Panicked'
    BY <2>1 DEF Stage, Learnt, Panicked
  <2>3. QED
    BY <1>1, <2>1, <2>2, RdNext DEF RdInv, World, CachesSound
<1>3. CASE ~(tty[1] < MIN_COLS)
  <2> DEFINE m == IF tty[1] # cols THEN build_model(tty[1], failed) ELSE model
             s == ResizedScroll(m)
  <2>1. Frame(m, s, tty[1], tty[2], failed) /\ row_slices' = row_slices
    BY <1>3 DEF Resize
  <2>2. tty[1] \in Nat /\ tty[2] \in Nat \ {0} /\ tty = <<tty[1], tty[2]>>
    BY SizeFacts DEF RdInv, World
  <2>3. Shows(m, s, tty[1], tty[2], failed)
    BY <1>1, <2>2, ResizedShows
  <2>4. Sound(row_slices', ROW_SLICE_LRU_CAP)
    BY <2>1 DEF RdInv, CachesSound
  <2> HIDE DEF m, s
  <2>5. tty # <<tty[1], tty[2]>> => resized'
    BY <2>2
  <2>6. QED
    BY <1>1, <2>1, <2>3, <2>4, <2>5, FrameStep
<1>4. QED
  BY <1>2, <1>3

\* Quitting.
LEMMA QuitKeeps ==
    ASSUME RdInv, Quit
    PROVE  RdInv'
<1>1. /\ UNCHANGED <<images, kind, cell, tty, resized, cols, rows, model, scroll, failed, slices, row_slices>>
      /\ st = "reading" /\ st' = "quit"
  BY DEF Quit, fixed, view
<1>2. ImagesOK /\ Shows(model', scroll', cols', rows', failed')
  BY <1>1 DEF RdInv, Opened, Window
<1>3. Stage' /\ Learnt' /\ Panicked'
  BY <1>1 DEF Stage, Learnt, Panicked
<1>4. QED
  BY <1>1, <1>2, <1>3, RdNext DEF RdInv, World, CachesSound

\* Every step keeps the invariant.
LEMMA RdStep == RdInv /\ [Next]_vars => RdInv'
<1> SUFFICES ASSUME RdInv, [Next]_vars PROVE RdInv'
  OBVIOUS
<1>1. CASE UNCHANGED vars
  <2>1. UNCHANGED <<images, kind, cell, tty, resized, st, cols, rows, model, scroll, failed, slices, row_slices>>
    BY <1>1 DEF vars
  <2>2. st' \in {"entering", "reading", "quit"} => ImagesOK
    BY <2>1 DEF RdInv, Opened
  <2>3. st' \in {"reading", "quit"} => Shows(model', scroll', cols', rows', failed')
    BY <2>1 DEF RdInv, Window
  <2>4. Stage' /\ Learnt' /\ Panicked'
    BY <2>1 DEF RdInv, Stage, Learnt, Panicked
  <2>5. QED
    BY <2>1, <2>2, <2>3, <2>4, RdNext DEF RdInv, World, CachesSound
<1>2. CASE \E capable \in BOOLEAN : try_run(capable)
  BY <1>2, TryRunKeeps
<1>3. CASE run_tui
  BY <1>3, RunTuiKeeps
<1>4. CASE \E size \in Sizes : TerminalResized(size)
  BY <1>4, TerminalResizedKeeps
<1>5. CASE \E key \in Keys : Key(key)
  BY <1>5, KeyKeeps
<1>6. CASE Resize
  BY <1>6, ResizeKeeps
<1>7. CASE Quit
  BY <1>7, QuitKeeps
<1>8. QED
  BY <1>1, <1>2, <1>3, <1>4, <1>5, <1>6, <1>7 DEF Next

\* The invariant always holds.
LEMMA RdAlways == Spec => []RdInv
<1>1. QED
  BY RdInit, RdStep, PTL DEF Spec

\* No sequence of keys and resizes, with images of any kind, takes the reader past the end
\* of the model, a cache past its capacity, or to a panic other than that of a window that
\* shrank unread (draw_incremental_scroll, LruCache, Terminal::draw).
THEOREM ReaderStaysInBounds == Spec => []ReaderInBounds
<1>1. RdInv => ReaderInBounds
  <2> SUFFICES ASSUME RdInv PROVE ReaderInBounds
    OBVIOUS
  <2>1. st # "error"
    BY DEF RdInv, Stage
  <2>2. st = "reading" => scroll <= max_scroll(model, rows)
    <3> SUFFICES ASSUME st = "reading" PROVE scroll <= max_scroll(model, rows)
      OBVIOUS
    <3>1. ImagesOK /\ Shows(model, scroll, cols, rows, failed)
      BY DEF RdInv, Opened, Window
    <3>2. max_scroll(model, rows) \in Nat
      BY <3>1, ShowsOrderly, ScrollMax DEF Shows
    <3>3. QED
      BY <3>1, <3>2 DEF Shows
  <2>3. QED
    BY <2>1, <2>2 DEF RdInv, Panicked, CachesSound, Sound, ReaderInBounds
<1>2. QED
  BY <1>1, RdAlways, PTL

-----------------------------------------------------------------------------
(* The reading position.                                                     *)

\* A row of the window that shows the line.
InWindow(m, s, r, line) == \E t \in s .. s + r - 1 : t < Len(m.items) /\ LineAt(m, t) = line

\* The row a line is looked for in the new model shows it, though the window is moved back from the end.
LEMMA TargetShows ==
    ASSUME NEW m, Orderly(m), NEW line, HasLine(m.items, line), NEW r \in Nat \ {0}
    PROVE  InWindow(m, Target(m, line, r), r, line)
<1> DEFINE K == Len(m.items)
           s0 == scroll_to_line(m, line)
           last == max_scroll(m, r)
           s == Target(m, line, r)
<1>1. s0 \in 0 .. K - 1 /\ LineAt(m, s0) = line
  BY ScrollTo
<1>2. K \in Nat \ {0} /\ last = (IF K >= r THEN K - r ELSE 0)
  BY ScrollMax DEF Orderly
<1>3. s = Min({s0, last})
  BY DEF Target
<1> HIDE DEF s0, last, s, K
<1>4. Min({s0, last}) = IF s0 <= last THEN s0 ELSE last
  BY <1>1, <1>2, MinOfTwo
<1>5. s0 \in s .. s + r - 1 /\ s0 < K
  BY <1>1, <1>2, <1>3, <1>4
<1>6. QED
  BY <1>1, <1>5 DEF InWindow, K, s

\* The line at the top of a window is one of its model.
LEMMA LineThere ==
    ASSUME NEW m, Orderly(m), NEW r \in Nat \ {0}, NEW s \in 0 .. max_scroll(m, r)
    PROVE  s < Len(m.items) /\ anchor_line(m, s) = LineAt(m, s) /\ HasLine(m.items, anchor_line(m, s))
<1> DEFINE K == Len(m.items)
<1>1. s \in Nat /\ K \in Nat /\ s < K
  <2> DEFINE last == max_scroll(m, r)
  <2>1. K \in Nat /\ last \in Nat /\ last < K
    BY ScrollMax DEF Orderly
  <2>2. s \in 0 .. last
    OBVIOUS
  <2> HIDE DEF K, last
  <2>3. QED
    BY <2>1, <2>2
<1>2. anchor_line(m, s) = LineAt(m, s)
  BY <1>1 DEF anchor_line, LineAt
<1>3. s + 1 \in 1 .. K
  BY <1>1
<1>4. QED
  BY <1>1, <1>2, <1>3 DEF HasLine, LineAt

\* A window moved back from the end still shows what was at its top.
LEMMA ClampShows ==
    ASSUME NEW m, Orderly(m), NEW r0 \in Nat \ {0}, NEW s0 \in 0 .. max_scroll(m, r0), NEW r \in Nat \ {0}
    PROVE  InWindow(m, Min({s0, max_scroll(m, r)}), r, LineAt(m, s0))
<1> DEFINE K == Len(m.items)
           last == max_scroll(m, r)
           s == Min({s0, last})
<1>1. s0 < K
  BY LineThere
<1>2. K \in Nat \ {0} /\ last = (IF K >= r THEN K - r ELSE 0)
  BY ScrollMax DEF Orderly
<1>3. s0 \in Nat
  <2> DEFINE l0 == max_scroll(m, r0)
  <2>1. l0 \in Nat /\ s0 \in 0 .. l0
    BY ScrollMax
  <2> HIDE DEF l0
  <2>2. QED
    BY <2>1
<1> HIDE DEF last, s, K
<1>4. s = IF s0 <= last THEN s0 ELSE last
  BY <1>2, <1>3, MinOfTwo DEF s
<1>5. s0 \in s .. s + r - 1 /\ s0 < K
  BY <1>1, <1>2, <1>3, <1>4
<1>6. QED
  BY <1>5 DEF InWindow, K, s, last

\* InWindow is what OnScreen says of the state.
LEMMA OnScreenNow ==
    ASSUME images' = images, NEW line, InWindow(model', scroll', rows', line)
    PROVE  OnScreen(line)'
<1>1. PICK t \in scroll' .. scroll' + rows' - 1 : t < Len(model'.items) /\ LineAt(model', t) = line
  BY DEF InWindow
<1>2. line_of(model.items[t + 1])' = LineAt(model', t)
  BY DEF line_of, LineAt
<1>3. QED
  BY <1>1, <1>2 DEF OnScreen

\* What PositionKept says of a step.
Kept ==
    st = "reading" =>
        /\ (resized /\ ~resized' /\ st' = "reading") =>
               \E line \in {anchor_line(model, scroll)} : OnScreen(line)'
        /\ (cols' = cols /\ model' # model) =>
               \E line \in {anchor_line(model, s) : s \in {scroll - 1, scroll + 1} \cap Nat} : OnScreen(line)'
        /\ st' = "handoff" => result' = <<anchor_line(model, scroll) + 1>>

\* The window of a new layout with more images failed shows a line that was there.
LEMMA LineSurvives ==
    ASSUME ImagesOK, NEW s, NEW c, NEW r, Shows(model, s, c, r, failed),
           NEW c2 \in Nat, NEW bad, failed \subseteq bad, NEW r2 \in Nat \ {0},
           NEW m, m = build_model(c2, bad)
    PROVE  InWindow(m, Target(m, anchor_line(model, s), r2), r2, anchor_line(model, s))
<1>1. PICK b \in SUBSET failed : model = build_model(c, b)
  BY DEF Shows
<1>2. c \in Nat /\ r \in Nat \ {0} /\ s \in 0 .. max_scroll(model, r)
  BY DEF Shows
<1>3. Orderly(model) /\ Orderly(m)
  BY <1>1, <1>2, ModelOrder
<1>4. HasLine(model.items, anchor_line(model, s))
  BY <1>2, <1>3, LineThere
<1>5. b \subseteq bad
  BY <1>1
<1>6. Covers(model.items, m.items)
  BY <1>1, <1>2, <1>5, ModelCovers
<1>7. HasLine(m.items, anchor_line(model, s))
  BY <1>4, <1>6 DEF Covers
<1>8. QED
  BY <1>3, <1>7, TargetShows

\* A key keeps the position.
LEMMA KeyKept ==
    ASSUME RdInv, NEW key \in Keys, Key(key)
    PROVE  Kept
<1> DEFINE new == key_action(key)
<1>1. KeyEffect(new) /\ ImagesOK /\ Shows(model, scroll, cols, rows, failed) /\ st = "reading"
  BY KeyDoes
<1>2. images' = images /\ resized' = resized
  BY DEF Key, fixed
<1>3. new \in 0 .. max_scroll(model, rows)
  BY <1>1, KeyTarget
<1>4. Shows(model, new, cols, rows, failed)
  BY <1>1, <1>3 DEF Shows
<1>5. cols \in Nat /\ rows \in Nat \ {0} /\ new \in Nat
  <2> DEFINE last == max_scroll(model, rows)
  <2>1. rows \in Nat \ {0} /\ cols \in Nat
    BY <1>1 DEF Shows
  <2>2. last \in Nat
    BY <1>1, <2>1, ShowsOrderly, ScrollMax
  <2> HIDE DEF last, new
  <2>3. new \in 0 .. last
    BY <1>3 DEF last
  <2>4. QED
    BY <2>1, <2>2, <2>3
<1> HIDE DEF new
<1>6. CASE model' = model /\ st' = "reading"
  BY <1>2, <1>6 DEF Kept
<1>7. CASE Frame(model, new, cols, rows, failed)
  <2>1. model' = model /\ st' # "handoff"
    <3>1. World /\ Sound(slices, LRU_CAP)
      BY DEF RdInv, CachesSound
    <3>2. model' = model /\ (st' = "reading" \/ st' = "panicked")
      BY <1>1, <1>4, <1>7, <3>1, FrameKeeps
    <3>3. QED
      BY <3>2
  <2>2. QED
    BY <1>2, <2>1 DEF Kept
<1>8. ASSUME NEW bad, failed \subseteq bad, new \in {scroll - 1, scroll + 1},
             Frame(build_model(cols, bad), Target(build_model(cols, bad), anchor_line(model, new), rows),
                   cols, rows, bad)
      PROVE  Kept
  <2> DEFINE m == build_model(cols, bad)
             line == anchor_line(model, new)
  <2>1. model' = m /\ scroll' = Target(m, line, rows) /\ rows' = rows
    BY <1>8, Zenon DEF Frame
  <2>2. st' # "handoff"
    <3>1. st' = "panicked" \/ st' = "reading"
      BY <1>8, Zenon DEF Frame
    <3>2. QED
      BY <3>1
  <2>3. InWindow(m, Target(m, line, rows), rows, line)
    BY <1>1, <1>4, <1>5, <1>8, LineSurvives
  <2>4. \E l \in {line} : OnScreen(l)'
    <3> HIDE DEF m, line
    <3>1. InWindow(model', scroll', rows', line)
      BY <2>1, <2>3
    <3>2. PICK l : l = line
      OBVIOUS
    <3>3. OnScreen(l)'
      BY <1>2, <3>1, <3>2, OnScreenNow
    <3>4. QED
      BY <3>2, <3>3
  <2>5. QED
    BY <1>2, <1>5, <1>8, <2>2, <2>4 DEF Kept
<1>9. QED
  BY <1>1, <1>6, <1>7, <1>8 DEF KeyEffect

\* A resize keeps the position.
LEMMA ResizeKept ==
    ASSUME RdInv, Resize
    PROVE  Kept
<1>1. /\ ImagesOK /\ Shows(model, scroll, cols, rows, failed) /\ images' = images
  BY DEF RdInv, Opened, Window, Resize, fixed
<1>2. CASE tty[1] < MIN_COLS
  <2>1. st' = "handoff" /\ result' = <<anchor_line(model, scroll) + 1>> /\ model' = model
    BY <1>2 DEF Resize, view
  <2>2. QED
    BY <2>1 DEF Kept
<1>3. CASE ~(tty[1] < MIN_COLS)
  <2> DEFINE m == IF tty[1] # cols THEN build_model(tty[1], failed) ELSE model
             s == ResizedScroll(m)
             line == anchor_line(model, scroll)
  <2>1. Frame(m, s, tty[1], tty[2], failed)
    BY <1>3 DEF Resize
  <2>2. tty[1] \in Nat /\ tty[2] \in Nat \ {0}
    BY SizeFacts DEF RdInv, World
  <2>3. model' = m /\ scroll' = s /\ cols' = tty[1] /\ rows' = tty[2]
    BY <2>1, Zenon DEF Frame
  <2>4. st' # "handoff"
    <3>1. st' = "panicked" \/ st' = "reading"
      BY <2>1, Zenon DEF Frame
    <3>2. QED
      BY <3>1
  <2>5. InWindow(m, s, tty[2], line)
    <3>1. CASE tty[1] # cols
      <4>1. m = build_model(tty[1], failed) /\ s = Target(m, line, tty[2])
        BY <3>1 DEF ResizedScroll, Target
      <4> HIDE DEF m, s
      <4>2. failed \subseteq failed
        OBVIOUS
      <4>3. QED
        BY <1>1, <2>2, <4>1, <4>2, LineSurvives
    <3>2. CASE tty[1] = cols
      <4>1. m = model /\ s = Min({scroll, max_scroll(m, tty[2])})
        BY <3>2 DEF ResizedScroll
      <4>2. Orderly(model) /\ rows \in Nat \ {0} /\ scroll \in 0 .. max_scroll(model, rows)
        BY <1>1, ShowsOrderly DEF Shows
      <4>3. line = LineAt(model, scroll)
        BY <4>2, LineThere
      <4>4. InWindow(model, Min({scroll, max_scroll(model, tty[2])}), tty[2], LineAt(model, scroll))
        BY <2>2, <4>2, ClampShows
      <4>5. QED
        BY <4>1, <4>3, <4>4
    <3>3. QED
      BY <3>1, <3>2
  <2>6. \E l \in {line} : OnScreen(l)'
    <3> HIDE DEF m, s
    <3>1. InWindow(model', scroll', rows', line)
      BY <2>3, <2>5
    <3>2. PICK l : l = line
      OBVIOUS
    <3>3. OnScreen(l)'
      BY <1>1, <3>1, <3>2, OnScreenNow
    <3>4. QED
      BY <3>2, <3>3
  <2>7. cols' = cols => model' = model
    BY <2>3
  <2>8. QED
    BY <2>4, <2>6, <2>7 DEF Kept
<1>4. QED
  BY <1>2, <1>3

\* Every step keeps the position.
LEMMA AllKept == RdInv /\ [Next]_vars => [Kept]_vars
<1> SUFFICES ASSUME RdInv, Next PROVE Kept
  OBVIOUS
<1>1. CASE \E capable \in BOOLEAN : try_run(capable)
  BY <1>1 DEF try_run, Kept
<1>2. CASE run_tui
  BY <1>2 DEF run_tui, Kept
<1>3. CASE \E size \in Sizes : TerminalResized(size)
  <2>1. PICK size \in Sizes : TerminalResized(size)
    BY <1>3
  <2>2. st' = st /\ model' = model /\ resized' = (st = "reading")
    BY <2>1 DEF TerminalResized
  <2>3. QED
    BY <2>2 DEF Kept
<1>4. CASE \E key \in Keys : Key(key)
  BY <1>4, KeyKept
<1>5. CASE Resize
  BY <1>5, ResizeKept
<1>6. CASE Quit
  <2>1. st' = "quit" /\ model' = model
    BY <1>6 DEF Quit, view
  <2>2. QED
    BY <2>1 DEF Kept
<1>7. QED
  BY <1>1, <1>2, <1>3, <1>4, <1>5, <1>6 DEF Next

\* The reading position survives every new layout, after a resize or a failed image, and
\* less opens at the line that was at the top (scroll_to_line, anchor_line).
THEOREM PositionAlwaysKept == Spec => PositionKept
<1>1. RdInv /\ [Next]_vars => [st = "reading" =>
        /\ (resized /\ ~resized' /\ st' = "reading") =>
               \E line \in {anchor_line(model, scroll)} : OnScreen(line)'
        /\ (cols' = cols /\ model' # model) =>
               \E line \in {anchor_line(model, s) : s \in {scroll - 1, scroll + 1} \cap Nat} : OnScreen(line)'
        /\ st' = "handoff" => result' = <<anchor_line(model, scroll) + 1>>]_vars
  BY AllKept DEF Kept
<1>2. QED
  BY <1>1, RdAlways, PTL DEF Spec, PositionKept

-----------------------------------------------------------------------------
(* Every line exactly once.                                                  *)

\* The lines from x up to y.
Span(x, y) == [j \in 1 .. y - x |-> x + j - 1]

\* Lines x up to y, by index.
LEMMA SpanFacts ==
    ASSUME NEW x \in Nat, NEW y \in Nat, x <= y
    PROVE  /\ Span(x, y) \in Seq(Nat) /\ Len(Span(x, y)) = y - x
           /\ \A j \in 1 .. y - x : Span(x, y)[j] = x + j - 1
<1> DEFINE n == y - x
           t == [j \in 1 .. n |-> x + j - 1]
<1>1. n \in Nat
  OBVIOUS
<1> HIDE DEF n
<1>2. t \in [1 .. n -> Nat]
  BY <1>1
<1>3. t \in Seq(Nat) /\ Len(t) = n /\ \A j \in 1 .. n : t[j] = x + j - 1
  BY <1>1, <1>2
<1>4. QED
  BY <1>3 DEF Span, n

\* Adjacent spans.
LEMMA SpanConcat ==
    ASSUME NEW x \in Nat, NEW y \in Nat, NEW z \in Nat, x <= y, y <= z
    PROVE  Span(x, y) \o Span(y, z) = Span(x, z)
<1> DEFINE a == Span(x, y)
           b == Span(y, z)
           d == Span(x, z)
<1>1. /\ a \in Seq(Nat) /\ Len(a) = y - x /\ \A j \in 1 .. y - x : a[j] = x + j - 1
      /\ b \in Seq(Nat) /\ Len(b) = z - y /\ \A j \in 1 .. z - y : b[j] = y + j - 1
      /\ d \in Seq(Nat) /\ Len(d) = z - x /\ \A j \in 1 .. z - x : d[j] = x + j - 1
  <2>1. x <= z
    OBVIOUS
  <2>2. a \in Seq(Nat) /\ Len(a) = y - x /\ \A j \in 1 .. y - x : a[j] = x + j - 1
    BY SpanFacts, Zenon
  <2>3. b \in Seq(Nat) /\ Len(b) = z - y /\ \A j \in 1 .. z - y : b[j] = y + j - 1
    BY SpanFacts, Zenon
  <2>4. d \in Seq(Nat) /\ Len(d) = z - x /\ \A j \in 1 .. z - x : d[j] = x + j - 1
    BY <2>1, SpanFacts, Zenon
  <2>5. QED
    BY <2>2, <2>3, <2>4
<1> HIDE DEF a, b, d
<1>2. /\ a \o b \in Seq(Nat) /\ Len(a \o b) = Len(a) + Len(b)
      /\ \A j \in 1 .. Len(a) : (a \o b)[j] = a[j]
      /\ \A j \in 1 .. Len(b) : (a \o b)[Len(a) + j] = b[j]
  <2> DEFINE Q == Nat
  <2>1. a \in Seq(Q) /\ b \in Seq(Q)
    BY <1>1
  <2> HIDE DEF Q
  <2>2. /\ a \o b \in Seq(Q) /\ Len(a \o b) = Len(a) + Len(b)
        /\ \A j \in 1 .. Len(a) : (a \o b)[j] = a[j]
        /\ \A j \in 1 .. Len(b) : (a \o b)[Len(a) + j] = b[j]
    BY <2>1, ConcatFacts
  <2>3. QED
    BY <2>2 DEF Q
<1>3. ASSUME NEW j \in 1 .. z - x PROVE (a \o b)[j] = d[j]
  <2>1. CASE j <= y - x
    <3>1. j \in 1 .. Len(a) /\ j \in 1 .. y - x
      BY <1>1, <2>1
    <3>2. QED
      BY <1>1, <1>2, <3>1
  <2>2. CASE ~(j <= y - x)
    <3>1. j - (y - x) \in 1 .. Len(b) /\ j - (y - x) \in 1 .. z - y /\ Len(a) + (j - (y - x)) = j
      BY <1>1, <2>2
    <3>2. (a \o b)[j] = y + (j - (y - x)) - 1
      BY <1>1, <1>2, <3>1
    <3>3. QED
      BY <1>1, <3>2
  <2>3. QED
    BY <2>1, <2>2
<1>4. Len(a \o b) = z - x
  BY <1>1, <1>2
<1> DEFINE ab == a \o b
<1> HIDE DEF ab
<1>5. ab \in Seq(Nat) /\ d \in Seq(Nat) /\ Len(ab) = Len(d) /\ \A j \in 1 .. Len(ab) : ab[j] = d[j]
  BY <1>1, <1>2, <1>3, <1>4 DEF ab
<1>6. ab = d
  BY <1>5, SeqEqual
<1>7. QED
  BY <1>6 DEF ab, a, b, d

\* One line, and none.
LEMMA SpanOne == ASSUME NEW x \in Nat PROVE Span(x, x + 1) = <<x>> /\ Span(x, x) = <<>>
<1>1. /\ Span(x, x + 1) \in Seq(Nat) /\ Len(Span(x, x + 1)) = (x + 1) - x
      /\ \A j \in 1 .. (x + 1) - x : Span(x, x + 1)[j] = x + j - 1
  <2>1. x + 1 \in Nat /\ x <= x + 1
    OBVIOUS
  <2>2. QED
    BY <2>1, SpanFacts, Zenon
<1>2. Span(x, x) \in Seq(Nat) /\ Len(Span(x, x)) = x - x
  <2>1. x <= x
    OBVIOUS
  <2>2. QED
    BY <2>1, SpanFacts, Zenon
<1> DEFINE s == Span(x, x + 1)
           e == Span(x, x)
<1> HIDE DEF s, e
<1>3. s \in Seq(Nat) /\ Len(s) = 1 /\ s[1] = x
  BY <1>1 DEF s
<1>4. e \in Seq(Nat) /\ Len(e) = 0
  BY <1>2 DEF e
<1>5. s = <<x>> /\ e = <<>>
  BY <1>3, <1>4
<1>6. QED
  BY <1>5 DEF s, e

\* The four kinds of row.
IsText(m, s, x, y) == m.items[s + 1] = Text(x) /\ y = x + 1
\* The first row of the block of image i.
IsHead(m, s, x, y, i) ==
    /\ Laid(m, i) /\ m.items[s + 1] = Image(i) /\ s = m.block_row[i]
    /\ x = images[i].block_start /\ y = images[i].block_end
\* Another row of the image.
IsMiddle(m, s, x, y, i) ==
    /\ Laid(m, i) /\ m.items[s + 1] = Image(i) /\ s \in m.block_row[i] + 1 .. m.block_row[i] + m.r_rows[i] - 1
    /\ x = images[i].block_end /\ y = x
\* Its alt line.
IsAlt(m, s, x, y, i) ==
    /\ Laid(m, i) /\ m.items[s + 1] = Alt(i) /\ s = m.block_row[i] + m.r_rows[i]
    /\ x = images[i].block_end /\ y = x

\* The rows of an image that is laid out.
LEMMA LaidItem ==
    ASSUME NEW m, NEW i, Laid(m, i), NEW s \in m.block_row[i] .. m.block_row[i] + m.r_rows[i]
    PROVE  m.items[s + 1] = IF s = m.block_row[i] + m.r_rows[i] THEN Alt(i) ELSE Image(i)
<1> DEFINE k == m.block_row[i]
           r == m.r_rows[i]
<1>1. /\ k \in Nat /\ r \in Nat \ {0} /\ s \in k .. k + r
      /\ \A j \in 1 .. r : m.items[k + j] = Image(i)
      /\ m.items[k + r + 1] = Alt(i)
  BY DEF Laid
<1> HIDE DEF k, r
<1>2. CASE s = k + r
  BY <1>1, <1>2 DEF k, r
<1>3. CASE s # k + r
  <2>1. s + 1 - k \in 1 .. r /\ s + 1 = k + (s + 1 - k)
    BY <1>1, <1>3
  <2>2. m.items[s + 1] = Image(i)
    BY <1>1, <2>1
  <2>3. QED
    BY <1>3, <2>2 DEF k, r
<1>4. QED
  BY <1>2, <1>3

\* Rows of different kinds or images differ.
LEMMA ItemsDiffer ==
    ASSUME NEW i, NEW j
    PROVE  /\ Text(i)[1] = "text" /\ Text(i)[2] = i
           /\ Image(i)[1] = "image" /\ Image(i)[2] = i
           /\ Alt(i)[1] = "alt" /\ Alt(i)[2] = i
           /\ Image(i) = Image(j) => i = j
           /\ Alt(i) = Alt(j) => i = j
           /\ Text(i) # Image(j) /\ Text(i) # Alt(j) /\ Image(i) # Alt(j)
<1>1. /\ Text(i)[1] = "text" /\ Text(i)[2] = i
      /\ \A n \in {i, j} : /\ Image(n)[1] = "image" /\ Image(n)[2] = n
                           /\ Alt(n)[1] = "alt" /\ Alt(n)[2] = n
  BY DEF Text, Image, Alt
<1>2. "text" # "image" /\ "text" # "alt" /\ "image" # "alt"
  OBVIOUS
<1>3. QED
  BY <1>1, <1>2, Zenon

\* A row is of one of these kinds.
LEMMA RowKinds ==
    ASSUME NEW m, NEW s \in Nat, NEW x, NEW y, Row(m, s, x, y)
    PROVE  \/ IsText(m, s, x, y)
           \/ \E i \in DOMAIN images : IsHead(m, s, x, y, i) \/ IsMiddle(m, s, x, y, i) \/ IsAlt(m, s, x, y, i)
<1>1. CASE TextRow(m, s, x, y)
  BY <1>1 DEF TextRow, IsText
<1>2. ASSUME NEW i \in DOMAIN images, BlockRow(m, s, x, y, i)
      PROVE  IsHead(m, s, x, y, i) \/ IsMiddle(m, s, x, y, i) \/ IsAlt(m, s, x, y, i)
  <2>1. Laid(m, i) /\ m.block_row[i] \in Nat /\ m.r_rows[i] \in Nat \ {0} /\ y = images[i].block_end
    BY <1>2 DEF BlockRow, Laid
  <2>2. s \in m.block_row[i] .. m.block_row[i] + m.r_rows[i]
    BY <1>2, <2>1 DEF BlockRow
  <2>3. m.items[s + 1] = IF s = m.block_row[i] + m.r_rows[i] THEN Alt(i) ELSE Image(i)
    BY <2>1, <2>2, LaidItem
  <2>4. CASE s = m.block_row[i] /\ x = images[i].block_start
    <3>1. s # m.block_row[i] + m.r_rows[i]
      BY <2>1, <2>4
    <3>2. QED
      BY <2>1, <2>3, <2>4, <3>1 DEF IsHead
  <2>5. CASE s \in m.block_row[i] + 1 .. m.block_row[i] + m.r_rows[i] /\ x = images[i].block_end
    <3>1. CASE s = m.block_row[i] + m.r_rows[i]
      BY <2>1, <2>3, <2>5, <3>1 DEF IsAlt
    <3>2. CASE s # m.block_row[i] + m.r_rows[i]
      <4>1. s \in m.block_row[i] + 1 .. m.block_row[i] + m.r_rows[i] - 1
        BY <2>1, <2>5, <3>2
      <4>2. QED
        BY <2>1, <2>3, <2>5, <3>2, <4>1 DEF IsMiddle
    <3>3. QED
      BY <3>1, <3>2
  <2>6. QED
    BY <1>2, <2>4, <2>5 DEF BlockRow
<1>3. QED
  BY <1>1, <1>2 DEF Row

\* A row of a shown block counts for that block.
LEMMA RowIn ==
    ASSUME NEW m, NEW s \in Nat, NEW x, NEW y, Row(m, s, x, y), NEW i,
           Laid(m, i), s \in m.block_row[i] .. m.block_row[i] + m.r_rows[i]
    PROVE  IsHead(m, s, x, y, i) \/ IsMiddle(m, s, x, y, i) \/ IsAlt(m, s, x, y, i)
<1>1. m.items[s + 1] \in {Alt(i), Image(i)}
  BY LaidItem
<1>2. CASE IsText(m, s, x, y)
  BY <1>1, <1>2, ItemsDiffer DEF IsText
<1>3. ASSUME NEW j, IsHead(m, s, x, y, j) \/ IsMiddle(m, s, x, y, j) \/ IsAlt(m, s, x, y, j)
      PROVE  j = i
  <2>1. m.items[s + 1] = Image(j) \/ m.items[s + 1] = Alt(j)
    BY <1>3 DEF IsHead, IsMiddle, IsAlt
  <2>2. QED
    BY <1>1, <2>1, ItemsDiffer
<1>4. QED
  BY <1>2, <1>3, RowKinds

\* The lines a row accounts for are those it is counted by.
LEMMA RowLines ==
    ASSUME ImagesOK, NEW m, NEW s \in Nat, NEW x \in Nat, NEW y, Row(m, s, x, y)
    PROVE  y \in Nat /\ x <= y /\ LinesOf(m, s) = Span(x, y)
<1>1. CASE IsText(m, s, x, y)
  <2>1. LinesOf(m, s) = <<x>>
    BY <1>1, ItemsDiffer DEF IsText, LinesOf
  <2>2. y = x + 1 /\ y \in Nat /\ x <= y
    BY <1>1 DEF IsText
  <2>3. Span(x, x + 1) = <<x>>
    BY SpanOne
  <2>4. QED
    BY <2>1, <2>2, <2>3
<1>2. ASSUME NEW i \in DOMAIN images, IsHead(m, s, x, y, i)
      PROVE  y \in Nat /\ x <= y /\ LinesOf(m, s) = Span(x, y)
  <2>1. LinesOf(m, s) = BlockLines(i)
    BY <1>2, ItemsDiffer DEF IsHead, LinesOf
  <2>2. x = images[i].block_start /\ y = images[i].block_end
    BY <1>2 DEF IsHead
  <2>3. y \in Nat /\ x <= y
    BY <2>2, ImageFacts
  <2>4. QED
    BY <2>1, <2>2, <2>3 DEF BlockLines, Span
<1>3. ASSUME NEW i \in DOMAIN images, IsMiddle(m, s, x, y, i)
      PROVE  y \in Nat /\ x <= y /\ LinesOf(m, s) = Span(x, y)
  <2>1. s # m.block_row[i]
    BY <1>3 DEF IsMiddle, Laid
  <2>2. LinesOf(m, s) = <<>>
    BY <1>3, <2>1, ItemsDiffer DEF IsMiddle, LinesOf
  <2>3. y = x
    BY <1>3 DEF IsMiddle
  <2>4. Span(x, x) = <<>>
    BY SpanOne
  <2>5. QED
    BY <2>2, <2>3, <2>4
<1>4. ASSUME NEW i \in DOMAIN images, IsAlt(m, s, x, y, i)
      PROVE  y \in Nat /\ x <= y /\ LinesOf(m, s) = Span(x, y)
  <2>2. LinesOf(m, s) = <<>>
    BY <1>4, ItemsDiffer DEF IsAlt, LinesOf
  <2>3. y = x
    BY <1>4 DEF IsAlt
  <2>4. Span(x, x) = <<>>
    BY SpanOne
  <2>5. QED
    BY <2>2, <2>3, <2>4
<1>5. QED
  BY <1>1, <1>2, <1>3, <1>4, RowKinds

\* A model whose rows account for the article, b[s] lines of it above row s.
Counted(m, b, K) ==
    /\ K = Len(m.items) /\ K \in Nat \ {0} /\ b \in [0 .. K -> Nat] /\ b[0] = 0 /\ b[K] = NLines
    /\ \A s \in 0 .. K - 1 : Row(m, s, b[s], b[s + 1])

\* The rows of every model can be counted.
LEMMA IsCounted ==
    ASSUME ImagesOK, NEW c \in Nat, NEW bad
    PROVE  \E b : Counted(build_model(c, bad), b, Len(build_model(c, bad).items))
<1> DEFINE m == build_model(c, bad)
           K == Len(m.items)
<1>1. K \in Nat \ {0}
  BY ModelOrder DEF Orderly
<1>2. PICK b : Walk(m, b, K) /\ b[K] = NLines
  BY WholePath DEF Path
<1>3. K = Len(m.items)
  OBVIOUS
<1> HIDE DEF K, m
<1>4. \A s \in 0 .. K - 1 : s \in 0 .. K /\ s + 1 \in 0 .. K
  BY <1>1
<1>5. Counted(m, b, K)
  BY <1>1, <1>2, <1>3, <1>4, Zenon DEF Counted, Walk
<1>6. QED
  BY <1>5 DEF m, K

\* The count of lines never falls.
LEMMA CountGrows ==
    ASSUME ImagesOK, NEW m, NEW b, NEW K, Counted(m, b, K), NEW s \in 0 .. K, NEW t \in 0 .. K, s <= t
    PROVE  b[s] <= b[t] /\ b[s] \in Nat /\ b[t] \in Nat
<1>1. K \in Nat /\ \A k \in 0 .. K : b[k] \in Nat
  BY DEF Counted
<1>2. ASSUME NEW k \in 0 .. K - 1 PROVE b[k] <= b[k + 1]
  <2>1. k \in Nat /\ k \in 0 .. K
    BY <1>1
  <2>2. Row(m, k, b[k], b[k + 1])
    BY DEF Counted
  <2>3. QED
    BY <1>1, <2>1, <2>2, RowLines
<1> DEFINE n == t - s
           T == {d \in 0 .. n : b[s] <= b[s + d]}
<1>3. n \in Nat /\ s + n = t
  BY <1>1
<1>4. 0 \in T
  <2>1. s + 0 = s /\ b[s] <= b[s] /\ 0 \in 0 .. n
    BY <1>1, <1>3
  <2>2. QED
    BY <2>1
<1>5. ASSUME NEW d \in 0 .. n, d \in T, d + 1 \in 0 .. n PROVE d + 1 \in T
  <2>1. /\ s + d \in 0 .. K - 1 /\ (s + d) + 1 = s + (d + 1)
        /\ s + d \in 0 .. K /\ s + (d + 1) \in 0 .. K
    BY <1>1, <1>5
  <2>2. b[s] <= b[s + d]
    BY <1>5
  <2>3. b[s + d] <= b[s + (d + 1)]
    BY <1>2, <2>1
  <2>4. b[s] <= b[s + (d + 1)]
    BY <1>1, <2>1, <2>2, <2>3
  <2>5. QED
    BY <1>5, <2>4
<1>6. \A d \in 0 .. n : d \in T /\ d + 1 \in 0 .. n => d + 1 \in T
  BY <1>5
<1> HIDE DEF T, n
<1>7. \A d \in 0 .. n : d \in T
  BY <1>3, <1>4, <1>6, Induction
<1>8. n \in T
  BY <1>3, <1>7
<1>9. QED
  BY <1>1, <1>3, <1>8 DEF T

\* The lines of the first k rows are those the count says.
LEMMA LinesInOrder ==
    ASSUME ImagesOK, NEW m, NEW b, NEW K, Counted(m, b, K)
    PROVE  FlattenSeq([s \in 1 .. K |-> LinesOf(m, s - 1)]) = Span(0, NLines)
<1> DEFINE P(k) == [s \in 1 .. k |-> LinesOf(m, s - 1)]
           T == {k \in 0 .. K : FlattenSeq(P(k)) = Span(0, b[k])}
           Q == Seq(Nat)
<1>1. K \in Nat \ {0} /\ b[0] = 0 /\ b[K] = NLines /\ \A k \in 0 .. K : b[k] \in Nat
  BY DEF Counted
<1>2. ASSUME NEW k \in 0 .. K - 1
      PROVE  b[k] <= b[k + 1] /\ LinesOf(m, k) = Span(b[k], b[k + 1]) /\ LinesOf(m, k) \in Q
  <2>1. k \in Nat /\ k \in 0 .. K /\ k + 1 \in 0 .. K
    BY <1>1
  <2>2. Row(m, k, b[k], b[k + 1])
    BY DEF Counted
  <2>3. b[k] <= b[k + 1] /\ LinesOf(m, k) = Span(b[k], b[k + 1])
    BY <1>1, <2>1, <2>2, RowLines
  <2>4. Span(b[k], b[k + 1]) \in Seq(Nat)
    BY <1>1, <2>1, <2>3, SpanFacts
  <2>5. QED
    BY <2>3, <2>4
<1>3. \A k \in 0 .. K : P(k) \in Seq(Q) /\ Len(P(k)) = k
  <2> HIDE DEF Q
  <2> TAKE k \in 0 .. K
  <2>1. k \in Nat /\ \A s \in 1 .. k : s - 1 \in 0 .. K - 1
    BY <1>1
  <2>2. P(k) \in [1 .. k -> Q]
    BY <1>2, <2>1
  <2> HIDE DEF P
  <2>3. QED
    BY <2>1, <2>2
<1>4. 0 \in T
  <2>1. P(0) = <<>>
    OBVIOUS
  <2>2. Span(0, b[0]) = <<>>
    BY <1>1, SpanOne
  <2>3. FlattenSeq(P(0)) = Span(0, b[0])
    BY <2>1, <2>2, FlattenEmpty
  <2>4. 0 \in 0 .. K
    BY <1>1
  <2> HIDE DEF P
  <2>5. QED
    BY <2>3, <2>4
<1>5. ASSUME NEW k \in 0 .. K, k \in T, k + 1 \in 0 .. K PROVE k + 1 \in T
  <2> DEFINE s == P(k)
             t == P(k + 1)
             x == LinesOf(m, k)
  <2>1. k \in 0 .. K - 1 /\ k \in Nat
    BY <1>1, <1>5
  <2>2. s \in Seq(Q) /\ Len(s) = k /\ t \in Seq(Q) /\ Len(t) = k + 1 /\ x \in Q
    BY <1>2, <1>3, <1>5, <2>1
  <2>3. \A j \in 1 .. k + 1 : t[j] = Append(s, x)[j]
    <3>1. \A j \in 1 .. k : s[j] = t[j]
      BY <2>1
    <3>2. t[k + 1] = x
      <4>1. k + 1 \in 1 .. k + 1 /\ (k + 1) - 1 = k
        BY <2>1
      <4>2. QED
        BY <4>1, Zenon
    <3> HIDE DEF s, t, x, Q
    <3>3. QED
      BY <2>1, <2>2, <3>1, <3>2
  <2>4. t = Append(s, x)
    <3> HIDE DEF s, t, x, Q
    <3>1. Append(s, x) \in Seq(Q) /\ Len(Append(s, x)) = k + 1
      BY <2>2
    <3>2. QED
      BY <2>2, <2>3, <3>1, SeqEqual
  <2>5. FlattenSeq(Append(s, x)) = FlattenSeq(s) \o x
    <3> HIDE DEF s, t, x
    <3>1. QED
      BY <2>2, FlattenAppend
  <2>6. FlattenSeq(s) = Span(0, b[k])
    BY <1>5
  <2>7. x = Span(b[k], b[k + 1]) /\ b[k] <= b[k + 1]
    BY <1>2, <2>1
  <2>8. Span(0, b[k]) \o Span(b[k], b[k + 1]) = Span(0, b[k + 1])
    <3>1. b[k] \in Nat /\ b[k + 1] \in Nat /\ 0 <= b[k] /\ 0 \in Nat
      BY <1>1, <1>5
    <3>2. QED
      BY <2>7, <3>1, SpanConcat
  <2> HIDE DEF s, t, x
  <2>9. FlattenSeq(t) = Span(0, b[k + 1])
    BY <2>4, <2>5, <2>6, <2>7, <2>8, Zenon
  <2>10. QED
    BY <1>5, <2>9 DEF t
<1>6. \A k \in 0 .. K : k \in T /\ k + 1 \in 0 .. K => k + 1 \in T
  BY <1>5
<1> HIDE DEF T
<1>7. \A k \in 0 .. K : k \in T
  BY <1>1, <1>4, <1>6, Induction
<1>8. K \in T
  BY <1>1, <1>7
<1>9. QED
  BY <1>1, <1>8 DEF T

-----------------------------------------------------------------------------
(* exit_view, from the end of the window upwards.                            *)

\* One step of exit_view, when f gives the lines of the rows below.
ExitBody(m, E, f, i) ==
    IF i >= E THEN <<>>
    ELSE LET item == m.items[i + 1] IN
         CASE item[1] = "text"  -> <<item[2]>> \o f[i + 1]
           [] item[1] = "image" -> BlockLines(item[2]) \o f[i + BlockRows(m, item[2])]
           [] item[1] = "alt"   -> f[i + 1]

\* f is the table of exit_view.
Exits(f, m, s, E, K) == f = [i \in s .. (E + K) |-> ExitBody(m, E, f, i)]
\* The same from row n on.
ExitsFrom(f, m, s, E, K, n) == f = [i \in s .. (E + K) |-> IF i >= n THEN ExitBody(m, E, f, i) ELSE <<>>]

\* exit_view is the first value of its table.
LEMMA ExitIs ==
    ASSUME NEW m, NEW s, NEW r
    PROVE  LET E == Min({s + r, Len(m.items)})
           IN  exit_view(m, s, r) = (CHOOSE f : Exits(f, m, s, E, Len(m.items)))[s]
  BY Zenon DEF exit_view, Exits, ExitBody

\* An image that is laid out skips its rows.
LEMMA BlockRowsIs ==
    ASSUME NEW m, NEW i, Laid(m, i)
    PROVE  BlockRows(m, i) = m.r_rows[i]
<1> DEFINE r == m.r_rows[i]
<1>1. r \in Nat \ {0}
  BY DEF Laid
<1>2. BlockRows(m, i) = Max({1, r})
  BY DEF BlockRows
<1> HIDE DEF r
<1>3. Max({1, r}) = IF 1 >= r THEN 1 ELSE r
  BY <1>1, MaxOfTwo
<1>4. QED
  BY <1>1, <1>2, <1>3 DEF r

\* What the step is, by the kind of the row.
ExitStep(m, E, f, s, x, y) ==
    /\ IsText(m, s, x, y) => ExitBody(m, E, f, s) = <<x>> \o f[s + 1]
    /\ \A i : IsHead(m, s, x, y, i) \/ IsMiddle(m, s, x, y, i) =>
          ExitBody(m, E, f, s) = BlockLines(i) \o f[s + m.r_rows[i]]
    /\ \A i : IsAlt(m, s, x, y, i) => ExitBody(m, E, f, s) = f[s + 1]

\* One row of the table, by the kind of the row.
LEMMA ExitSteps ==
    ASSUME NEW m, NEW E \in Nat, NEW f, NEW s \in 0 .. E - 1, NEW x, NEW y
    PROVE  ExitStep(m, E, f, s, x, y)
<1>1. ~(s >= E)
  OBVIOUS
<1>2. ASSUME IsText(m, s, x, y)
      PROVE  ExitBody(m, E, f, s) = <<x>> \o f[s + 1]
  BY <1>1, <1>2, ItemsDiffer DEF IsText, ExitBody
<1>3. ASSUME NEW i, IsHead(m, s, x, y, i) \/ IsMiddle(m, s, x, y, i)
      PROVE  ExitBody(m, E, f, s) = BlockLines(i) \o f[s + m.r_rows[i]]
  <2>1. m.items[s + 1] = Image(i) /\ Laid(m, i)
    BY <1>3 DEF IsHead, IsMiddle
  <2>2. BlockRows(m, i) = m.r_rows[i]
    BY <2>1, BlockRowsIs
  <2>3. ExitBody(m, E, f, s) = BlockLines(i) \o f[s + BlockRows(m, i)]
    BY <1>1, <2>1, ItemsDiffer DEF ExitBody
  <2>4. QED
    BY <2>2, <2>3
<1>4. ASSUME NEW i, IsAlt(m, s, x, y, i)
      PROVE  ExitBody(m, E, f, s) = f[s + 1]
  BY <1>1, <1>4, ItemsDiffer DEF IsAlt, ExitBody
<1>5. QED
  BY <1>2, <1>3, <1>4, Zenon DEF ExitStep

\* f and g agree from i to n.
SameFrom(f, g, i, n) == \A j \in i .. n : f[j] = g[j]

\* A row of the table depends on the rows below it.
LEMMA ExitSame ==
    ASSUME NEW m, NEW b, NEW K, Counted(m, b, K), NEW E \in 0 .. K, NEW f, NEW g, NEW i \in 0 .. E - 1,
           SameFrom(f, g, i + 1, E + K)
    PROVE  ExitBody(m, E, f, i) = ExitBody(m, E, g, i)
<1>1. K \in Nat /\ K = Len(m.items) /\ i \in Nat /\ E \in Nat /\ i \in 0 .. K - 1
  BY DEF Counted
<1>2. Row(m, i, b[i], b[i + 1])
  BY <1>1 DEF Counted
<1>s. ExitStep(m, E, f, i, b[i], b[i + 1]) /\ ExitStep(m, E, g, i, b[i], b[i + 1])
  BY <1>1, ExitSteps
<1>3. f[i + 1] = g[i + 1]
  <2>1. i + 1 \in i + 1 .. E + K
    BY <1>1
  <2>2. QED
    BY <2>1 DEF SameFrom
<1>4. CASE IsText(m, i, b[i], b[i + 1])
  <2>1. ExitBody(m, E, f, i) = <<b[i]>> \o f[i + 1] /\ ExitBody(m, E, g, i) = <<b[i]>> \o g[i + 1]
    BY <1>s, <1>4, Zenon DEF ExitStep
  <2>2. QED
    BY <1>3, <2>1, Zenon
<1>5. ASSUME NEW j, IsHead(m, i, b[i], b[i + 1], j) \/ IsMiddle(m, i, b[i], b[i + 1], j)
      PROVE  ExitBody(m, E, f, i) = ExitBody(m, E, g, i)
  <2>1. m.r_rows[j] \in Nat \ {0} /\ m.block_row[j] \in Nat /\ m.block_row[j] + m.r_rows[j] < K
    BY <1>1, <1>5 DEF IsHead, IsMiddle, Laid
  <2>2. i + m.r_rows[j] \in i + 1 .. E + K
    <3> DEFINE r == m.r_rows[j]
               k == m.block_row[j]
    <3>1. r \in Nat \ {0} /\ k \in Nat /\ k + r < K
      BY <2>1
    <3> HIDE DEF r, k
    <3>2. i + r \in i + 1 .. E + K
      BY <1>1, <3>1
    <3>3. QED
      BY <3>2 DEF r
  <2>3. f[i + m.r_rows[j]] = g[i + m.r_rows[j]]
    BY <2>2 DEF SameFrom
  <2>4. /\ ExitBody(m, E, f, i) = BlockLines(j) \o f[i + m.r_rows[j]]
        /\ ExitBody(m, E, g, i) = BlockLines(j) \o g[i + m.r_rows[j]]
    BY <1>s, <1>5, Zenon DEF ExitStep
  <2>5. QED
    BY <2>3, <2>4, Zenon
<1>6. ASSUME NEW j, IsAlt(m, i, b[i], b[i + 1], j)
      PROVE  ExitBody(m, E, f, i) = ExitBody(m, E, g, i)
  <2>1. ExitBody(m, E, f, i) = f[i + 1] /\ ExitBody(m, E, g, i) = g[i + 1]
    BY <1>s, <1>6, Zenon DEF ExitStep
  <2>2. QED
    BY <1>3, <2>1, Zenon
<1>7. QED
  BY <1>1, <1>2, <1>4, <1>5, <1>6, RowKinds

\* The table exists: it is filled from the end.
LEMMA ExitsExist ==
    ASSUME NEW m, NEW b, NEW K, Counted(m, b, K), NEW E \in 0 .. K, NEW s \in 0 .. E
    PROVE  \E f : Exits(f, m, s, E, K)
<1> DEFINE D == s .. (E + K)
           n == E - s
           T == {d \in 0 .. n : \E f : ExitsFrom(f, m, s, E, K, E - d)}
<1>1. K \in Nat /\ n \in Nat /\ E \in Nat /\ s \in Nat
  BY DEF Counted
<1>2. 0 \in T
  <2> DEFINE f == [i \in D |-> <<>>]
  <2>1. \A i \in D : ExitBody(m, E, f, i) = <<>> \/ ~(i >= E)
    BY DEF ExitBody
  <2>2. f = [i \in D |-> IF i >= E THEN ExitBody(m, E, f, i) ELSE <<>>]
    BY <2>1, Zenon
  <2>3. E - 0 = E /\ 0 \in 0 .. n
    BY <1>1
  <2> HIDE DEF f
  <2>4. ExitsFrom(f, m, s, E, K, E - 0)
    BY <2>2, <2>3, Zenon DEF ExitsFrom
  <2>5. QED
    BY <2>3, <2>4
<1>3. ASSUME NEW d \in 0 .. n, d \in T, d + 1 \in 0 .. n PROVE d + 1 \in T
  <2> DEFINE k == E - d
             l == E - (d + 1)
  <2>1. PICK f : ExitsFrom(f, m, s, E, K, k)
    BY <1>3
  <2>2. /\ k \in Nat /\ l \in Nat /\ k = l + 1 /\ l \in s .. E - 1 /\ l \in D /\ l \in 0 .. E - 1
        /\ \A i \in D : i \in Nat /\ (i >= l /\ i # l => i >= k) /\ (i >= k => i >= l /\ i # l)
    BY <1>1, <1>3
  <2>3. \A i \in D : \A j \in i + 1 .. E + K : j \in D /\ (i >= l => j >= k)
    BY <1>1, <1>3
  <2> DEFINE g == [i \in D |-> IF i = l THEN ExitBody(m, E, f, l) ELSE f[i]]
  <2>4. \A i \in D : i >= l => SameFrom(g, f, i + 1, E + K)
    <3>1. ASSUME NEW i \in D, i >= l, NEW j \in i + 1 .. E + K PROVE g[j] = f[j]
      <4>1. j \in D /\ j >= k
        BY <2>3, <3>1
      <4>2. j # l
        BY <2>2, <4>1
      <4>3. QED
        BY <4>1, <4>2
    <3>2. QED
      BY <3>1 DEF SameFrom
  <2>5. ASSUME NEW i \in D, i >= l PROVE ExitBody(m, E, g, i) = ExitBody(m, E, f, i)
    <3>1. CASE i >= E
      BY <3>1 DEF ExitBody
    <3>2. CASE ~(i >= E)
      <4>1. i \in 0 .. E - 1
        BY <1>1, <2>2, <3>2
      <4>2. SameFrom(g, f, i + 1, E + K)
        BY <2>4, <2>5
      <4> HIDE DEF g
      <4>3. QED
        BY <4>1, <4>2, ExitSame
    <3>3. QED
      BY <3>1, <3>2
  <2>6. \A i \in D : i >= k => f[i] = ExitBody(m, E, f, i)
    BY <2>1, Zenon DEF ExitsFrom
  <2>7. \A i \in D : ~(i >= k) => f[i] = <<>>
    BY <2>1, Zenon DEF ExitsFrom
  <2>8. ASSUME NEW i \in D PROVE g[i] = IF i >= l THEN ExitBody(m, E, g, i) ELSE <<>>
    <3>1. CASE i = l
      <4>1. i >= l /\ g[i] = ExitBody(m, E, f, i)
        BY <2>2, <3>1
      <4>2. ExitBody(m, E, g, i) = ExitBody(m, E, f, i)
        BY <2>5, <4>1
      <4> HIDE DEF g
      <4>3. QED
        BY <4>1, <4>2
    <3>2. CASE i # l /\ i >= l
      <4>1. i >= k /\ g[i] = f[i]
        BY <2>2, <3>2
      <4>2. ExitBody(m, E, g, i) = ExitBody(m, E, f, i)
        BY <2>5, <3>2
      <4> HIDE DEF g
      <4>3. QED
        BY <2>6, <3>2, <4>1, <4>2
    <3>3. CASE ~(i >= l)
      <4>1. i # l /\ ~(i >= k)
        BY <2>2, <3>3
      <4>2. g[i] = <<>>
        BY <2>7, <4>1
      <4> HIDE DEF g
      <4>3. QED
        BY <3>3, <4>2
    <3>4. QED
      BY <3>1, <3>2, <3>3
  <2>9. g = [i \in D |-> g[i]]
    OBVIOUS
  <2> HIDE DEF g
  <2>10. g = [i \in D |-> IF i >= l THEN ExitBody(m, E, g, i) ELSE <<>>]
    BY <2>8, <2>9, Zenon
  <2>11. ExitsFrom(g, m, s, E, K, E - (d + 1))
    BY <2>10, Zenon DEF ExitsFrom
  <2>12. QED
    BY <1>3, <2>11
<1>4. \A d \in 0 .. n : d \in T /\ d + 1 \in 0 .. n => d + 1 \in T
  BY <1>3
<1> HIDE DEF T
<1>5. \A d \in 0 .. n : d \in T
  BY <1>1, <1>2, <1>4, Induction
<1>6. n \in T /\ E - n = s
  BY <1>1, <1>5
<1>7. PICK f : ExitsFrom(f, m, s, E, K, s)
  BY <1>6 DEF T
<1>8. \A i \in D : i >= s
  BY <1>1
<1>9. f = [i \in D |-> ExitBody(m, E, f, i)]
  <2>1. f = [i \in D |-> IF i >= s THEN ExitBody(m, E, f, i) ELSE <<>>]
    BY <1>7 DEF ExitsFrom
  <2>2. \A i \in D : f[i] = ExitBody(m, E, f, i)
    BY <1>8, <2>1, Zenon
  <2>3. f = [i \in D |-> f[i]]
    BY <2>1, Zenon
  <2>4. QED
    BY <2>2, <2>3, Zenon
<1>10. QED
  BY <1>9, Zenon DEF Exits

\* Row i does not start within an image.
Enters(m, i) == m.items[i + 1][1] = "image" => m.block_row[m.items[i + 1][2]] = i

\* The row below a text or alt line, or below the image, is no row within an image.
LEMMA EntersBelow ==
    ASSUME NEW m, NEW b, NEW K, Counted(m, b, K), NEW i \in 0 .. K - 1, i + 1 < K,
           m.items[i + 1][1] # "image"
    PROVE  Enters(m, i + 1)
<1>1. K \in Nat /\ i \in Nat /\ i + 1 \in 0 .. K - 1 /\ i + 1 \in Nat
  BY DEF Counted
<1>2. Row(m, i + 1, b[i + 1], b[(i + 1) + 1])
  BY <1>1 DEF Counted
<1> DEFINE s == i + 1
           x == b[s]
           y == b[s + 1]
<1>3. CASE IsText(m, s, x, y)
  BY <1>3, ItemsDiffer DEF IsText, Enters
<1>4. ASSUME NEW j, IsHead(m, s, x, y, j) PROVE Enters(m, s)
  BY <1>4, ItemsDiffer DEF IsHead, Enters
<1>5. ASSUME NEW j, IsMiddle(m, s, x, y, j) PROVE FALSE
  <2>1. /\ Laid(m, j) /\ m.block_row[j] \in Nat /\ m.r_rows[j] \in Nat
        /\ s \in m.block_row[j] + 1 .. m.block_row[j] + m.r_rows[j] - 1
    BY <1>5 DEF IsMiddle, Laid
  <2>2. i \in m.block_row[j] .. m.block_row[j] + m.r_rows[j] /\ i # m.block_row[j] + m.r_rows[j]
    BY <1>1, <2>1
  <2>3. m.items[i + 1] = Image(j)
    BY <2>1, <2>2, LaidItem
  <2>4. QED
    BY <2>3, ItemsDiffer
<1>6. ASSUME NEW j, IsAlt(m, s, x, y, j) PROVE Enters(m, s)
  BY <1>6, ItemsDiffer DEF IsAlt, Enters
<1>7. QED
  BY <1>1, <1>2, <1>3, <1>4, <1>5, <1>6, RowKinds

\* The rows of a block after the first count nothing.
LEMMA CountInBlock ==
    ASSUME NEW m, NEW b, NEW K, Counted(m, b, K), NEW i, Laid(m, i),
           NEW s \in m.block_row[i] + 1 .. m.block_row[i] + m.r_rows[i]
    PROVE  b[s] = images[i].block_end
<1> DEFINE k == m.block_row[i]
           r == m.r_rows[i]
<1>1. k \in Nat /\ r \in Nat \ {0} /\ k + r < K /\ K \in Nat
  BY DEF Laid, Counted
<1>2. s \in Nat /\ s \in 0 .. K - 1 /\ s \in k .. k + r /\ s # k
  <2>1. s \in k + 1 .. k + r
    OBVIOUS
  <2> HIDE DEF k, r
  <2>2. QED
    BY <1>1, <2>1
<1>3. Row(m, s, b[s], b[s + 1])
  BY <1>2 DEF Counted
<1>4. IsHead(m, s, b[s], b[s + 1], i) \/ IsMiddle(m, s, b[s], b[s + 1], i) \/ IsAlt(m, s, b[s], b[s + 1], i)
  BY <1>2, <1>3, RowIn
<1>5. QED
  BY <1>2, <1>4, Zenon DEF IsHead, IsMiddle, IsAlt

\* The value of row i: every line from there to the end of the window.
Value(m, b, E, f, i) == i = E \/ Enters(m, i) => f[i] = Span(b[i], b[E])

\* A row has its value when those below have.
LEMMA ExitStepValue ==
    ASSUME ImagesOK, NEW m, NEW b, NEW K, Counted(m, b, K), NEW E \in 0 .. K, NEW i \in 0 .. E - 1, NEW f,
           f[i] = ExitBody(m, E, f, i), Enters(m, i),
           \A j \in i + 1 .. E : Value(m, b, E, f, j),
           \A j \in E .. E + K : f[j] = <<>>
    PROVE  f[i] = Span(b[i], b[E])
<1>1. K \in Nat /\ K = Len(m.items) /\ i \in Nat /\ E \in Nat /\ i \in 0 .. K - 1 /\ i + 1 \in i + 1 .. E
  BY DEF Counted
<1>2. Row(m, i, b[i], b[i + 1])
  BY <1>1 DEF Counted
<1>3. b[i] \in Nat /\ b[i + 1] \in Nat /\ b[E] \in Nat /\ b[i] <= b[i + 1] /\ b[i + 1] <= b[E]
  <2>1. i \in 0 .. K /\ i + 1 \in 0 .. K /\ E \in 0 .. K /\ i <= i + 1 /\ i + 1 <= E
    BY <1>1
  <2>2. QED
    BY <2>1, CountGrows
<1>4. ExitStep(m, E, f, i, b[i], b[i + 1])
  BY <1>1, ExitSteps
<1>5. ASSUME m.items[i + 1][1] # "image" PROVE f[i + 1] = Span(b[i + 1], b[E])
  <2>1. i + 1 = E \/ Enters(m, i + 1)
    <3>1. i + 1 # E => i + 1 < K
      BY <1>1
    <3>2. QED
      BY <1>1, <1>5, <3>1, EntersBelow
  <2>2. QED
    BY <1>1, <2>1 DEF Value
<1>6. CASE IsText(m, i, b[i], b[i + 1])
  <2>1. m.items[i + 1][1] # "image" /\ b[i + 1] = b[i] + 1
    BY <1>6, ItemsDiffer DEF IsText
  <2>2. f[i] = <<b[i]>> \o f[i + 1]
    BY <1>4, <1>6, Zenon DEF ExitStep
  <2>3. f[i] = Span(b[i], b[i + 1]) \o Span(b[i + 1], b[E])
    <3>1. Span(b[i], b[i + 1]) = <<b[i]>>
      BY <1>3, <2>1, SpanOne
    <3>2. f[i + 1] = Span(b[i + 1], b[E])
      BY <1>5, <2>1
    <3>3. QED
      BY <2>2, <3>1, <3>2, Zenon
  <2>4. Span(b[i], b[i + 1]) \o Span(b[i + 1], b[E]) = Span(b[i], b[E])
    BY <1>3, SpanConcat
  <2>5. QED
    BY <2>3, <2>4, Zenon
<1>7. ASSUME NEW j \in DOMAIN images, IsHead(m, i, b[i], b[i + 1], j)
      PROVE  f[i] = Span(b[i], b[E])
  <2> DEFINE k == m.block_row[j]
             r == m.r_rows[j]
             e == images[j].block_end
  <2>1. /\ Laid(m, j) /\ i = k /\ k \in Nat /\ r \in Nat \ {0} /\ k + r < K
        /\ b[i] = images[j].block_start /\ b[i + 1] = e
    BY <1>1, <1>7 DEF IsHead, Laid
  <2>2. f[i] = BlockLines(j) \o f[i + r]
    BY <1>4, <1>7, Zenon DEF ExitStep
  <2>3. BlockLines(j) = Span(b[i], e)
    BY <2>1 DEF BlockLines, Span
  <2>4. f[i + r] = Span(e, b[E])
    <3>1. CASE i + r <= E
      <4>1. i + r = E \/ Enters(m, i + r)
        <5>1. k + r \in k .. k + r
          BY <2>1
        <5>2. m.items[(k + r) + 1] = Alt(j)
          BY <2>1, <5>1, LaidItem
        <5>3. QED
          BY <2>1, <5>2, ItemsDiffer DEF Enters
      <4>2. i + r \in i + 1 .. E
        <5> HIDE DEF r, k, e
        <5>1. QED
          BY <1>1, <2>1, <3>1
      <4>3. f[i + r] = Span(b[i + r], b[E])
        BY <4>1, <4>2 DEF Value
      <4>4. b[i + r] = e
        <5>1. i + r \in k + 1 .. k + r
          BY <2>1
        <5>2. QED
          BY <2>1, <5>1, CountInBlock
      <4>5. QED
        BY <4>3, <4>4
    <3>2. CASE ~(i + r <= E)
      <4>1. i + r \in E .. E + K /\ E \in k + 1 .. k + r
        <5> HIDE DEF r, k, e
        <5>1. QED
          BY <1>1, <2>1, <3>2
      <4>2. f[i + r] = <<>>
        BY <4>1
      <4>3. b[E] = e
        BY <2>1, <4>1, CountInBlock
      <4>4. Span(b[E], b[E]) = <<>>
        BY <1>3, SpanOne
      <4>5. QED
        BY <4>2, <4>3, <4>4
    <3>3. QED
      BY <3>1, <3>2
  <2>5. Span(b[i], e) \o Span(e, b[E]) = Span(b[i], b[E])
    <3> HIDE DEF e
    <3>1. b[i] \in Nat /\ e \in Nat /\ b[E] \in Nat /\ b[i] <= e /\ e <= b[E]
      BY <1>3, <2>1
    <3>2. QED
      BY <3>1, SpanConcat
  <2> HIDE DEF e, k, r
  <2>6. QED
    BY <2>2, <2>3, <2>4, <2>5, Zenon
<1>8. ASSUME NEW j \in DOMAIN images, IsMiddle(m, i, b[i], b[i + 1], j)
      PROVE  FALSE
  <2>1. m.block_row[j] # i /\ m.items[i + 1] = Image(j)
    BY <1>8 DEF IsMiddle, Laid
  <2>2. QED
    BY <2>1, ItemsDiffer DEF Enters
<1>9. ASSUME NEW j \in DOMAIN images, IsAlt(m, i, b[i], b[i + 1], j)
      PROVE  f[i] = Span(b[i], b[E])
  <2>1. m.items[i + 1][1] # "image" /\ b[i + 1] = b[i]
    BY <1>9, ItemsDiffer DEF IsAlt
  <2>2. f[i] = f[i + 1]
    BY <1>4, <1>9, Zenon DEF ExitStep
  <2>3. QED
    BY <1>5, <2>1, <2>2
<1>10. QED
  BY <1>1, <1>2, <1>6, <1>7, <1>8, <1>9, RowKinds

\* Every row that is no middle of an image has its value.
LEMMA ExitValue ==
    ASSUME ImagesOK, NEW m, NEW b, NEW K, Counted(m, b, K), NEW E \in 0 .. K, NEW s \in 0 .. E, NEW f,
           Exits(f, m, s, E, K), s = E \/ Enters(m, s)
    PROVE  f[s] = Span(b[s], b[E])
<1> DEFINE n == E - s
           T == {d \in 0 .. n : \A i \in s .. E : i >= E - d => Value(m, b, E, f, i)}
           D == s .. (E + K)
<1>1. K \in Nat /\ E \in Nat /\ s \in Nat /\ n \in Nat /\ b[E] \in Nat
  BY DEF Counted
<1>2. \A i \in D : f[i] = ExitBody(m, E, f, i)
  BY Zenon DEF Exits
<1>3. \A j \in E .. E + K : f[j] = <<>>
  <2> TAKE j \in E .. E + K
  <2>1. j \in D /\ j >= E
    BY <1>1
  <2>2. QED
    BY <1>2, <2>1 DEF ExitBody
<1>4. Value(m, b, E, f, E)
  <2>1. E \in E .. E + K
    BY <1>1
  <2>2. f[E] = <<>> /\ Span(b[E], b[E]) = <<>>
    BY <1>1, <1>3, <2>1, SpanOne
  <2>3. QED
    BY <2>2 DEF Value
<1>5. 0 \in T
  <2>1. \A i \in s .. E : i >= E - 0 => i = E
    BY <1>1
  <2>2. 0 \in 0 .. n
    BY <1>1
  <2> HIDE DEF n
  <2>3. QED
    BY <1>4, <2>1, <2>2
<1>6. ASSUME NEW d \in 0 .. n, d \in T, d + 1 \in 0 .. n PROVE d + 1 \in T
  <2> DEFINE l == E - (d + 1)
  <2>1. l \in 0 .. E - 1 /\ l \in D /\ l \in s .. E
    BY <1>1, <1>6
  <2>2. \A j \in l + 1 .. E : j \in s .. E /\ j >= E - d
    BY <1>1, <1>6
  <2>3. \A i \in s .. E : i >= E - d => Value(m, b, E, f, i)
    BY <1>6
  <2>4. \A j \in l + 1 .. E : Value(m, b, E, f, j)
    BY <2>2, <2>3
  <2>5. f[l] = ExitBody(m, E, f, l) /\ l # E
    BY <1>2, <2>1
  <2> HIDE DEF l
  <2>6. Value(m, b, E, f, l)
    <3> SUFFICES ASSUME Enters(m, l) PROVE f[l] = Span(b[l], b[E])
      BY <2>5 DEF Value
    <3>1. QED
      BY <1>3, <2>1, <2>4, <2>5, ExitStepValue
  <2>7. \A i \in s .. E : i >= E - (d + 1) => i = l \/ i \in l + 1 .. E
    BY <1>1, <1>6 DEF l
  <2>8. \A i \in s .. E : i >= E - (d + 1) => Value(m, b, E, f, i)
    BY <2>4, <2>6, <2>7
  <2>9. QED
    BY <1>6, <2>8
<1>7. \A d \in 0 .. n : d \in T /\ d + 1 \in 0 .. n => d + 1 \in T
  BY <1>6
<1>8. E - n = s /\ s \in s .. E
  BY <1>1
<1> HIDE DEF T, n
<1>9. \A d \in 0 .. n : d \in T
  BY <1>1, <1>5, <1>7, Induction
<1>10. n \in T
  BY <1>1, <1>9
<1>11. Value(m, b, E, f, s)
  <2>1. s >= E - n
    BY <1>1, <1>8
  <2>2. QED
    BY <1>8, <1>10, <2>1 DEF T
<1>12. QED
  BY <1>11 DEF Value

\* The window of r rows from row s on ends above row E.
Cut(K, s, r, E) ==
    E \in s + 1 .. K /\ E <= s + r /\ \A t \in s .. s + r - 1 : t < K <=> t \in s .. E - 1

\* exit_view leaves the lines that the window counts.
LEMMA ExitLines ==
    ASSUME ImagesOK, NEW m, NEW b, NEW K, Counted(m, b, K), NEW r \in Nat \ {0}, NEW s \in 0 .. K - 1, Enters(m, s),
           NEW E, E = Min({s + r, K})
    PROVE  exit_view(m, s, r) = Span(b[s], b[E]) /\ Cut(K, s, r, E)
<1>1. K \in Nat /\ K = Len(m.items) /\ s \in Nat /\ s \in 0 .. K - 1
  BY DEF Counted
<1>2. E = IF s + r <= K THEN s + r ELSE K
  BY <1>1, MinOfTwo
<1>3. E \in s + 1 .. K /\ E <= s + r /\ E \in 0 .. K /\ s \in 0 .. E
  BY ONLY <1>1, <1>2, r \in Nat \ {0}
<1>4. \A t \in s .. s + r - 1 : t < K <=> t \in s .. E - 1
  BY ONLY <1>1, <1>2, r \in Nat \ {0}
<1> DEFINE F == CHOOSE f : Exits(f, m, s, E, K)
<1>5. Exits(F, m, s, E, K)
  BY <1>3, ExitsExist, Zenon
<1>6. exit_view(m, s, r) = F[s]
  <2>1. exit_view(m, s, r) = (CHOOSE f : Exits(f, m, s, Min({s + r, Len(m.items)}), Len(m.items)))[s]
    BY ExitIs
  <2>2. QED
    BY <1>1, <2>1, Zenon
<1> HIDE DEF F
<1>7. F[s] = Span(b[s], b[E])
  BY <1>3, <1>5, ExitValue
<1>8. QED
  BY <1>3, <1>4, <1>6, <1>7 DEF Cut

\* The lines row t leaves on the main screen.
RowSet(m, t) ==
    CASE m.items[t + 1][1] = "text"  -> {m.items[t + 1][2]}
      [] m.items[t + 1][1] = "image" -> Range(BlockLines(m.items[t + 1][2]))
      [] m.items[t + 1][1] = "alt"   -> {}
\* LeftLines for the window (s, r) of m.
Left(m, s, r) == UNION {RowSet(m, t) : t \in {t \in s .. (s + r - 1) : t < Len(m.items)}}

\* LeftLines is that of the state.
LEMMA LeftIs == LeftLines = Left(model, scroll, rows)
  BY Zenon DEF LeftLines, Visible, Left, RowSet

\* The lines of a span, each once and in order.
LEMMA SpanRange ==
    ASSUME NEW x \in Nat, NEW y \in Nat, x <= y
    PROVE  Range(Span(x, y)) = x .. y - 1 /\ \A i, j \in DOMAIN Span(x, y) : i < j => Span(x, y)[i] < Span(x, y)[j]
<1> DEFINE q == Span(x, y)
<1>1. q \in Seq(Nat) /\ Len(q) = y - x /\ \A j \in 1 .. y - x : q[j] = x + j - 1
  BY SpanFacts, Zenon
<1> HIDE DEF q
<1>2. DOMAIN q = 1 .. y - x
  BY <1>1
<1>3. \A i, j \in DOMAIN q : i < j => q[i] < q[j]
  BY <1>1, <1>2
<1>4. \A v \in Range(q) : v \in x .. y - 1
  BY <1>1, <1>2 DEF Range
<1>5. ASSUME NEW v \in x .. y - 1 PROVE v \in Range(q)
  <2>1. v - x + 1 \in 1 .. y - x /\ x + (v - x + 1) - 1 = v
    OBVIOUS
  <2>2. q[v - x + 1] = v
    BY <1>1, <2>1
  <2>3. QED
    BY <1>2, <2>1, <2>2 DEF Range
<1>6. Range(q) = x .. y - 1
  BY <1>4, <1>5
<1>7. QED
  BY <1>3, <1>6 DEF q

\* A line between the counts of two rows is counted by a row between them.
LEMMA Crossing ==
    ASSUME ImagesOK, NEW m, NEW b, NEW K, Counted(m, b, K), NEW s \in 0 .. K, NEW E \in 0 .. K, s <= E,
           NEW v \in b[s] .. b[E] - 1
    PROVE  \E t \in s .. E - 1 : b[t] <= v /\ v < b[t + 1]
<1> DEFINE U == {t \in s .. E : v < b[t]}
<1>1. K \in Nat /\ s \in Nat /\ E \in Nat /\ \A t \in 0 .. K : b[t] \in Nat
  <2>1. K \in Nat /\ b \in [0 .. K -> Nat]
    BY DEF Counted
  <2>2. QED
    BY ONLY <2>1, s \in 0 .. K, E \in 0 .. K
<1>2. v \in Int /\ b[s] <= v /\ v < b[E] /\ b[s] \in Nat /\ b[E] \in Nat
  <2> DEFINE x == b[s]
             y == b[E]
  <2>1. x \in Nat /\ y \in Nat /\ v \in x .. y - 1
    BY <1>1
  <2> HIDE DEF x, y
  <2>2. v \in Int /\ x <= v /\ v < y
    BY ONLY <2>1
  <2>3. QED
    BY <2>1, <2>2 DEF x, y
<1>3. U \in SUBSET Nat /\ E \in U
  BY <1>1, <1>2
<1>4. PICK x \in U : \A y \in U : x <= y
  <2> HIDE DEF U
  <2>1. QED
    BY <1>3, Least
<1>5. x \in s .. E /\ v < b[x] /\ x # s
  BY <1>2, <1>4
<1>6. x - 1 \in s .. E - 1 /\ x - 1 \in s .. E /\ x - 1 \in 0 .. K /\ (x - 1) + 1 = x /\ ~(x <= x - 1)
  BY <1>1, <1>5
<1>7. ~(v < b[x - 1])
  BY <1>4, <1>6
<1>8. b[x - 1] <= v
  BY <1>1, <1>2, <1>6, <1>7
<1>9. QED
  BY <1>5, <1>6, <1>8

\* The lines the window shows are those it counts.
LEMMA LeftValue ==
    ASSUME ImagesOK, NEW m, NEW b, NEW K, Counted(m, b, K), NEW r \in Nat \ {0}, NEW s \in 0 .. K - 1, Enters(m, s),
           NEW E, Cut(K, s, r, E)
    PROVE  Left(m, s, r) = b[s] .. b[E] - 1
<1> DEFINE V == {t \in s .. (s + r - 1) : t < Len(m.items)}
<1>0. /\ K \in Nat /\ K = Len(m.items) /\ b \in [0 .. K -> Nat]
      /\ E \in s + 1 .. K /\ s \in 0 .. K - 1
  BY DEF Counted, Cut
<1>1. K \in Nat /\ K = Len(m.items) /\ s \in Nat /\ E \in Nat /\ s \in 0 .. K /\ E \in 0 .. K /\ s <= E
      /\ \A t \in 0 .. K : b[t] \in Nat
  BY <1>0
<1>c. E \in s + 1 .. K /\ E <= s + r /\ \A t \in s .. s + r - 1 : t < K <=> t \in s .. E - 1
  BY DEF Cut
<1>2. ASSUME NEW t \in s .. E - 1
      PROVE  /\ t \in V /\ t \in Nat /\ t \in 0 .. K /\ t + 1 \in 0 .. K /\ t \in 0 .. K - 1
             /\ b[s] <= b[t] /\ b[t + 1] <= b[E] /\ Row(m, t, b[t], b[t + 1])
  <2>1. t \in V /\ t \in Nat /\ t \in 0 .. K /\ t + 1 \in 0 .. K /\ t \in 0 .. K - 1 /\ s <= t /\ t + 1 <= E
    BY <1>1, <1>c, <1>2
  <2>2. b[s] <= b[t]
    BY <1>1, <2>1, CountGrows
  <2>3. b[t + 1] <= b[E]
    BY <1>1, <2>1, CountGrows
  <2>4. Row(m, t, b[t], b[t + 1])
    BY <2>1 DEF Counted
  <2>5. QED
    BY <2>1, <2>2, <2>3, <2>4
<1>3. ASSUME NEW t \in V PROVE t \in s .. E - 1
  BY <1>1, <1>c, <1>3
<1> HIDE DEF V
<1>4. ASSUME NEW t \in s .. E - 1 PROVE RowSet(m, t) \subseteq b[s] .. b[E] - 1
  <2> DEFINE x == b[t]
             y == b[t + 1]
  <2>1. /\ b[s] <= x /\ y <= b[E] /\ x \in Nat /\ y \in Nat /\ b[s] \in Nat /\ b[E] \in Nat
        /\ Row(m, t, x, y) /\ t \in Nat
    BY <1>1, <1>2
  <2> HIDE DEF x, y
  <2>2. CASE IsText(m, t, x, y)
    <3>1. RowSet(m, t) = {x} /\ y = x + 1
      BY <2>2, ItemsDiffer DEF IsText, RowSet
    <3>2. x \in b[s] .. b[E] - 1
      BY <2>1, <3>1
    <3>3. QED
      BY <3>1, <3>2
  <2>3. ASSUME NEW i \in DOMAIN images, IsHead(m, t, x, y, i) \/ IsMiddle(m, t, x, y, i)
        PROVE  RowSet(m, t) \subseteq b[s] .. b[E] - 1
    <3> DEFINE k == m.block_row[i]
               from == images[i].block_start
               to == images[i].block_end
    <3>1. /\ Laid(m, i) /\ m.items[t + 1] = Image(i) /\ k \in Nat /\ m.r_rows[i] \in Nat \ {0}
          /\ t \in k .. k + m.r_rows[i] - 1 /\ k + m.r_rows[i] < K
      <4>1. /\ Laid(m, i) /\ m.items[t + 1] = Image(i) /\ k \in Nat /\ m.r_rows[i] \in Nat \ {0}
            /\ k + m.r_rows[i] < K
        BY <1>1, <2>3 DEF IsHead, IsMiddle, Laid
      <4>2. t = k \/ t \in k + 1 .. k + m.r_rows[i] - 1
        BY <2>3 DEF IsHead, IsMiddle
      <4>3. QED
        BY <2>1, <4>1, <4>2
    <3>2. from \in Nat /\ to \in Nat /\ from <= to
      BY ImageFacts
    <3>3. RowSet(m, t) = Range(Span(from, to))
      <4>1. RowSet(m, t) = Range(BlockLines(i))
        BY <3>1, ItemsDiffer DEF RowSet
      <4>2. QED
        BY <4>1 DEF BlockLines, Span
    <3>4. RowSet(m, t) = from .. to - 1
      BY <3>2, <3>3, SpanRange
    <3>5. k >= s
      <4>1. SUFFICES ASSUME ~(k >= s) PROVE FALSE
        OBVIOUS
      <4>2. s \in k .. k + m.r_rows[i] /\ s # k /\ s # k + m.r_rows[i]
        <5> DEFINE rr == m.r_rows[i]
        <5>1. rr \in Nat /\ t \in k .. k + rr - 1 /\ k \in Nat /\ t \in s .. E - 1
          BY <3>1
        <5> HIDE DEF rr, k
        <5>2. s \in k .. k + rr /\ s # k /\ s # k + rr
          BY <1>1, <4>1, <5>1
        <5>3. QED
          BY <5>2 DEF rr
      <4>3. m.items[s + 1] = Image(i)
        BY <3>1, <4>2, LaidItem
      <4>4. QED
        BY <4>2, <4>3, ItemsDiffer DEF Enters
    <3>6. k \in s .. E - 1 /\ k + 1 \in 0 .. K
      <4> DEFINE rr == m.r_rows[i]
      <4>1. rr \in Nat /\ t \in k .. k + rr - 1 /\ k \in Nat /\ t \in s .. E - 1 /\ k >= s
        BY <3>1, <3>5
      <4> HIDE DEF rr, k
      <4>2. QED
        BY <1>1, <4>1
    <3>7. b[k] = from /\ b[k + 1] = to
      <4>1. Row(m, k, b[k], b[k + 1]) /\ k \in k .. k + m.r_rows[i]
        BY <1>2, <3>1, <3>6
      <4>2. IsHead(m, k, b[k], b[k + 1], i) \/ IsMiddle(m, k, b[k], b[k + 1], i) \/ IsAlt(m, k, b[k], b[k + 1], i)
        BY <3>1, <4>1, RowIn
      <4>3. k # k + m.r_rows[i] /\ ~(k \in k + 1 .. k + m.r_rows[i] - 1)
        BY <3>1
      <4>4. QED
        BY <4>2, <4>3 DEF IsHead, IsMiddle, IsAlt
    <3>8. b[s] <= from /\ to <= b[E]
      <4>1. b[s] <= b[k] /\ b[k + 1] <= b[E]
        BY <1>2, <3>6
      <4>2. QED
        BY <3>7, <4>1
    <3> HIDE DEF from, to
    <3>9. QED
      BY <2>1, <3>2, <3>4, <3>8
  <2>4. ASSUME NEW i \in DOMAIN images, IsAlt(m, t, x, y, i)
        PROVE  RowSet(m, t) \subseteq b[s] .. b[E] - 1
    <3>1. RowSet(m, t) = {}
      BY <2>4, ItemsDiffer DEF IsAlt, RowSet
    <3>2. QED
      BY <3>1
  <2>5. QED
    BY <2>1, <2>2, <2>3, <2>4, RowKinds
<1>5. ASSUME NEW v \in b[s] .. b[E] - 1 PROVE \E t \in V : v \in RowSet(m, t)
  <2>1. PICK t \in s .. E - 1 : b[t] <= v /\ v < b[t + 1]
    BY <1>1, <1>5, Crossing
  <2>2. /\ t \in V /\ t \in Nat /\ Row(m, t, b[t], b[t + 1]) /\ b[t] \in Nat /\ b[t + 1] \in Nat
        /\ v \in Int
    <3>1. /\ t \in V /\ t \in Nat /\ Row(m, t, b[t], b[t + 1]) /\ t \in 0 .. K /\ t + 1 \in 0 .. K
      BY <1>2
    <3>2. QED
      BY <1>1, <3>1
  <2> DEFINE x == b[t]
             y == b[t + 1]
  <2> HIDE DEF x, y
  <2>3. x <= v /\ v < y /\ x \in Nat /\ y \in Nat /\ Row(m, t, x, y)
    BY <2>1, <2>2 DEF x, y
  <2>4. CASE IsText(m, t, x, y)
    <3>1. RowSet(m, t) = {x} /\ y = x + 1
      BY <2>4, ItemsDiffer DEF IsText, RowSet
    <3>2. v = x
      BY <2>2, <2>3, <3>1
    <3>3. QED
      BY <2>2, <3>1, <3>2
  <2>5. ASSUME NEW i \in DOMAIN images, IsHead(m, t, x, y, i)
        PROVE  v \in RowSet(m, t)
    <3>1. RowSet(m, t) = Range(Span(x, y))
      <4>1. RowSet(m, t) = Range(BlockLines(i))
        BY <2>5, ItemsDiffer DEF IsHead, RowSet
      <4>2. BlockLines(i) = Span(x, y)
        BY <2>5 DEF IsHead, BlockLines, Span
      <4>3. QED
        BY <4>1, <4>2
    <3>2. x <= y /\ v \in x .. y - 1
      BY <2>2, <2>3
    <3>3. Range(Span(x, y)) = x .. y - 1
      BY <2>3, <3>2, SpanRange
    <3>4. QED
      BY <3>1, <3>2, <3>3
  <2>6. ASSUME NEW i \in DOMAIN images, IsMiddle(m, t, x, y, i) \/ IsAlt(m, t, x, y, i)
        PROVE  FALSE
    <3>1. y = x
      BY <2>6 DEF IsMiddle, IsAlt
    <3>2. QED
      BY <2>2, <2>3, <3>1
  <2>7. QED
    BY <2>2, <2>3, <2>4, <2>5, <2>6, RowKinds
<1>6. Left(m, s, r) = UNION {RowSet(m, t) : t \in V}
  BY DEF Left, V
<1>7. QED
  BY <1>3, <1>4, <1>5, <1>6

\* What quitting leaves is what the window showed, in order.
Leaves(res, m, s, r) ==
    Enters(m, s) => Range(res) = Left(m, s, r) /\ \A i, j \in DOMAIN res : i < j => res[i] < res[j]

\* exit_view leaves every line the window shows, each once.
LEMMA ExitLeaves ==
    ASSUME ImagesOK, NEW m, NEW s, NEW c, NEW r, NEW bad, Shows(m, s, c, r, bad)
    PROVE  Leaves(exit_view(m, s, r), m, s, r)
<1> SUFFICES ASSUME Enters(m, s)
             PROVE  /\ Range(exit_view(m, s, r)) = Left(m, s, r)
                    /\ \A i, j \in DOMAIN exit_view(m, s, r) : i < j => exit_view(m, s, r)[i] < exit_view(m, s, r)[j]
  BY DEF Leaves
<1> DEFINE K == Len(m.items)
           E == Min({s + r, K})
<1>1. r \in Nat \ {0} /\ s \in 0 .. max_scroll(m, r) /\ \E d \in SUBSET bad : m = build_model(c, d) /\ c \in Nat
  BY DEF Shows
<1>2. PICK b : Counted(m, b, K)
  BY <1>1, IsCounted
<1>3. s \in 0 .. K - 1 /\ K \in Nat
  <2>1. Orderly(m)
    BY ShowsOrderly
  <2>2. max_scroll(m, r) \in Nat /\ max_scroll(m, r) < K /\ K \in Nat
    BY <1>1, <2>1, ScrollMax DEF Orderly
  <2> HIDE DEF K
  <2>3. QED
    BY <1>1, <2>2
<1> HIDE DEF K
<1>4. exit_view(m, s, r) = Span(b[s], b[E]) /\ Cut(K, s, r, E)
  BY <1>1, <1>2, <1>3, ExitLines
<1> HIDE DEF E
<1>5. Left(m, s, r) = b[s] .. b[E] - 1
  BY <1>1, <1>2, <1>3, <1>4, LeftValue
<1>6. b[s] \in Nat /\ b[E] \in Nat /\ b[s] <= b[E]
  <2>1. s \in 0 .. K /\ E \in 0 .. K /\ s <= E
    <3>1. E \in s + 1 .. K
      BY <1>4 DEF Cut
    <3>2. QED
      BY ONLY <1>3, <3>1
  <2>2. QED
    BY <1>2, <2>1, CountGrows
<1>7. /\ Range(Span(b[s], b[E])) = b[s] .. b[E] - 1
      /\ \A i, j \in DOMAIN Span(b[s], b[E]) : i < j => Span(b[s], b[E])[i] < Span(b[s], b[E])[j]
  BY <1>6, SpanRange
<1>8. QED
  BY <1>4, <1>5, <1>7, Zenon

\* What was left when the command has quit.
QuitLeaves == st = "quit" => \E m \in {model}, s \in {scroll}, r \in {rows} : Leaves(result, m, s, r)

\* It is left as it is.
LEMMA SameLeaves ==
    ASSUME images' = images, NEW q, NEW m, NEW s, NEW r, q = result', Leaves(q, m, s, r)
    PROVE  Leaves(result, m, s, r)'
<1>1. Left(m, s, r)' = Left(m, s, r)
  BY ZenonT(60) DEF Left, RowSet, BlockLines
<1>2. QED
  BY <1>1 DEF Leaves, Enters

\* Every step keeps it.
LEMMA QuitStep == RdInv /\ QuitLeaves /\ [Next]_vars => QuitLeaves'
<1> SUFFICES ASSUME RdInv, QuitLeaves, [Next]_vars, st' = "quit"
             PROVE  \E m \in {model'}, s \in {scroll'}, r \in {rows'} : Leaves(result, m, s, r)'
  BY DEF QuitLeaves
<1>0. ASSUME NEW m, NEW s, NEW r, NEW q, m = model', s = scroll', r = rows', q = result', images' = images,
             Leaves(q, m, s, r)
      PROVE  \E m_1 \in {model'}, s_1 \in {scroll'}, r_1 \in {rows'} : Leaves(result, m_1, s_1, r_1)'
  <2>1. Leaves(result, m, s, r)'
    BY <1>0, SameLeaves
  <2>2. QED
    BY <1>0, <2>1
<1>1. CASE UNCHANGED vars
  <2>1. /\ st = "quit" /\ images' = images /\ model' = model /\ scroll' = scroll /\ rows' = rows
        /\ result' = result
    BY <1>1 DEF vars
  <2>2. Leaves(result, model, scroll, rows)
    BY <2>1 DEF QuitLeaves
  <2>3. QED
    BY <1>0, <2>1, <2>2
<1>2. CASE Quit
  <2>1. /\ st = "reading" /\ images' = images /\ model' = model /\ scroll' = scroll /\ rows' = rows
        /\ result' = exit_view(model, scroll, rows)
    BY <1>2 DEF Quit, fixed, view
  <2>2. ImagesOK /\ Shows(model, scroll, cols, rows, failed)
    BY <2>1 DEF RdInv, Opened, Window
  <2>3. Leaves(exit_view(model, scroll, rows), model, scroll, rows)
    BY <2>2, ExitLeaves
  <2>4. QED
    BY <1>0, <2>1, <2>3
<1>3. CASE \E capable \in BOOLEAN : try_run(capable)
  BY <1>3, Zenon DEF try_run
<1>4. CASE run_tui
  <2>1. st' \in {"handoff", "reading", "panicked"}
    BY <1>4 DEF run_tui, Frame
  <2>2. QED
    BY <2>1
<1>5. CASE \E size \in Sizes : TerminalResized(size)
  BY <1>5 DEF TerminalResized
<1>6. CASE \E key \in Keys : Key(key)
  <2>1. PICK key \in Keys : Key(key)
    BY <1>6
  <2>2. KeyEffect(key_action(key)) /\ st = "reading"
    BY <2>1, KeyDoes
  <2>3. ASSUME NEW m, NEW s, NEW c, NEW r, NEW bad, Frame(m, s, c, r, bad)
        PROVE  st' \in {"reading", "panicked"}
    BY <2>3 DEF Frame
  <2>4. QED
    BY <2>2, <2>3 DEF KeyEffect
<1>7. CASE Resize
  <2>1. st' \in {"handoff", "reading", "panicked"}
    BY <1>7 DEF Resize, Frame
  <2>2. QED
    BY <2>1
<1>8. QED
  BY <1>1, <1>2, <1>3, <1>4, <1>5, <1>6, <1>7 DEF Next

\* However often the article is laid out anew, every line is in the model exactly once and in
\* order, and quitting leaves every line the window showed, unless the window starts within an
\* image (build_model, exit_view).
THEOREM NoLineEverLost == Spec => []NoLineLost
<1>1. Init => QuitLeaves
  BY DEF Init, QuitLeaves
<1>2. RdInv /\ QuitLeaves => NoLineLost
  <2> SUFFICES ASSUME RdInv, QuitLeaves PROVE NoLineLost
    OBVIOUS
  <2>1. ASSUME st = "reading"
        PROVE  FlattenSeq([s \in 1 .. Len(model.items) |-> LinesOf(model, s - 1)]) = [l \in 1 .. NLines |-> l - 1]
    <3>1. ImagesOK /\ Shows(model, scroll, cols, rows, failed)
      BY <2>1 DEF RdInv, Opened, Window
    <3>2. PICK b : Counted(model, b, Len(model.items))
      BY <3>1, IsCounted DEF Shows
    <3>3. FlattenSeq([s \in 1 .. Len(model.items) |-> LinesOf(model, s - 1)]) = Span(0, NLines)
      BY <3>1, <3>2, LinesInOrder
    <3>4. Span(0, NLines) = [l \in 1 .. NLines |-> l - 1]
      <4>1. NLines - 0 = NLines /\ \A l \in 1 .. NLines : 0 + l - 1 = l - 1
        BY LinesAssumption
      <4>2. QED
        BY <4>1, Zenon DEF Span
    <3>5. QED
      BY <3>3, <3>4, Zenon
  <2>2. ASSUME st = "quit", Enters(model, scroll)
        PROVE  Range(result) = LeftLines /\ \A i, j \in DOMAIN result : i < j => result[i] < result[j]
    <3>1. Leaves(result, model, scroll, rows)
      BY <2>2 DEF QuitLeaves
    <3>2. QED
      BY <2>2, <3>1, LeftIs DEF Leaves
  <2>3. QED
    BY <2>1, <2>2, Zenon DEF NoLineLost, Enters
<1>3. QED
  BY <1>1, <1>2, QuitStep, RdAlways, PTL DEF Spec

-----------------------------------------------------------------------------
(* What a slice found in a cache shows.                                      *)

\* Entry(c, k) is an entry of c with key k.
LEMMA EntryFacts ==
    ASSUME NEW c, NEW k, Cached(c, k)
    PROVE  Entry(c, k) \in Range(c) /\ Entry(c, k).key = k
  BY DEF Entry, Cached, Range

\* What is taken out of a cache adds nothing to it.
LEMMA WithoutRange ==
    ASSUME NEW E, NEW c \in Seq(E), NEW k, Cached(c, k)
    PROVE  Without(c, k) \in Seq(E) /\ Range(Without(c, k)) \subseteq Range(c)
<1> DEFINE p == CHOOSE i \in DOMAIN c : c[i].key = k
           w == RemoveAt(c, p)
<1>1. p \in DOMAIN c
  BY DEF Cached
<1>2. Without(c, k) = w
  BY DEF Without
<1> HIDE DEF p
<1>3. /\ w \in Seq(E) /\ Len(w) = Len(c) - 1
      /\ \A j \in 1 .. Len(c) - 1 : w[j] = IF j < p THEN c[j] ELSE c[j + 1]
  BY <1>1, RemoveAtFacts
<1>4. DOMAIN w = 1 .. Len(c) - 1 /\ DOMAIN c = 1 .. Len(c) /\ Len(c) \in Nat
  BY <1>3
<1>5. \A j \in DOMAIN w : j \in DOMAIN c /\ j + 1 \in DOMAIN c
  BY <1>4
<1> HIDE DEF w
<1>6. \A j \in DOMAIN w : \E q \in DOMAIN c : w[j] = c[q]
  BY <1>3, <1>4, <1>5
<1>7. QED
  BY <1>2, <1>3, <1>6 DEF Range

\* What an appended entry adds.
LEMMA AppendRange ==
    ASSUME NEW E, NEW c \in Seq(E), NEW e
    PROVE  Range(Append(c, e)) = Range(c) \cup {e}
<1> DEFINE F == E \cup {e}
           a == Append(c, e)
<1>1. c \in Seq(F) /\ e \in F /\ Len(c) \in Nat
  OBVIOUS
<1>2. a \in Seq(F) /\ Len(a) = Len(c) + 1 /\ a[Len(c) + 1] = e /\ \A i \in 1 .. Len(c) : a[i] = c[i]
  BY <1>1
<1>3. DOMAIN a = 1 .. Len(c) + 1 /\ DOMAIN c = 1 .. Len(c)
  BY <1>1, <1>2
<1> HIDE DEF a, F
<1>4. \A i \in DOMAIN a : i = Len(c) + 1 \/ i \in DOMAIN c
  BY <1>1, <1>3
<1>5. \A i \in DOMAIN c : i \in DOMAIN a
  BY <1>1, <1>3
<1>6. Len(c) + 1 \in DOMAIN a
  BY <1>1, <1>3
<1>7. Range(a) \subseteq Range(c) \cup {e}
  BY <1>2, <1>3, <1>4 DEF Range
<1>8. Range(c) \cup {e} \subseteq Range(a)
  BY <1>2, <1>3, <1>5, <1>6 DEF Range
<1>9. QED
  BY <1>7, <1>8 DEF a

\* Looking an entry up adds nothing.
LEMMA GetRange ==
    ASSUME NEW c, CacheSeq(c), NEW k, Cached(c, k)
    PROVE  Range(LruGet(c, k)) \subseteq Range(c)
<1>1. PICK E : c \in Seq(E)
  BY DEF CacheSeq
<1>2. LruGet(c, k) = Append(Without(c, k), Entry(c, k))
  BY DEF LruGet
<1>3. Without(c, k) \in Seq(E) /\ Range(Without(c, k)) \subseteq Range(c)
  BY <1>1, WithoutRange
<1>4. Range(Append(Without(c, k), Entry(c, k))) = Range(Without(c, k)) \cup {Entry(c, k)}
  BY <1>3, AppendRange
<1>5. Entry(c, k) \in Range(c)
  BY EntryFacts
<1>6. QED
  BY <1>2, <1>3, <1>4, <1>5

\* Remembering adds the one entry.
LEMMA InsertRange ==
    ASSUME NEW c, CacheSeq(c), NEW cap \in Nat \ {0}, NEW k, ~Cached(c, k), NEW v
    PROVE  Range(LruInsert(cap, c, k, v)) \subseteq Range(c) \cup {[key |-> k, val |-> v]}
<1>1. PICK E : c \in Seq(E)
  BY DEF CacheSeq
<1> DEFINE w == IF Len(c) >= cap THEN Tail(c) ELSE c
           e == [key |-> k, val |-> v]
<1>2. w \in Seq(E) /\ Range(w) \subseteq Range(c)
  <2>1. CASE Len(c) >= cap
    <3>1. c # <<>> /\ w = Tail(c) /\ Len(c) \in Nat
      BY <1>1, <2>1
    <3>2. Tail(c) \in Seq(E) /\ Len(Tail(c)) = Len(c) - 1
          /\ \A i \in 1 .. Len(c) - 1 : Tail(c)[i] = c[i + 1]
      BY <1>1, <3>1
    <3> HIDE DEF w
    <3>3. DOMAIN w = 1 .. Len(c) - 1 /\ DOMAIN c = 1 .. Len(c)
      BY <1>1, <3>1, <3>2
    <3>4. \A i \in DOMAIN w : i + 1 \in DOMAIN c /\ w[i] = c[i + 1]
      BY <3>1, <3>2, <3>3
    <3>5. QED
      BY <3>1, <3>2, <3>4 DEF Range
  <2>2. CASE ~(Len(c) >= cap)
    BY <1>1, <2>2
  <2>3. QED
    BY <2>1, <2>2
<1>3. LruInsert(cap, c, k, v) = Append(w, e)
  BY DEF LruInsert
<1> HIDE DEF w, e
<1>4. Range(Append(w, e)) = Range(w) \cup {e}
  BY <1>2, AppendRange
<1>5. QED
  BY <1>2, <1>3, <1>4 DEF e

-----------------------------------------------------------------------------
\* Slices of several rows are what their key says, of files that can be read.
Genuine(e) ==
    /\ e.val = [asset |-> e.key[1], wpx |-> e.key[2], y0 |-> e.key[3], y1 |-> e.key[4]]
    /\ kind[e.key[1]] # "unreadable"
\* This holds of every slice.
SlicesRight(c) == \A e \in Range(c) : Genuine(e)

\* One row of each image with this file.
RowGenuine(e) ==
    \A i \in DOMAIN images : e.key[1] = images[i].asset =>
        e.val = Payload(images[i], e.key[2], slice_window(display_height(images[i], e.key[2]), e.key[3], 1))
\* This holds of every row.
RowsRight(c) == \A e \in Range(c) : RowGenuine(e)

\* A hit and a miss give the same slice.
LEMMA SlicePayloadRight ==
    ASSUME NEW c, CacheSeq(c), SlicesRight(c), NEW a, NEW wpx, NEW w, NEW q, q = slice_payload(a, wpx, w, c)
    PROVE  /\ SlicesRight(q.cache)
           /\ q.ok => q.val = Payload(a, wpx, w) /\ kind[a.asset] # "unreadable"
<1>1. LRU_CAP \in Nat \ {0}
  BY LimitsAssumption
<1> DEFINE key == <<a.asset, wpx, w[1], w[2]>>
           p == Payload(a, wpx, w)
<1>2. CASE Cached(c, key)
  <2>1. q = [ok |-> TRUE, val |-> Entry(c, key).val, cache |-> LruGet(c, key)]
    BY <1>2 DEF slice_payload
  <2>2. Genuine(Entry(c, key)) /\ Entry(c, key).key = key
    BY <1>2, EntryFacts DEF SlicesRight
  <2>3. Range(LruGet(c, key)) \subseteq Range(c)
    BY <1>2, GetRange
  <2>4. Entry(c, key).val = p /\ kind[a.asset] # "unreadable"
    BY <2>2 DEF Genuine, Payload
  <2> HIDE DEF key, p
  <2>5. q.cache = LruGet(c, key) /\ q.val = p
    BY <2>1, <2>4
  <2>6. SlicesRight(q.cache)
    BY <2>3, <2>5 DEF SlicesRight
  <2>7. QED
    BY <2>4, <2>5, <2>6 DEF p
<1>3. CASE ~Cached(c, key) /\ (\/ kind[a.asset] \in {"undecodable", "unreadable"}
                               \/ kind[a.asset] = "bulky" /\ w[2] - w[1] > cell.h)
  <2>1. q = [ok |-> FALSE, val |-> p, cache |-> c]
    BY <1>3 DEF slice_payload
  <2> HIDE DEF p
  <2>2. QED
    BY <2>1
<1>4. CASE ~Cached(c, key) /\ ~(\/ kind[a.asset] \in {"undecodable", "unreadable"}
                                \/ kind[a.asset] = "bulky" /\ w[2] - w[1] > cell.h)
  <2>1. q = [ok |-> TRUE, val |-> p, cache |-> LruInsert(LRU_CAP, c, key, p)]
    BY <1>4 DEF slice_payload
  <2>2. Range(LruInsert(LRU_CAP, c, key, p)) \subseteq Range(c) \cup {[key |-> key, val |-> p]}
    <3> HIDE DEF key, p
    <3>1. QED
      BY <1>1, <1>4, InsertRange
  <2>3. kind[a.asset] # "unreadable"
    BY <1>4
  <2>4. Genuine([key |-> key, val |-> p])
    BY <2>3 DEF Genuine, Payload
  <2> HIDE DEF key, p
  <2>5. q.cache = LruInsert(LRU_CAP, c, key, p) /\ q.val = p
    BY <2>1
  <2>6. SlicesRight(q.cache)
    BY <2>2, <2>4, <2>5 DEF SlicesRight
  <2>7. QED
    BY <2>3, <2>5, <2>6 DEF p
<1>5. QED
  BY <1>2, <1>3, <1>4

\* So it is for one row: images of the same file have the same measures.
LEMMA RowPayloadRight ==
    ASSUME ImagesOK, NEW c, CacheSeq(c), RowsRight(c), NEW i \in DOMAIN images, NEW wpx, NEW off,
           NEW q, q = row_payload(images[i], wpx, off, c)
    PROVE  /\ RowsRight(q.cache)
           /\ q.ok => q.val = Payload(images[i], wpx, slice_window(display_height(images[i], wpx), off, 1))
<1>1. ROW_SLICE_LRU_CAP \in Nat \ {0}
  BY LimitsAssumption
<1> DEFINE a == images[i]
           key == row_key(a, wpx, off)
           p == Payload(a, wpx, slice_window(display_height(a, wpx), off, 1))
<1>0. key = <<a.asset, wpx, off>>
  BY DEF row_key
<1>2. CASE Cached(c, key)
  <2>1. q = [ok |-> TRUE, val |-> Entry(c, key).val, cache |-> LruGet(c, key)]
    BY <1>2 DEF row_payload
  <2>2. RowGenuine(Entry(c, key)) /\ Entry(c, key).key = key
    BY <1>2, EntryFacts DEF RowsRight
  <2>3. Range(LruGet(c, key)) \subseteq Range(c)
    BY <1>2, GetRange
  <2>4. Entry(c, key).val = p
    <3> HIDE DEF key
    <3>1. key[1] = a.asset /\ key[2] = wpx /\ key[3] = off
      BY <1>0
    <3>2. QED
      BY <2>2, <3>1 DEF RowGenuine
  <2> HIDE DEF key, p
  <2>5. q.cache = LruGet(c, key) /\ q.val = p
    BY <2>1, <2>4
  <2>6. RowsRight(q.cache)
    BY <2>3, <2>5 DEF RowsRight
  <2>7. QED
    BY <2>5, <2>6 DEF p
<1>3. CASE ~Cached(c, key) /\ kind[a.asset] \in {"undecodable", "unreadable"}
  <2>1. q = [ok |-> FALSE, val |-> p, cache |-> c]
    BY <1>3 DEF row_payload
  <2> HIDE DEF p
  <2>2. QED
    BY <2>1
<1>4. CASE ~Cached(c, key) /\ ~(kind[a.asset] \in {"undecodable", "unreadable"})
  <2>1. q = [ok |-> TRUE, val |-> p, cache |-> LruInsert(ROW_SLICE_LRU_CAP, c, key, p)]
    BY <1>4 DEF row_payload
  <2>2. Range(LruInsert(ROW_SLICE_LRU_CAP, c, key, p)) \subseteq Range(c) \cup {[key |-> key, val |-> p]}
    <3> HIDE DEF key, p
    <3>1. QED
      BY <1>1, <1>4, InsertRange
  <2>4. RowGenuine([key |-> key, val |-> p])
    <3> DEFINE e == [key |-> key, val |-> p]
    <3>1. e.key[1] = a.asset /\ e.key[2] = wpx /\ e.key[3] = off /\ e.val = p
      BY <1>0
    <3> HIDE DEF e, key
    <3>2. ASSUME NEW j \in DOMAIN images, e.key[1] = images[j].asset
          PROVE  p = Payload(images[j], wpx, slice_window(display_height(images[j], wpx), off, 1))
      <4>1. images[j].asset = a.asset
        BY <3>1, <3>2
      <4>2. images[j].w = a.w /\ images[j].h = a.h
        BY <4>1, MeasuresAssumption DEF ImagesOK
      <4>3. QED
        BY <4>1, <4>2 DEF Payload, display_height
    <3> HIDE DEF p
    <3>3. RowGenuine(e)
      BY <3>1, <3>2 DEF RowGenuine
    <3>4. QED
      BY <3>3 DEF e
  <2> HIDE DEF key, p
  <2>5. q.cache = LruInsert(ROW_SLICE_LRU_CAP, c, key, p) /\ q.val = p
    BY <2>1
  <2>6. RowsRight(q.cache)
    BY <2>2, <2>4, <2>5 DEF RowsRight
  <2>7. QED
    BY <2>5, <2>6 DEF p
<1>5. QED
  BY <1>2, <1>3, <1>4

-----------------------------------------------------------------------------
(* Pixel rows and rows of cells.                                             *)

\* Multiples keep the order.
LEMMA TimesOrder ==
    ASSUME NEW p \in Int, NEW q \in Int, NEW h \in Nat \ {0}
    PROVE  /\ p * h \in Int /\ q * h \in Int
           /\ p < q <=> p * h < q * h
           /\ p <= q <=> p * h <= q * h
           /\ (p + 1) * h = p * h + h
           /\ (p - q) * h = p * h - q * h
<1>1. p * h \in Int /\ q * h \in Int /\ (p + 1) * h = p * h + h /\ (p - q) * h = p * h - q * h
  OBVIOUS
<1>2. p <= q => p * h <= q * h
  OBVIOUS
<1>3. p < q => p * h < q * h
  OBVIOUS
<1>4. q <= p => q * h <= p * h
  OBVIOUS
<1>5. q < p => q * h < p * h
  OBVIOUS
<1> DEFINE x == p * h
           y == q * h
<1>6. x \in Int /\ y \in Int
  BY <1>1
<1> HIDE DEF x, y
<1>7. (p < q <=> x < y) /\ (p <= q <=> x <= y)
  <2>1. (p <= q => x <= y) /\ (p < q => x < y) /\ (q <= p => y <= x) /\ (q < p => y < x)
    BY <1>2, <1>3, <1>4, <1>5 DEF x, y
  <2>2. QED
    BY <1>6, <2>1
<1>8. QED
  BY <1>1, <1>7 DEF x, y

\* The rows of an image are those that begin above its lower edge.
LEMMA CeilDivIs ==
    ASSUME NEW n \in Nat \ {0}, NEW h \in Nat \ {0}, NEW q \in Int
    PROVE  q < CeilDiv(n, h) <=> q * h < n
<1> DEFINE p == n + h - 1
           z == p \div h
<1>1. p \in Nat /\ p >= h
  OBVIOUS
<1>2. CeilDiv(n, h) = z
  BY DEF CeilDiv
<1> HIDE DEF p
<1>3. z \in Nat /\ z * h <= p /\ p < z * h + h
  BY <1>1
<1> HIDE DEF z
<1>4. CASE q < z
  <2>1. q + 1 <= z
    BY <1>3, <1>4
  <2>2. (q + 1) * h <= z * h /\ (q + 1) * h = q * h + h
    BY <1>3, <2>1, TimesOrder
  <2> DEFINE x == q * h
             y == z * h
  <2>3. x \in Int /\ y \in Int
    BY <1>3, TimesOrder
  <2>4. x + h <= y /\ y <= p
    BY <1>3, <2>2
  <2> HIDE DEF x, y
  <2>5. x < n
    BY <2>3, <2>4 DEF p
  <2>6. QED
    BY <1>2, <1>4, <2>5 DEF x
<1>5. CASE ~(q < z)
  <2>1. z <= q
    BY <1>3, <1>5
  <2>2. z * h <= q * h
    BY <1>3, <2>1, TimesOrder
  <2> DEFINE x == q * h
             y == z * h
  <2>3. x \in Int /\ y \in Int
    BY <1>3, TimesOrder
  <2>4. y <= x /\ p < y + h
    BY <1>3, <2>2
  <2> HIDE DEF x, y
  <2>5. ~(x < n)
    BY <2>3, <2>4 DEF p
  <2>6. QED
    BY <1>2, <1>5, <2>5 DEF x
<1>6. QED
  BY <1>4, <1>5

\* The pixel rows of vis rows from the k-th on, when the k-th is one of the image's.
LEMMA SliceIs ==
    ASSUME NEW full \in Nat \ {0}, NEW k \in Nat, NEW vis \in Nat \ {0}, cell.h \in Nat \ {0}, k * cell.h < full
    PROVE  slice_window(full, k, vis)
             = <<k * cell.h, IF (k + vis) * cell.h <= full THEN (k + vis) * cell.h ELSE full>>
<1> DEFINE h == cell.h
           p == k * h
           q == (k + vis) * h
           y0 == Min({p, full})
           y1 == Min({q, full})
<1>1. p \in Int /\ q \in Int /\ p < q /\ p < full
  BY TimesOrder
<1>2. slice_window(full, k, vis)
        = IF y1 <= y0 THEN <<Max({0, y0 - 1}), Min({Max({y0, 1}), full})>> ELSE <<y0, y1>>
  BY DEF slice_window
<1>3. y0 = (IF p <= full THEN p ELSE full) /\ y1 = IF q <= full THEN q ELSE full
  BY <1>1, MinOfTwo
<1> HIDE DEF p, q, y0, y1, h
<1>4. y0 = p /\ ~(y1 <= y0)
  BY <1>1, <1>3
<1>5. slice_window(full, k, vis) = <<p, IF q <= full THEN q ELSE full>>
  BY <1>2, <1>3, <1>4
<1>6. QED
  BY <1>5 DEF p, q, h

-----------------------------------------------------------------------------
(* What each row of the screen should show.                                  *)

\* Row t of m is a row of image i.
InRows(m, i, t) == Laid(m, i) /\ t \in m.block_row[i] .. m.block_row[i] + m.r_rows[i] - 1

\* A block of the layout: its rows, or its first placeholder line.
BlockIs(m, c, b, i) ==
    /\ m.block_row[i] \in Nat /\ m.r_rows[i] \in Nat
    /\ ShownIn(b, i) => Laid(m, i) /\ m.r_rows[i] = RowsIn(c, i)
    /\ ~ShownIn(b, i) => /\ m.r_rows[i] = 0 /\ m.block_row[i] < Len(m.items)
                         /\ m.items[m.block_row[i] + 1] = Text(images[i].block_start)

\* Every block is in the layout where block_row says, with as many rows as r_rows says.
LEMMA BlockAt ==
    ASSUME ImagesOK, NEW c \in Nat, NEW b, NEW m, m = build_model(c, b), NEW i \in DOMAIN images
    PROVE  BlockIs(m, c, b, i)
<1> DEFINE k == m.block_row[i]
           R == RowsIn(c, i)
           bs == images[i].block_start
           be == images[i].block_end
           K == Len(m.items)
<1>1. Placed(m, c, b, i)
  BY PartPlaced
<1>2. bs \in Nat /\ be \in Nat /\ bs < be /\ GapFrom(i) \in Nat /\ GapFrom(i) <= bs /\ R \in Nat \ {0}
  BY ImageFacts, GapFacts, BlockFacts
<1>3. /\ Off(c, b, i) \in Nat /\ Off(c, b, i + 1) \in Nat /\ Off(c, b, i + 1) <= K
      /\ k = Off(c, b, i) + (bs - GapFrom(i))
  BY <1>1 DEF Placed
<1>4. K \in Nat
  BY ModelOrder DEF Orderly
<1>5. k \in Nat
  <2> HIDE DEF k, bs
  <2>1. QED
    BY <1>2, <1>3
<1>6. CASE ShownIn(b, i)
  <2>1. /\ m.r_rows[i] = R /\ Off(c, b, i + 1) = k + R + 1
        /\ \A j \in 1 .. R : m.items[k + j] = Image(i)
        /\ m.items[k + R + 1] = Alt(i)
    BY <1>1, <1>6 DEF Placed
  <2>2. k + R < K
    <3> HIDE DEF k, R, K
    <3>1. QED
      BY <1>2, <1>3, <1>4, <1>5, <2>1
  <2>3. Laid(m, i)
    BY <1>2, <1>5, <2>1, <2>2 DEF Laid
  <2>4. QED
    BY <1>2, <1>5, <1>6, <2>1, <2>3 DEF BlockIs
<1>7. CASE ~ShownIn(b, i)
  <2>1. /\ m.r_rows[i] = 0 /\ Off(c, b, i + 1) = k + (be - bs)
        /\ \A j \in 1 .. be - bs : m.items[k + j] = Text(bs + j - 1)
    BY <1>1, <1>7 DEF Placed
  <2>2. 1 \in 1 .. be - bs /\ bs + 1 - 1 = bs /\ k < K
    <3> HIDE DEF k, bs, be, K
    <3>1. QED
      BY <1>2, <1>3, <1>4, <1>5, <2>1
  <2>3. m.items[k + 1] = Text(bs)
    <3> HIDE DEF k, bs, be
    <3>1. m.items[k + 1] = Text(bs + 1 - 1)
      BY <2>1, <2>2
    <3>2. QED
      BY <2>2, <3>1
  <2>4. QED
    BY <1>5, <1>7, <2>1, <2>2, <2>3 DEF BlockIs
<1>8. QED
  BY <1>6, <1>7

\* A row of an image is one of the rows of a block that is laid out.
LEMMA ImageRow ==
    ASSUME ImagesOK, NEW c \in Nat, NEW b, NEW m, m = build_model(c, b), NEW t \in Nat, t < Len(m.items),
           m.items[t + 1][1] = "image", NEW i, i = m.items[t + 1][2]
    PROVE  i \in DOMAIN images /\ m.items[t + 1] = Image(i) /\ InRows(m, i, t)
<1>1. PICK f : Counted(m, f, Len(m.items))
  BY IsCounted
<1>2. Len(m.items) \in Nat /\ t \in 0 .. Len(m.items) - 1
  BY <1>1 DEF Counted
<1>3. Row(m, t, f[t], f[t + 1])
  BY <1>1, <1>2 DEF Counted
<1> DEFINE x == f[t]
           y == f[t + 1]
<1> HIDE DEF x, y
<1>4. Row(m, t, x, y)
  BY <1>3 DEF x, y
<1>5. \/ IsText(m, t, x, y)
      \/ \E j \in DOMAIN images : IsHead(m, t, x, y, j) \/ IsMiddle(m, t, x, y, j) \/ IsAlt(m, t, x, y, j)
  BY <1>4, RowKinds
<1>6. ~IsText(m, t, x, y) /\ \A j : ~IsAlt(m, t, x, y, j)
  BY ItemsDiffer DEF IsText, IsAlt
<1>7. PICK j \in DOMAIN images : IsHead(m, t, x, y, j) \/ IsMiddle(m, t, x, y, j)
  BY <1>5, <1>6
<1>8. m.items[t + 1] = Image(j) /\ Laid(m, j)
      /\ (t = m.block_row[j] \/ t \in m.block_row[j] + 1 .. m.block_row[j] + m.r_rows[j] - 1)
  BY <1>7 DEF IsHead, IsMiddle
<1>9. j = i
  BY <1>8, ItemsDiffer
<1>10. m.block_row[j] \in Nat /\ m.r_rows[j] \in Nat \ {0}
  BY <1>8 DEF Laid
<1>11. t \in m.block_row[j] .. m.block_row[j] + m.r_rows[j] - 1
  BY <1>8, <1>10
<1>12. QED
  BY <1>7, <1>8, <1>9, <1>11 DEF InRows

\* The rows of a block that is laid out are rows of its image.
LEMMA RowOfImage ==
    ASSUME NEW m, Len(m.items) \in Nat, NEW i, NEW t \in Nat, InRows(m, i, t)
    PROVE  t < Len(m.items) /\ m.items[t + 1] = Image(i) /\ t - m.block_row[i] \in 0 .. m.r_rows[i] - 1
<1> DEFINE K == Len(m.items)
           k == m.block_row[i]
           R == m.r_rows[i]
<1>1. Laid(m, i) /\ k \in Nat /\ R \in Nat \ {0} /\ k + R < K /\ t \in k .. k + R - 1 /\ K \in Nat
  BY DEF InRows, Laid
<1>2. t \in k .. k + R /\ t # k + R /\ t - k \in 0 .. R - 1 /\ t < K
  <2> HIDE DEF k, R, K
  <2>1. QED
    BY <1>1
<1>3. QED
  BY <1>1, <1>2, LaidItem

-----------------------------------------------------------------------------
\* A strip of image i, its q-th row of cells, for a layout of c columns.
StripAt(i, c, q) ==
    LET a   == images[i]
        wpx == block_geometry(a, c).wpx
    IN  <<"strip", a.asset, wpx, q * cell.h, Min({q * cell.h + cell.h, display_height(a, wpx)})>>

\* Expected, for any window.
Exp(m, s, c, y) ==
    IF s + y >= Len(m.items) THEN Blank
    ELSE IF m.items[s + y + 1][1] # "image" THEN m.items[s + y + 1]
    ELSE StripAt(m.items[s + y + 1][2], c, (s + y) - m.block_row[m.items[s + y + 1][2]])

\* The same before the images after the n-th are drawn.
ExpTo(m, s, c, n, y) ==
    IF s + y < Len(m.items) /\ m.items[s + y + 1][1] = "image" /\ m.items[s + y + 1][2] > n THEN Blank
    ELSE Exp(m, s, c, y)

\* With no image drawn, what is expected is what fill_model_row writes.
LEMMA ExpZero ==
    ASSUME ImagesOK, NEW c \in Nat, NEW b, NEW m, m = build_model(c, b), NEW s \in Nat, NEW y \in Nat
    PROVE  ExpTo(m, s, c, 0, y) = fill_model_row(m, s + y)
<1> DEFINE t == s + y
           item == m.items[t + 1]
<1>0. t \in Nat /\ Len(m.items) \in Nat
  BY ModelOrder DEF Orderly
<1>1. CASE t < Len(m.items) /\ item[1] = "image"
  <2>1. item[2] \in DOMAIN images
    BY <1>0, <1>1, ImageRow
  <2>2. item[2] > 0
    BY <2>1, ImageFacts
  <2>3. QED
    BY <1>1, <2>2 DEF ExpTo, fill_model_row
<1>2. CASE ~(t < Len(m.items) /\ item[1] = "image")
  <2>1. t >= Len(m.items) <=> ~(t < Len(m.items))
    BY <1>0
  <2>2. QED
    BY <1>2, <2>1 DEF ExpTo, Exp, fill_model_row
<1>3. QED
  BY <1>1, <1>2

\* With every image drawn, it is all that is expected.
LEMMA ExpAll ==
    ASSUME ImagesOK, NEW c \in Nat, NEW b, NEW m, m = build_model(c, b), NEW s \in Nat, NEW y \in Nat
    PROVE  ExpTo(m, s, c, Len(images), y) = Exp(m, s, c, y)
<1> DEFINE t == s + y
           item == m.items[t + 1]
<1>1. CASE t < Len(m.items) /\ item[1] = "image"
  <2>1. item[2] \in DOMAIN images
    BY <1>1, ImageRow
  <2>2. ~(item[2] > Len(images))
    BY <2>1, ImageFacts
  <2>3. QED
    BY <1>1, <2>2 DEF ExpTo
<1>2. QED
  BY <1>1 DEF ExpTo

\* Drawing image n + 1 changes what is expected of its rows, and of no other.
LEMMA ExpNext ==
    ASSUME ImagesOK, NEW c \in Nat, NEW b, NEW m, m = build_model(c, b), NEW s \in Nat, NEW y \in Nat,
           NEW n \in Nat, n + 1 \in DOMAIN images
    PROVE  /\ ~InRows(m, n + 1, s + y) => ExpTo(m, s, c, n + 1, y) = ExpTo(m, s, c, n, y)
           /\ InRows(m, n + 1, s + y) =>
                 /\ ExpTo(m, s, c, n, y) = Blank
                 /\ ExpTo(m, s, c, n + 1, y) = StripAt(n + 1, c, (s + y) - m.block_row[n + 1])
<1> DEFINE t == s + y
           item == m.items[t + 1]
           i == n + 1
<1>0. t \in Nat /\ Len(m.items) \in Nat /\ t = s + y
  BY ModelOrder DEF Orderly
<1>1. ASSUME ~InRows(m, i, t) PROVE ExpTo(m, s, c, i, y) = ExpTo(m, s, c, n, y)
  <2>1. CASE t < Len(m.items) /\ item[1] = "image"
    <3>1. item[2] \in DOMAIN images /\ InRows(m, item[2], t)
      BY <1>0, <2>1, ImageRow
    <3>2. item[2] # i /\ item[2] \in Nat
      BY <1>1, <3>1, ImageFacts
    <3> DEFINE j == item[2]
    <3>3. j > n <=> j > i
      <4> HIDE DEF j
      <4>1. j \in Nat /\ j # n + 1
        BY <3>2 DEF j
      <4>2. QED
        BY <4>1
    <3>4. QED
      BY <3>3 DEF ExpTo
  <2>2. QED
    BY <2>1 DEF ExpTo
<1>2. ASSUME InRows(m, i, t)
      PROVE  ExpTo(m, s, c, n, y) = Blank /\ ExpTo(m, s, c, i, y) = StripAt(i, c, t - m.block_row[i])
  <2>1. t < Len(m.items) /\ item = Image(i)
    BY <1>0, <1>2, RowOfImage
  <2>2. item[1] = "image" /\ item[2] = i
    BY <2>1, ItemsDiffer
  <2>3. i > n /\ ~(i > i) /\ ~(t >= Len(m.items))
    BY <1>0, <2>1
  <2>4. ExpTo(m, s, c, n, y) = Blank
    BY <2>1, <2>2, <2>3 DEF ExpTo
  <2>5. ExpTo(m, s, c, i, y) = Exp(m, s, c, y)
    BY <2>1, <2>2, <2>3 DEF ExpTo
  <2>6. Exp(m, s, c, y) = StripAt(i, c, t - m.block_row[i])
    <3> HIDE DEF item
    <3>1. Exp(m, s, c, y) = IF t >= Len(m.items) THEN Blank ELSE IF item[1] # "image" THEN item
                            ELSE StripAt(item[2], c, t - m.block_row[item[2]])
      BY Zenon DEF Exp, item
    <3>2. QED
      BY <2>2, <2>3, <3>1
  <2>7. QED
    BY <2>4, <2>5, <2>6
<1>3. QED
  BY <1>1, <1>2, Zenon

\* What a drawing takes from a payload whose top is at row top: in each row of the image
\* that is on the screen the pixel rows that belong there, and nothing elsewhere.
RowsFit(w, top, full, R, r) ==
    \A y \in 0 .. r - 1 :
        LET from == w[1] + (y - Max({0, top})) * cell.h IN
        /\ (y >= Max({0, top}) /\ from < w[2]) <=> y \in top .. top + R - 1
        /\ y \in top .. top + R - 1 =>
              from = (y - top) * cell.h /\ Min({from + cell.h, w[2]}) = Min({from + cell.h, full})

\* A whole image.
LEMMA WholeFits ==
    ASSUME cell.h \in Nat \ {0}, NEW full \in Nat \ {0}, NEW R, R = CeilDiv(full, cell.h), R \in Nat,
           NEW top \in Nat, NEW r \in Nat
    PROVE  RowsFit(<<0, full>>, top, full, R, r)
<1>1. Max({0, top}) = top
  BY MaxOfTwo
<1>2. ASSUME NEW y \in 0 .. r - 1
      PROVE  LET from == 0 + (y - top) * cell.h IN
             /\ (y >= top /\ from < full) <=> y \in top .. top + R - 1
             /\ from = (y - top) * cell.h
  <2> DEFINE q == y - top
  <2>1. q \in Int /\ (y >= top <=> q >= 0) /\ (y \in top .. top + R - 1 <=> q >= 0 /\ q < R)
    OBVIOUS
  <2> HIDE DEF q
  <2>2. q < R <=> q * cell.h < full
    BY <2>1, CeilDivIs
  <2>3. 0 + q * cell.h = q * cell.h
    <3>1. q * cell.h \in Int
      BY <2>1, TimesOrder
    <3>2. QED
      BY <3>1
  <2>4. QED
    BY <2>1, <2>2, <2>3 DEF q
<1> DEFINE w == <<0, full>>
<1>3. w[1] = 0 /\ w[2] = full
  OBVIOUS
<1> HIDE DEF w
<1>4. RowsFit(w, top, full, R, r)
  BY <1>1, <1>2, <1>3 DEF RowsFit
<1>5. QED
  BY <1>4 DEF w

\* The rows that are on the screen: the k first are above it, vis follow.
InView(R, top, r, k, Y, vis) ==
    /\ R \in Nat \ {0} /\ top \in Int /\ r \in Nat \ {0} /\ top < r /\ top + R > 0
    /\ k = Max({0, -top}) /\ Y = Max({0, top}) /\ vis = Max({1, Min({R - k, Max({0, r - Y})})})

\* At least one row of such an image is on the screen, and the window is as many as there are.
LEMMA VisibleRows ==
    ASSUME NEW R, NEW top, NEW r, NEW k, NEW Y, NEW vis, InView(R, top, r, k, Y, vis)
    PROVE  /\ k \in Nat /\ Y \in Nat /\ k < R /\ k - Y = -top
           /\ vis \in Nat \ {0} /\ vis = IF R - k <= r - Y THEN R - k ELSE r - Y
<1> USE DEF InView
<1>1. k = (IF 0 >= -top THEN 0 ELSE -top) /\ Y = IF 0 >= top THEN 0 ELSE top
  <2>1. 0 \in Int /\ -top \in Int
    OBVIOUS
  <2>2. QED
    BY <2>1, MaxOfTwo
<1>2. k \in Nat /\ Y \in Nat /\ k < R /\ k - Y = -top /\ r - Y >= 1 /\ R - k >= 1
  BY <1>1
<1> DEFINE x == Max({0, r - Y})
           z == Min({R - k, x})
<1>3. x = r - Y
  <2>1. 0 \in Int /\ r - Y \in Int
    BY <1>2
  <2>2. x = IF 0 >= r - Y THEN 0 ELSE r - Y
    BY <2>1, MaxOfTwo
  <2>3. QED
    BY <1>2, <2>2
<1> HIDE DEF x
<1>4. z = IF R - k <= x THEN R - k ELSE x
  <2>1. R - k \in Int /\ x \in Int
    BY <1>2, <1>3
  <2>2. QED
    BY <2>1, MinOfTwo
<1>5. vis = Max({1, z})
  BY DEF x, z
<1> HIDE DEF z
<1>6. z \in Nat \ {0}
  BY <1>2, <1>3, <1>4
<1>7. vis = z
  <2>1. vis = IF 1 >= z THEN 1 ELSE z
    BY <1>5, <1>6, MaxOfTwo
  <2>2. QED
    BY <1>6, <2>1
<1>8. QED
  BY <1>2, <1>3, <1>4, <1>6, <1>7

\* A part of an image.
LEMMA PartFits ==
    ASSUME cell.h \in Nat \ {0}, NEW full \in Nat \ {0}, NEW R \in Nat \ {0}, R = CeilDiv(full, cell.h),
           NEW top \in Int, NEW r \in Nat \ {0}, top < r, top + R > 0,
           NEW k, k = Max({0, -top}), NEW vis, vis = Max({1, Min({R - k, Max({0, r - Max({0, top})})})})
    PROVE  RowsFit(slice_window(full, k, vis), top, full, R, r)
<1> DEFINE h == cell.h
           Y == Max({0, top})
           w == slice_window(full, k, vis)
           e == k + vis
<1>a. Y = Max({0, top}) /\ vis = Max({1, Min({R - k, Max({0, r - Y})})})
  OBVIOUS
<1> HIDE DEF Y
<1>1. /\ k \in Nat /\ Y \in Nat /\ k < R /\ k - Y = -top
      /\ vis \in Nat \ {0} /\ vis = IF R - k <= r - Y THEN R - k ELSE r - Y
  <2>1. InView(R, top, r, k, Y, vis)
    BY <1>a DEF InView
  <2>2. /\ k \in Nat /\ Y \in Nat /\ k < R /\ k - Y = -top
        /\ vis \in Nat \ {0} /\ vis = IF R - k <= r - Y THEN R - k ELSE r - Y
    BY <2>1, VisibleRows
  <2>3. QED
    BY <2>2
<1>2. k * h < full
  BY <1>1, CeilDivIs
<1>3. w = <<k * h, IF e * h <= full THEN e * h ELSE full>>
  BY <1>1, <1>2, SliceIs
<1>4. w[1] = k * h /\ w[2] = IF e * h <= full THEN e * h ELSE full
  BY <1>3
<1>5. e \in Nat /\ (e = R \/ (e = r - top /\ e <= R))
  <2>1. QED
    BY <1>1
<1> HIDE DEF w, e
<1>6. ASSUME NEW y \in 0 .. r - 1
      PROVE  LET from == w[1] + (y - Y) * h IN
             /\ (y >= Y /\ from < w[2]) <=> y \in top .. top + R - 1
             /\ y \in top .. top + R - 1 =>
                   from = (y - top) * h /\ Min({from + h, w[2]}) = Min({from + h, full})
  <2> DEFINE q == y - top
             j == y - Y
             from == w[1] + j * h
  <2>1. q \in Int /\ j \in Int /\ q = k + j /\ (y >= Y <=> q >= k)
        /\ (y \in top .. top + R - 1 <=> q >= 0 /\ q < R) /\ (e = r - top => q < e)
    BY <1>1, <1>5
  <2>2. q < R => q < e
    BY <1>5, <2>1
  <2>a. y >= Y <=> q >= 0
    <3>1. Y = IF 0 >= top THEN 0 ELSE top
      BY MaxOfTwo DEF Y
    <3>2. QED
      BY <3>1
  <2> HIDE DEF q, j
  <2>3. from = q * h /\ from \in Int
    <3>1. k * h \in Int /\ j * h \in Int /\ q * h = k * h + j * h
      <4>1. q - k = j /\ k \in Int
        BY <1>1, <2>1
      <4>2. (q - k) * h = q * h - k * h /\ q * h \in Int /\ k * h \in Int
        BY <2>1, <4>1, TimesOrder
      <4>3. j * h \in Int
        BY <2>1, TimesOrder
      <4>4. QED
        BY <4>1, <4>2, <4>3
    <3>2. QED
      BY <1>4, <3>1
  <2>4. /\ q < R <=> q * h < full
        /\ q < e <=> q * h < e * h
        /\ e * h \in Int
        /\ q + 1 <= e <=> (q + 1) * h <= e * h
        /\ (q + 1) * h = q * h + h
    <3>1. q < R <=> q * h < full
      BY <2>1, CeilDivIs
    <3>2. e \in Int /\ q + 1 \in Int
      BY <1>5, <2>1
    <3>a. h \in Nat \ {0} /\ q \in Int
      BY <2>1
    <3> HIDE DEF h
    <3>3. (q < e <=> q * h < e * h) /\ e * h \in Int
      BY <3>a, <3>2, TimesOrder
    <3>b. (q + 1) * h = q * h + h
      BY <3>a, <3>2, TimesOrder
    <3>4. q + 1 <= e <=> (q + 1) * h <= e * h
      <4> DEFINE o == q + 1
      <4>1. o \in Int
        BY <3>2
      <4> HIDE DEF o
      <4>2. (o <= e <=> o * h <= e * h)
        BY <3>a, <3>2, <4>1, TimesOrder
      <4>3. QED
        BY <4>2 DEF o
    <3>5. QED
      BY <3>1, <3>3, <3>b, <3>4 DEF h
  <2> DEFINE x == q * h
             z == e * h
  <2>5. h \in Nat \ {0} /\ x \in Int /\ z \in Int /\ (q < R <=> x < full) /\ (q < e <=> x < z) /\ (q + 1 <= e <=> x + h <= z)
        /\ from = x /\ w[2] = IF z <= full THEN z ELSE full
    BY <1>4, <2>3, <2>4
  <2> HIDE DEF x, z, from, h
  <2>6. (y >= Y /\ from < w[2]) <=> y \in top .. top + R - 1
    <3>1. from < w[2] <=> x < z /\ x < full
      BY <2>5
    <3>2. QED
      BY <2>1, <2>2, <2>5, <2>a, <3>1
  <2>7. ASSUME y \in top .. top + R - 1
        PROVE  from = q * h /\ Min({from + h, w[2]}) = Min({from + h, full})
    <3>1. x + h <= z
      <4>1. q < e /\ e \in Int
        BY <1>5, <2>1, <2>2, <2>7
      <4>2. q + 1 <= e
        BY <2>1, <4>1
      <4>3. QED
        BY <2>5, <4>2
    <3>2. from + h \in Int /\ w[2] \in Int /\ from + h <= z
      BY <2>5, <3>1
    <3>3. Min({from + h, w[2]}) = (IF from + h <= w[2] THEN from + h ELSE w[2])
          /\ Min({from + h, full}) = IF from + h <= full THEN from + h ELSE full
      BY <3>2, MinOfTwo
    <3>4. w[2] = (IF z <= full THEN z ELSE full) /\ z \in Int
      BY <2>5
    <3> DEFINE u == from + h
               v == w[2]
    <3>5. Min({from + h, w[2]}) = Min({from + h, full})
      <4> HIDE DEF u, v
      <4>1. u \in Int /\ v \in Int /\ u <= z /\ v = (IF z <= full THEN z ELSE full) /\ z \in Int
        BY <3>2, <3>4 DEF u, v
      <4>2. (IF u <= v THEN u ELSE v) = IF u <= full THEN u ELSE full
        BY <4>1
      <4>3. QED
        BY <3>3, <4>2 DEF u, v
    <3>6. from = q * h
      BY <2>5 DEF x
    <3>7. QED
      BY <3>5, <3>6
  <2>8. QED
    BY <2>6, <2>7 DEF from, j, q
<1>7. RowsFit(w, top, full, R, r)
  BY <1>6 DEF RowsFit, Y, h
<1>8. QED
  BY <1>7 DEF w

\* A row of the screen shows what it should, or a message that an image failed.
Good(v, e, bad) == v = e \/ (bad # {} /\ v = Anything)

\* A screen of r rows.
IsScreen(scr, r) == scr = [y \in 0 .. (r - 1) |-> scr[y]]

\* An image failed that has rows in m.
Degraded(m, bad) == \E i \in DOMAIN images : images[i].asset \in bad /\ m.r_rows[i] > 0

\* The screen after the first n images are drawn.
Agrees(scr, m, s, c, r, n, bad) ==
    IsScreen(scr, r) /\ \A y \in 0 .. r - 1 : Good(scr[y], ExpTo(m, s, c, n, y), bad)

\* What is written over the same, over a message, and over nothing.
LEMMA OverFacts ==
    ASSUME NEW x
    PROVE  Over(x, x) = x /\ Over(Anything, x) = Anything /\ Over(Blank, x) = x
<1>1. Anything # Blank
  BY DEF Anything, Blank
<1>2. QED
  BY <1>1 DEF Over

\* No row of the image is on the screen.
LEMMA AgreesSame ==
    ASSUME ImagesOK, NEW c \in Nat, NEW b, NEW m, m = build_model(c, b), NEW s \in Nat, NEW r \in Nat \ {0},
           NEW n \in Nat, n + 1 \in DOMAIN images, NEW scr, NEW bad, Agrees(scr, m, s, c, r, n, bad),
           \A y \in 0 .. r - 1 : ~InRows(m, n + 1, s + y)
    PROVE  Agrees(scr, m, s, c, r, n + 1, bad)
<1>1. ASSUME NEW y \in 0 .. r - 1 PROVE ExpTo(m, s, c, n + 1, y) = ExpTo(m, s, c, n, y)
  <2>1. y \in Nat /\ ~InRows(m, n + 1, s + y)
    OBVIOUS
  <2>2. QED
    BY <2>1, ExpNext
<1>2. QED
  BY <1>1 DEF Agrees

\* After a message, which may have gone anywhere, nothing is wrong.
LEMMA AgreesUnknown ==
    ASSUME NEW m, NEW s, NEW c, NEW r, NEW n, NEW bad, bad # {}
    PROVE  Agrees(Unknown(<<c, r>>), m, s, c, r, n, bad)
<1> DEFINE scr == Unknown(<<c, r>>)
<1>1. scr = [y \in 0 .. (r - 1) |-> Anything]
  BY DEF Unknown
<1> HIDE DEF scr
<1>2. \A y \in 0 .. r - 1 : scr[y] = Anything
  BY <1>1
<1>3. IsScreen(scr, r)
  <2>1. [y \in 0 .. (r - 1) |-> scr[y]] = [y \in 0 .. (r - 1) |-> Anything]
    BY <1>2, Zenon
  <2>2. QED
    BY <1>1, <2>1 DEF IsScreen
<1>4. \A y \in 0 .. r - 1 : Good(scr[y], ExpTo(m, s, c, n, y), bad)
  BY <1>2 DEF Good
<1>5. Agrees(scr, m, s, c, r, n, bad)
  BY <1>3, <1>4 DEF Agrees
<1>6. QED
  BY <1>5 DEF scr

\* Rows of image n + 1 that are on the screen and are drawn.
LEMMA AgreesDrawn ==
    ASSUME ImagesOK, NEW c \in Nat, NEW b, NEW m, m = build_model(c, b), NEW s \in Nat, NEW r \in Nat \ {0},
           NEW n \in Nat, NEW i, i = n + 1, i \in DOMAIN images, NEW scr, NEW bad, Agrees(scr, m, s, c, r, n, bad),
           Laid(m, i), NEW top, top = m.block_row[i] - s, NEW wpx, wpx = block_geometry(images[i], c).wpx, NEW w,
           RowsFit(w, top, display_height(images[i], wpx), m.r_rows[i], r)
    PROVE  Agrees(Drawn(scr, Payload(images[i], wpx, w), Max({0, top}), r), m, s, c, r, i, bad)
<1> DEFINE p == Payload(images[i], wpx, w)
           Y == Max({0, top})
           h == cell.h
           k == m.block_row[i]
           R == m.r_rows[i]
           full == display_height(images[i], wpx)
           new == Drawn(scr, p, Y, r)
<1>1. p.asset = images[i].asset /\ p.wpx = wpx /\ p.y0 = w[1] /\ p.y1 = w[2]
  BY DEF Payload
<1>2. k \in Nat /\ R \in Nat \ {0} /\ top = k - s
  BY DEF Laid
<1>3. ASSUME NEW y \in 0 .. r - 1 PROVE Good(new[y], ExpTo(m, s, c, i, y), bad)
  <2> DEFINE from == w[1] + (y - Y) * h
             e == ExpTo(m, s, c, n, y)
             f == ExpTo(m, s, c, i, y)
  <2>1. new[y] = IF y >= Y /\ from < w[2] THEN Over(scr[y], Strip(p, from, Min({from + h, w[2]}))) ELSE scr[y]
    <3> HIDE DEF p, Y
    <3>1. QED
      BY <1>1 DEF Drawn
  <2>2. /\ (y >= Y /\ from < w[2]) <=> y \in top .. top + R - 1
        /\ y \in top .. top + R - 1 => from = (y - top) * h /\ Min({from + h, w[2]}) = Min({from + h, full})
    BY DEF RowsFit
  <2>3. y \in top .. top + R - 1 <=> InRows(m, i, s + y)
    <3>1. y \in top .. top + R - 1 <=> s + y \in k .. k + R - 1
      <4> HIDE DEF k, R
      <4>1. QED
        BY <1>2
    <3>2. QED
      BY <3>1 DEF InRows
  <2>4. Good(scr[y], e, bad)
    BY DEF Agrees
  <2>5. CASE ~InRows(m, i, s + y)
    <3>1. f = e
      BY <2>5, ExpNext
    <3>2. new[y] = scr[y]
      <4> HIDE DEF new, from, Y, R
      <4>1. QED
        BY <2>1, <2>2, <2>3, <2>5
    <3> HIDE DEF e, f, new
    <3>3. QED
      BY <2>4, <3>1, <3>2 DEF e, f
  <2>6. CASE InRows(m, i, s + y)
    <3>1. e = Blank /\ f = StripAt(i, c, (s + y) - k)
      BY <2>6, ExpNext
    <3> DEFINE q == Strip(p, from, Min({from + h, w[2]}))
    <3>2. new[y] = Over(scr[y], q)
      <4> HIDE DEF new, from, Y, R
      <4>1. QED
        BY <2>1, <2>2, <2>3, <2>6
    <3>3. q = f
      <4>1. (s + y) - k = y - top
        <5> HIDE DEF k
        <5>1. QED
          BY <1>2
      <4>2. from = (y - top) * h /\ Min({from + h, w[2]}) = Min({from + h, full})
        BY <2>2, <2>3, <2>6
      <4> HIDE DEF from
      <4>3. q = <<"strip", images[i].asset, wpx, from, Min({from + h, full})>>
        BY <1>1, <4>2 DEF Strip
      <4>4. f = <<"strip", images[i].asset, wpx, (y - top) * h, Min({(y - top) * h + h, full})>>
        BY <3>1, <4>1 DEF StripAt
      <4>5. QED
        BY <4>2, <4>3, <4>4
    <3> HIDE DEF q, new, e, f
    <3>4. scr[y] = Blank \/ (bad # {} /\ scr[y] = Anything)
      BY <2>4, <3>1 DEF Good
    <3>5. QED
      BY <3>2, <3>3, <3>4, OverFacts DEF Good, f
  <2>7. QED
    BY <2>5, <2>6
<1>4. IsScreen(new, r)
  <2>1. new = [y \in 0 .. (r - 1) |-> new[y]]
    BY DEF Drawn
  <2> HIDE DEF new
  <2>2. QED
    BY <2>1 DEF IsScreen
<1> HIDE DEF new
<1>5. Agrees(new, m, s, c, r, i, bad)
  BY <1>3, <1>4 DEF Agrees
<1>6. QED
  BY <1>5 DEF new, p, Y

\* A placeholder line that is put where it is already leaves the screen as it is.
LEMMA FallbackSame ==
    ASSUME NEW scr, NEW r \in Nat \ {0}, IsScreen(scr, r), NEW a, a.block_start \in Nat, NEW top \in 0 .. r - 1,
           Over(scr[top], Text(a.block_start)) = scr[top]
    PROVE  Fallback(scr, a, top, 1, r) = scr
<1> DEFINE At(j) == IF top + j >= 0 THEN top + j ELSE IF top + j = -1 THEN 0 ELSE r - 1
           Put(f) == f = [j \in 0 .. 1 |-> IF j = 0 THEN scr
                           ELSE [f[j - 1] EXCEPT ![At(j - 1)] = Over(@, Text(a.block_start + j - 1))]]
           F == CHOOSE f : Put(f)
<1>1. Fallback(scr, a, top, 1, r) = F[1]
  BY DEF Fallback
<1>2. scr = [scr EXCEPT ![At(0)] = Over(@, Text(a.block_start))]
  <2>1. At(0) = top
    OBVIOUS
  <2>2. scr = [scr EXCEPT ![top] = scr[top]]
    BY DEF IsScreen
  <2> HIDE DEF At
  <2>3. QED
    BY <2>1, <2>2
<1> DEFINE G == [j \in 0 .. 1 |-> scr]
<1>3. Put(G)
  <2>1. ASSUME NEW j \in 0 .. 1
        PROVE  scr = IF j = 0 THEN scr
                     ELSE [G[j - 1] EXCEPT ![At(j - 1)] = Over(@, Text(a.block_start + j - 1))]
    <3>1. CASE j = 0
      BY <3>1
    <3>2. CASE j # 0
      <4>1. j = 1 /\ G[j - 1] = scr /\ j - 1 = 0 /\ a.block_start + j - 1 = a.block_start
        BY <3>2
      <4> HIDE DEF At, G
      <4>2. QED
        BY <1>2, <4>1
    <3>3. QED
      BY <3>1, <3>2
  <2> HIDE DEF At
  <2>2. QED
    BY <2>1, Zenon
<1>4. Put(F)
  <2> HIDE DEF Put, G
  <2>1. QED
    BY <1>3, Zenon
<1>5. F[0] = scr
  <2> HIDE DEF F, At
  <2>1. 0 \in 0 .. 1
    OBVIOUS
  <2>2. QED
    BY <1>4, <2>1, Zenon
<1>6. F[1] = [F[0] EXCEPT ![At(0)] = Over(@, Text(a.block_start))]
  <2> HIDE DEF F, At
  <2>1. 1 \in 0 .. 1 /\ 1 # 0 /\ 1 - 1 = 0 /\ a.block_start + 1 - 1 = a.block_start
    OBVIOUS
  <2>2. F[1] = [F[1 - 1] EXCEPT ![At(1 - 1)] = Over(@, Text(a.block_start + 1 - 1))]
    BY <1>4, <2>1, Zenon
  <2>3. QED
    BY <2>1, <2>2
<1> HIDE DEF F
<1>7. QED
  BY <1>1, <1>2, <1>5, <1>6

-----------------------------------------------------------------------------
(* Drawing an image.                                                         *)

\* What a drawing of the first n images shows: nothing is said of images that failed
\* after the layout was made.
DrawnOK(d, m, s, c, r, n) ==
    /\ SlicesRight(d.slices)
    /\ Degraded(m, d.failed) \/ Agrees(d.screen, m, s, c, r, n, d.failed)

\* What place_image can do.
PlaceCase(p, d, a, c, r, top, R, Rm, whole, full, wpx, w, n) ==
    LET slice == slice_payload(a, wpx, w, d.slices)
        Y     == Max({0, top})
        F     == d.failed
    IN  \/ /\ top + Rm + 1 <= 0 \/ top >= r
           /\ p = d
        \/ /\ ~(top + Rm + 1 <= 0 \/ top >= r) /\ a.asset \in F
           /\ p = [d EXCEPT !.screen = Fallback(@, a, top, n, r)]
        \/ /\ ~(top + Rm + 1 <= 0 \/ top >= r) /\ a.asset \notin F /\ top + R <= 0
           /\ p = d
        \/ /\ top < r /\ top + R > 0 /\ whole /\ full_payload_ok(a, F)
           /\ p = [d EXCEPT !.screen = Drawn(@, Payload(a, wpx, <<0, full>>), Y, r), !.slices = d.slices]
        \/ /\ top < r /\ top + R > 0 /\ a.asset \notin F /\ ~whole /\ slice.ok
           /\ p = [d EXCEPT !.screen = Drawn(@, slice.val, Y, r), !.slices = slice.cache]
        \/ /\ top < r /\ top + R > 0 /\ a.asset \notin F
           /\ whole => ~full_payload_ok(a, F)
           /\ p = [d EXCEPT !.screen = Unknown(<<c, r>>), !.failed = @ \cup {a.asset}]

\* The names place_image gives to what it computes first.
PlaceArgs(i, m, s, c, r, a, R, top, wpx, full, k, vis, w, n) ==
    /\ a = images[i] /\ R = block_geometry(a, c).r /\ top = m.block_row[i] - s
    /\ wpx = block_geometry(a, c).wpx /\ full = display_height(a, wpx)
    /\ k = Max({0, -top}) /\ vis = Max({1, Min({R - k, Max({0, r - Max({0, top})})})})
    /\ w = slice_window(full, k, vis)
    /\ n = Min({m.r_rows[i] + 1, a.block_end - a.block_start, Max({0, r - Max({0, top})})})

\* These are all the cases of place_image.
LEMMA PlaceCases ==
    ASSUME NEW d, NEW i, NEW m, NEW s, NEW c, NEW r \in Nat, NEW a, NEW R, NEW top, NEW wpx, NEW full, NEW k, NEW vis,
           NEW w, NEW n, R \in Int, top \in Int, PlaceArgs(i, m, s, c, r, a, R, top, wpx, full, k, vis, w, n)
    PROVE  PlaceCase(place_image(d, i, m, s, c, r), d, a, c, r, top, R, m.r_rows[i],
                     top >= 0 /\ top + R <= r, full, wpx, w, n)
<1> DEFINE whole == top >= 0 /\ top + R <= r
           slice == slice_payload(a, wpx, w, d.slices)
           good == [ok |-> full_payload_ok(a, d.failed), cache |-> d.slices, val |-> Payload(a, wpx, <<0, full>>)]
           res  == IF whole THEN good ELSE slice
           fallen == [d EXCEPT !.screen = Fallback(@, a, top, n, r)]
           shown == [d EXCEPT !.screen = Drawn(@, res.val, Max({0, top}), r), !.slices = res.cache]
           lost == [d EXCEPT !.screen = Unknown(<<c, r>>), !.failed = @ \cup {a.asset}]
           p == place_image(d, i, m, s, c, r)
           Away == top + m.r_rows[i] + 1 <= 0 \/ top >= r
<1>1. p = (IF Away THEN d
           ELSE IF a.asset \in d.failed THEN fallen
           ELSE IF top + R <= 0 THEN d
           ELSE IF res.ok THEN shown ELSE lost)
  BY Zenon DEF place_image, PlaceArgs
<1>2. ~Away => top < r
  OBVIOUS
<1>3. ~(top + R <= 0) => top + R > 0
  OBVIOUS
<1>4. full_payload_ok(a, d.failed) => a.asset \notin d.failed
  BY DEF full_payload_ok
<1>5. good.ok = full_payload_ok(a, d.failed) /\ good.cache = d.slices /\ good.val = Payload(a, wpx, <<0, full>>)
  OBVIOUS
<1> HIDE DEF p, Away, fallen, lost, good, slice
<1>6. CASE Away
  <2>1. p = d
    BY <1>1, <1>6, Zenon
  <2>2. QED
    BY <1>6, <2>1, Zenon DEF PlaceCase, Away, p
<1>7. CASE ~Away /\ a.asset \in d.failed
  <2>1. p = fallen
    BY <1>1, <1>7, Zenon
  <2>2. QED
    BY <1>7, <2>1, Zenon DEF PlaceCase, Away, p, fallen
<1>8. CASE ~Away /\ a.asset \notin d.failed /\ top + R <= 0
  <2>1. p = d
    BY <1>1, <1>8, Zenon
  <2>2. QED
    BY <1>8, <2>1, Zenon DEF PlaceCase, Away, p
<1>9. CASE ~Away /\ a.asset \notin d.failed /\ ~(top + R <= 0) /\ res.ok /\ whole
  <2>1. p = shown
    BY <1>1, <1>9, Zenon
  <2>2. res = good
    BY <1>9, Zenon
  <2> HIDE DEF res, whole
  <2>3. p = [d EXCEPT !.screen = Drawn(@, Payload(a, wpx, <<0, full>>), Max({0, top}), r), !.slices = d.slices]
    BY <1>5, <2>1, <2>2, Zenon
  <2>4. top < r /\ top + R > 0 /\ full_payload_ok(a, d.failed)
    BY <1>2, <1>3, <1>5, <1>9, <2>2
  <2>5. QED
    BY <1>9, <2>3, <2>4, Zenon DEF PlaceCase, p, whole
<1>10. CASE ~Away /\ a.asset \notin d.failed /\ ~(top + R <= 0) /\ res.ok /\ ~whole
  <2>1. p = shown
    BY <1>1, <1>10, Zenon
  <2>2. res = slice
    BY <1>10, Zenon
  <2> HIDE DEF res, whole
  <2>3. p = [d EXCEPT !.screen = Drawn(@, slice.val, Max({0, top}), r), !.slices = slice.cache]
    BY <2>1, <2>2, Zenon
  <2>4. top < r /\ top + R > 0 /\ slice.ok
    BY <1>2, <1>3, <1>10, <2>2
  <2>5. QED
    BY <1>10, <2>3, <2>4, Zenon DEF PlaceCase, p, whole, slice
<1>11. CASE ~Away /\ a.asset \notin d.failed /\ ~(top + R <= 0) /\ ~res.ok
  <2>1. p = lost
    BY <1>1, <1>11, Zenon
  <2>2. whole => ~full_payload_ok(a, d.failed)
    <3>1. whole => res = good
      BY Zenon
    <3> HIDE DEF res, whole
    <3>2. QED
      BY <1>5, <1>11, <3>1
  <2>4. top < r /\ top + R > 0
    BY <1>2, <1>3, <1>11
  <2> HIDE DEF whole
  <2>5. QED
    BY <1>11, <2>1, <2>2, <2>4, Zenon DEF PlaceCase, p, whole, lost
<1>12. QED
  BY <1>6, <1>7, <1>8, <1>9, <1>10, <1>11, Zenon

\* place_image puts the block back as n of its lines, from row top of the screen on.
Fallen(m, i, s, r, top, n) ==
    /\ m.r_rows[i] = 0 /\ top = m.block_row[i] - s /\ top \in 0 .. r - 1
    /\ n = Min({m.r_rows[i] + 1, images[i].block_end - images[i].block_start, Max({0, r - Max({0, top})})})

\* A block that is not laid out shows its first line, whether it is put there again or not.
LEMMA FallenShows ==
    ASSUME ImagesOK, NEW c \in Nat, NEW b, NEW m, m = build_model(c, b), NEW s \in Nat, NEW r \in Nat \ {0},
           NEW i \in DOMAIN images, NEW top, NEW n, Fallen(m, i, s, r, top, n),
           NEW scr, NEW bad, NEW l, l \in Nat, Agrees(scr, m, s, c, r, l, bad)
    PROVE  Fallback(scr, images[i], top, n, r) = scr
<1> DEFINE a == images[i]
           bs == a.block_start
           be == a.block_end
           k == m.block_row[i]
<1>a. m.r_rows[i] = 0 /\ top = k - s /\ top \in 0 .. r - 1
      /\ n = Min({0 + 1, be - bs, Max({0, r - Max({0, top})})})
  BY DEF Fallen
<1>1. bs \in Nat /\ be \in Nat /\ bs < be
  BY ImageFacts
<1>2. n = 1
  <2>1. Max({0, top}) = top
    BY <1>a, MaxOfTwo
  <2>2. Max({0, r - top}) = r - top
    BY <1>a, MaxOfTwo
  <2> DEFINE x == be - bs
             y == r - top
  <2>3. x \in Nat \ {0} /\ y \in Nat \ {0} /\ 0 + 1 = 1
    <3> HIDE DEF bs, be
    <3>1. QED
      BY <1>1, <1>a
  <2>4. n = Min({1, x, y})
    BY <1>a, <2>1, <2>2, <2>3
  <2> HIDE DEF x, y
  <2>5. {1, x, y} \subseteq Nat /\ {1, x, y} # {}
    BY <2>3
  <2>6. Min({1, x, y}) \in {1, x, y} /\ \A z \in {1, x, y} : Min({1, x, y}) <= z
    <3> DEFINE S == {1, x, y}
    <3> HIDE DEF S
    <3>1. S \subseteq Nat /\ S # {}
      BY <2>5 DEF S
    <3>2. Min(S) \in S /\ \A z \in S : Min(S) <= z
      BY <3>1, MinOfMany
    <3>3. QED
      BY <3>2 DEF S
  <2>7. Min({1, x, y}) <= 1 /\ Min({1, x, y}) \in Nat \ {0}
    BY <2>3, <2>6
  <2>8. QED
    BY <2>4, <2>7
<1>3. k \in Nat /\ k < Len(m.items) /\ m.items[k + 1] = Text(bs)
  <2>1. BlockIs(m, c, b, i)
    BY BlockAt
  <2>2. RowsIn(c, i) \in Nat \ {0}
    BY GeometryFacts DEF RowsIn
  <2>3. ~ShownIn(b, i)
    BY <1>a, <2>1, <2>2 DEF BlockIs
  <2>4. QED
    BY <2>1, <2>3 DEF BlockIs
<1>4. Len(m.items) \in Nat
  BY ModelOrder DEF Orderly
<1>5. s + top = k /\ top \in Nat
  <2> HIDE DEF k
  <2>1. QED
    BY <1>3, <1>a
<1>6. ExpTo(m, s, c, l, top) = Text(bs)
  <2> DEFINE K == Len(m.items)
             item == m.items[k + 1]
  <2>1. ~(s + top >= K) /\ m.items[s + top + 1] = Text(bs) /\ Text(bs)[1] # "image"
    <3> HIDE DEF k, K
    <3>1. ~(s + top >= K)
      BY <1>3, <1>4, <1>5 DEF K
    <3>2. s + top + 1 = k + 1
      BY <1>5
    <3>3. m.items[s + top + 1] = Text(bs)
      BY <1>3, <3>2
    <3>4. Text(bs)[1] # "image"
      BY DEF Text
    <3>5. QED
      BY <3>1, <3>3, <3>4
  <2>2. ExpTo(m, s, c, l, top) = Exp(m, s, c, top)
    <3>1. m.items[s + top + 1][1] # "image"
      BY <2>1
    <3>2. QED
      BY <3>1, Zenon DEF ExpTo
  <2>3. Exp(m, s, c, top) = Text(bs)
    <3>1. m.items[s + top + 1][1] # "image"
      BY <2>1
    <3>2. QED
      BY <2>1, <3>1, Zenon DEF Exp
  <2>4. QED
    BY <2>2, <2>3
<1>7. scr[top] = Text(bs) \/ scr[top] = Anything
  BY <1>6, <1>a DEF Agrees, Good
<1>8. Over(scr[top], Text(bs)) = scr[top]
  <2> HIDE DEF bs
  <2>1. QED
    BY <1>7, OverFacts
<1>9. IsScreen(scr, r)
  BY DEF Agrees
<1> HIDE DEF a
<1>10. Fallback(scr, a, top, 1, r) = scr
  BY <1>1, <1>8, <1>9, <1>a, FallbackSame
<1>11. QED
  BY <1>2, <1>10 DEF a

\* place_image shows its image as the layout has it, from the cache or not, whole or in part; or it fails.
LEMMA PlaceShows ==
    ASSUME ImagesOK, NEW c \in Nat, NEW b, NEW m, m = build_model(c, b), NEW s \in Nat, NEW r \in Nat \ {0},
           NEW l \in Nat, NEW i, i = l + 1, i \in DOMAIN images,
           NEW d, DrawOK(d, b), DrawnOK(d, m, s, c, r, l)
    PROVE  DrawnOK(place_image(d, i, m, s, c, r), m, s, c, r, i)
<1> DEFINE a == images[i]
           R == block_geometry(a, c).r
           Rm == m.r_rows[i]
           top == m.block_row[i] - s
           wpx == block_geometry(a, c).wpx
           full == display_height(a, wpx)
           k == Max({0, -top})
           vis == Max({1, Min({R - k, Max({0, r - Max({0, top})})})})
           w == slice_window(full, k, vis)
           n == Min({m.r_rows[i] + 1, a.block_end - a.block_start, Max({0, r - Max({0, top})})})
           p == place_image(d, i, m, s, c, r)
           whole == top >= 0 /\ top + R <= r
           slice == slice_payload(a, wpx, w, d.slices)
           F == d.failed
           Y == Max({0, top})
<1>1. BlockIs(m, c, b, i)
  BY BlockAt
<1>2. m.block_row[i] \in Nat /\ Rm \in Nat /\ R \in Nat \ {0} /\ wpx \in Nat \ {0} /\ full \in Nat \ {0} /\ top \in Int
      /\ R = CeilDiv(full, cell.h) /\ cell.h \in Nat \ {0}
  <2>1. m.block_row[i] \in Nat /\ Rm \in Nat
    BY <1>1 DEF BlockIs
  <2>2. R \in Nat \ {0} /\ wpx \in Nat \ {0} /\ full \in Nat \ {0}
    BY GeometryFacts
  <2>3. R = CeilDiv(full, cell.h)
    BY DEF block_geometry
  <2>4. cell.h \in Nat \ {0}
    BY CellsAssumption DEF ImagesOK
  <2>5. QED
    BY <2>1, <2>2, <2>3, <2>4
<1>3. PlaceCase(p, d, a, c, r, top, R, Rm, whole, full, wpx, w, n)
  <2>1. R \in Int /\ r \in Nat
    BY <1>2
  <2>2. PlaceArgs(i, m, s, c, r, a, R, top, wpx, full, k, vis, w, n)
    BY Zenon DEF PlaceArgs
  <2> HIDE DEF a, R, top, wpx, full, k, vis, w, n
  <2>3. PlaceCase(place_image(d, i, m, s, c, r), d, a, c, r, top, R, m.r_rows[i],
                   top >= 0 /\ top + R <= r, full, wpx, w, n)
    BY <1>2, <2>1, <2>2, PlaceCases, Zenon
  <2>4. QED
    BY <2>3
<1>4. d = [screen |-> d.screen, failed |-> F, slices |-> d.slices] /\ b \subseteq F /\ CacheSeq(d.slices)
  BY DEF DrawOK, Sound
<1>5. SlicesRight(d.slices) /\ (Degraded(m, F) \/ Agrees(d.screen, m, s, c, r, l, F))
  BY DEF DrawnOK
<1>6. SlicesRight(slice.cache) /\ (slice.ok => slice.val = Payload(a, wpx, w) /\ kind[a.asset] # "unreadable")
  BY <1>4, <1>5, SlicePayloadRight
\* The image is laid out, unless it failed before or its file cannot be read.
<1>7. a.asset \notin F /\ kind[a.asset] # "unreadable" => ShownIn(b, i) /\ Laid(m, i) /\ Rm = R
  <2>1. a.asset \notin F /\ kind[a.asset] # "unreadable" => ShownIn(b, i)
    BY <1>4 DEF ShownIn, full_payload_ok
  <2>2. QED
    BY <1>1, <2>1 DEF BlockIs, RowsIn
<1>8. ~ShownIn(b, i) => Rm = 0
  BY <1>1 DEF BlockIs
<1>9. ASSUME \A y \in 0 .. r - 1 : ~InRows(m, i, s + y)
      PROVE  DrawnOK(d, m, s, c, r, i)
  <2>1. Agrees(d.screen, m, s, c, r, l, F) => Agrees(d.screen, m, s, c, r, l + 1, F)
    <3> HIDE DEF F
    <3>1. QED
      BY <1>9, AgreesSame
  <2>2. QED
    BY <1>5, <2>1 DEF DrawnOK
<1>10. ASSUME top + Rm <= 0 \/ top >= r \/ Rm = 0
       PROVE  \A y \in 0 .. r - 1 : ~InRows(m, i, s + y)
  <2> SUFFICES ASSUME NEW y \in 0 .. r - 1, InRows(m, i, s + y) PROVE FALSE
    OBVIOUS
  <2> DEFINE B == m.block_row[i]
  <2>1. s + y \in B .. B + Rm - 1 /\ B \in Nat /\ top = B - s
    BY <1>2 DEF InRows
  <2> HIDE DEF B, Rm, top
  <2>2. QED
    BY <1>2, <1>10, <2>1
<1>11. CASE (top + Rm + 1 <= 0 \/ top >= r) /\ p = d
  <2>1. top + Rm <= 0 \/ top >= r
    <3> HIDE DEF top, Rm
    <3>1. QED
      BY <1>2, <1>11
  <2>2. QED
    BY <1>9, <1>10, <1>11, <2>1
<1>12. CASE ~(top + Rm + 1 <= 0 \/ top >= r) /\ a.asset \in F /\ p = [d EXCEPT !.screen = Fallback(@, a, top, n, r)]
  <2> DEFINE x == Fallback(d.screen, a, top, n, r)
  <2>1. p = [screen |-> x, failed |-> F, slices |-> d.slices]
    <3>1. p = [d EXCEPT !.screen = x]
      BY <1>12
    <3> HIDE DEF x, p
    <3>2. QED
      BY <1>4, <3>1, DrawParts
  <2>2. p.screen = x /\ p.failed = F /\ p.slices = d.slices
    <3> HIDE DEF p, x
    <3>1. QED
      BY <2>1
  <2>3. CASE Degraded(m, F)
    <3>1. DrawnOK(p, m, s, c, r, i)
      <4> HIDE DEF p, x
      <4>1. QED
        BY <1>5, <2>2, <2>3 DEF DrawnOK
    <3>2. QED
      BY <3>1
  <2>4. CASE ~Degraded(m, F)
    <3>1. Rm = 0
      BY <1>2, <1>12, <2>4 DEF Degraded
    <3>2. top \in 0 .. r - 1
      <4> HIDE DEF top, Rm
      <4>1. QED
        BY <1>2, <1>12, <3>1
    <3>3. Agrees(d.screen, m, s, c, r, l, F)
      BY <1>5, <2>4
    <3>4. x = d.screen
      <4>1. Fallen(m, i, s, r, top, n)
        BY <3>1, <3>2 DEF Fallen
      <4> HIDE DEF top, n, F, Rm
      <4>2. Fallback(d.screen, images[i], top, n, r) = d.screen
        BY <3>3, <4>1, FallenShows
      <4>3. QED
        BY <4>2
    <3>5. p = d
      <4> HIDE DEF p, x
      <4>1. QED
        BY <1>4, <2>1, <3>4
    <3>6. QED
      BY <1>9, <1>10, <3>1, <3>5
  <2>5. QED
    BY <2>3, <2>4
<1>13. CASE ~(top + Rm + 1 <= 0 \/ top >= r) /\ a.asset \notin F /\ top + R <= 0 /\ p = d
  <2>1. top + Rm <= 0 \/ Rm = 0
    BY <1>7, <1>8, <1>13, <1>1 DEF BlockIs, RowsIn
  <2>2. QED
    BY <1>9, <1>10, <1>13, <2>1
<1>14. ASSUME NEW v, NEW z, SlicesRight(z), RowsFit(v, top, full, R, r), top < r, top + R > 0,
              a.asset \notin F, kind[a.asset] # "unreadable",
              p = [d EXCEPT !.screen = Drawn(@, Payload(a, wpx, v), Y, r), !.slices = z]
       PROVE  DrawnOK(p, m, s, c, r, i)
  <2> DEFINE x == Drawn(d.screen, Payload(a, wpx, v), Y, r)
  <2>1. p = [screen |-> x, failed |-> F, slices |-> z]
    <3>1. p = [d EXCEPT !.screen = x, !.slices = z]
      BY <1>14
    <3> HIDE DEF x, p
    <3>2. QED
      BY <1>4, <3>1, DrawParts
  <2>2. p.screen = x /\ p.failed = F /\ p.slices = z
    <3> HIDE DEF p, x
    <3>1. QED
      BY <2>1
  <2>3. Laid(m, i) /\ Rm = R
    BY <1>7, <1>14
  <2>4. Agrees(d.screen, m, s, c, r, l, F) => Agrees(x, m, s, c, r, i, F)
    <3>1. RowsFit(v, top, full, Rm, r)
      BY <1>14, <2>3
    <3> HIDE DEF F
    <3>2. QED
      BY <2>3, <3>1, AgreesDrawn
  <2> HIDE DEF x, p
  <2>5. QED
    BY <1>5, <1>14, <2>2, <2>4 DEF DrawnOK
<1>15. CASE top < r /\ top + R > 0 /\ whole /\ full_payload_ok(a, F)
            /\ p = [d EXCEPT !.screen = Drawn(@, Payload(a, wpx, <<0, full>>), Y, r), !.slices = d.slices]
  <2>1. top \in Nat /\ R \in Nat
    <3> HIDE DEF top, R
    <3>1. QED
      BY <1>2, <1>15
  <2>2. RowsFit(<<0, full>>, top, full, R, r)
    <3> HIDE DEF top, R, full
    <3>1. QED
      BY <1>2, <2>1, WholeFits
  <2>3. a.asset \notin F /\ kind[a.asset] # "unreadable"
    BY <1>15 DEF full_payload_ok
  <2>4. DrawnOK(p, m, s, c, r, i)
    <3> HIDE DEF p
    <3>1. QED
      BY <1>5, <1>14, <1>15, <2>2, <2>3
  <2>5. QED
    BY <2>4
<1>16. CASE top < r /\ top + R > 0 /\ a.asset \notin F /\ ~whole /\ slice.ok
            /\ p = [d EXCEPT !.screen = Drawn(@, slice.val, Y, r), !.slices = slice.cache]
  <2>1. RowsFit(w, top, full, R, r)
    <3> HIDE DEF top, R, full
    <3>1. QED
      BY <1>2, <1>16, PartFits
  <2>2. slice.val = Payload(a, wpx, w) /\ kind[a.asset] # "unreadable" /\ SlicesRight(slice.cache)
    BY <1>6, <1>16
  <2>3. DrawnOK(p, m, s, c, r, i)
    <3> HIDE DEF p, slice
    <3>1. QED
      BY <1>14, <1>16, <2>1, <2>2
  <2>4. QED
    BY <2>3
<1>17. CASE top < r /\ top + R > 0 /\ a.asset \notin F
            /\ p = [d EXCEPT !.screen = Unknown(<<c, r>>), !.failed = @ \cup {a.asset}]
  <2> DEFINE x == Unknown(<<c, r>>)
             y == F \cup {a.asset}
  <2>1. p = [screen |-> x, failed |-> y, slices |-> d.slices]
    <3>1. p = [d EXCEPT !.screen = x, !.failed = y]
      BY <1>17
    <3> HIDE DEF x, y, p
    <3>2. QED
      BY <1>4, <3>1, DrawParts
  <2>2. p.screen = x /\ p.failed = y /\ p.slices = d.slices
    <3> HIDE DEF p, x, y
    <3>1. QED
      BY <2>1
  <2>3. y # {}
    OBVIOUS
  <2> HIDE DEF y
  <2>4. Agrees(x, m, s, c, r, i, y)
    BY <2>3, AgreesUnknown
  <2>5. DrawnOK(p, m, s, c, r, i)
    <3> HIDE DEF x, p
    <3>1. QED
      BY <1>5, <2>2, <2>4 DEF DrawnOK
  <2>6. QED
    BY <2>5
<1> HIDE DEF p, whole, slice, top, Rm, R, full, wpx, w, n, Y
<1>18. QED
  BY <1>3, <1>11, <1>12, <1>13, <1>15, <1>16, <1>17, Zenon DEF PlaceCase, slice, Y

-----------------------------------------------------------------------------
(* Drawing a frame.                                                          *)

\* A frame of layout m shows it.
LEMMA DrawShows ==
    ASSUME ImagesOK, NEW c \in Nat, NEW bad, NEW b \in SUBSET bad, NEW m, m = build_model(c, b), NEW s \in Nat,
           NEW r \in Nat \ {0}, Sound(slices, LRU_CAP), SlicesRight(slices)
    PROVE  DrawnOK(draw_frame(m, s, c, r, bad), m, s, c, r, Len(images))
<1> DEFINE n == Len(images)
           blank == [y \in 0 .. (r - 1) |-> fill_model_row(m, s + y)]
           base == [screen |-> blank, failed |-> bad, slices |-> slices]
           F == CHOOSE f : Draws(f, base, m, s, c, r, n)
<1>1. draw_frame(m, s, c, r, bad) = F[n]
  BY DEF draw_frame, Draws
<1>2. DrawOK(base, b)
  BY DEF DrawOK
<1>3. n \in Nat /\ DOMAIN images = 1 .. n
  BY ImageFacts
<1>4. Draws(F, base, m, s, c, r, n)
  <2> HIDE DEF base, n
  <2>1. QED
    BY <1>3, DrawsExists, Zenon
<1>5. DrawnOK(base, m, s, c, r, 0)
  <2>1. ASSUME NEW y \in 0 .. r - 1 PROVE blank[y] = ExpTo(m, s, c, 0, y)
    <3>1. y \in Nat
      OBVIOUS
    <3>2. ExpTo(m, s, c, 0, y) = fill_model_row(m, s + y)
      BY <3>1, ExpZero
    <3>3. QED
      BY <3>2
  <2>2. base.screen = blank /\ base.failed = bad /\ base.slices = slices
    BY Zenon
  <2>3. IsScreen(blank, r)
    <3>1. blank = [y \in 0 .. (r - 1) |-> blank[y]]
      OBVIOUS
    <3> HIDE DEF blank
    <3>2. QED
      BY <3>1 DEF IsScreen
  <2> HIDE DEF blank, base
  <2>4. Agrees(blank, m, s, c, r, 0, bad)
    BY <2>1, <2>3 DEF Agrees, Good
  <2>5. QED
    BY <2>2, <2>4 DEF DrawnOK
<1> HIDE DEF F, base, n
<1>6. DrawSteps(F, base, m, s, c, r, n)
  BY <1>3, <1>4, DrawsStep, Zenon
<1>7. F[0] = base
  BY <1>6, Zenon DEF DrawSteps
<1>8. \A k \in 0 .. n : k + 1 \in 0 .. n => F[k + 1] = place_image(F[k], k + 1, m, s, c, r)
  BY <1>6, Zenon DEF DrawSteps
<1> DEFINE T == {k \in 0 .. n : DrawOK(F[k], b) /\ DrawnOK(F[k], m, s, c, r, k)}
<1>9. 0 \in T
  BY <1>2, <1>3, <1>5, <1>7
<1>10. ASSUME NEW k \in 0 .. n, k \in T, k + 1 \in 0 .. n PROVE k + 1 \in T
  <2>1. DrawOK(F[k], b) /\ DrawnOK(F[k], m, s, c, r, k)
    BY <1>10
  <2>2. DrawOK(place_image(F[k], k + 1, m, s, c, r), b)
    BY <2>1, PlaceKeeps, Zenon
  <2> DEFINE i == k + 1
  <2>3. k \in Nat /\ i = k + 1 /\ i \in DOMAIN images
    BY <1>3, <1>10
  <2>4. DrawnOK(place_image(F[k], i, m, s, c, r), m, s, c, r, i)
    <3> HIDE DEF i
    <3>1. QED
      BY <2>1, <2>3, PlaceShows
  <2>5. F[k + 1] = place_image(F[k], k + 1, m, s, c, r)
    BY <1>8, <1>10
  <2>6. QED
    BY <1>10, <2>2, <2>4, <2>5
<1>11. \A k \in 0 .. n : k \in T
  <2>1. \A k \in 0 .. n : k \in T /\ k + 1 \in 0 .. n => k + 1 \in T
    BY <1>10
  <2> HIDE DEF T
  <2>2. QED
    BY <1>3, <1>9, <2>1, Induction, Zenon
<1>12. n \in 0 .. n
  BY <1>3
<1>13. QED
  BY <1>1, <1>11, <1>12 DEF n

-----------------------------------------------------------------------------
\* What a screen of r rows shows of layout m from row s on.
Right(scr, m, s, c, r, bad) ==
    Degraded(m, bad) \/ (IsScreen(scr, r) /\ \A y \in 0 .. r - 1 : Good(scr[y], Exp(m, s, c, y), bad))

\* So a frame of the size of the terminal shows its layout.
LEMMA FrameShows ==
    ASSUME ImagesOK, NEW m, NEW s, NEW c, NEW r, NEW bad, Shows(m, s, c, r, bad),
           Sound(slices, LRU_CAP), SlicesRight(slices), Frame(m, s, c, r, bad)
    PROVE  /\ SlicesRight(slices')
           /\ (st' = "reading" /\ tty = <<c, r>>) => Right(screen', model', scroll', cols', rows', failed')
<1>1. model' = m /\ scroll' = s /\ cols' = c /\ rows' = r
  BY Zenon DEF Frame
<1>2. CASE Panics(m, s, r)
  <2>1. st' = "panicked" /\ slices' = slices
    BY <1>2, Zenon DEF Frame
  <2>2. QED
    BY <2>1
<1>3. CASE ~Panics(m, s, r)
  <2> DEFINE d == draw_frame(m, s, c, r, bad)
             n == Len(images)
  <2>1. /\ failed' = d.failed /\ slices' = d.slices
        /\ screen' = IF tty = <<c, r>> THEN d.screen ELSE Unknown(tty)
    BY <1>3, Zenon DEF Frame
  <2>2. PICK b \in SUBSET bad : m = build_model(c, b)
    BY DEF Shows
  <2>3. c \in Nat /\ r \in Nat \ {0} /\ s \in Nat
    <3>1. max_scroll(m, r) \in Nat
      BY ShowsOrderly, ScrollMax DEF Shows
    <3>2. QED
      BY <3>1 DEF Shows
  <2>4. DrawnOK(d, m, s, c, r, n)
    BY <2>2, <2>3, DrawShows
  <2> HIDE DEF d
  <2>5. SlicesRight(slices')
    BY <2>1, <2>4 DEF DrawnOK
  <2>6. ASSUME tty = <<c, r>> PROVE Right(screen', m, s, c, r, failed')
    <3>1. screen' = d.screen
      BY <2>1, <2>6
    <3>2. \A y \in 0 .. r - 1 : ExpTo(m, s, c, n, y) = Exp(m, s, c, y)
      <4> TAKE y \in 0 .. r - 1
      <4>1. y \in Nat
        BY <2>3
      <4>2. QED
        BY <2>2, <2>3, <4>1, ExpAll
    <3>3. Degraded(m, d.failed) \/ Agrees(d.screen, m, s, c, r, n, d.failed)
      BY <2>4 DEF DrawnOK
    <3> HIDE DEF n
    <3>4. Agrees(d.screen, m, s, c, r, n, d.failed) => Right(d.screen, m, s, c, r, d.failed)
      BY <3>2 DEF Agrees, Right
    <3>5. Right(d.screen, m, s, c, r, d.failed)
      BY <3>3, <3>4 DEF Right
    <3>6. QED
      BY <2>1, <3>1, <3>5
  <2>7. QED
    BY <1>1, <2>5, <2>6
<1>4. QED
  BY <1>2, <1>3

-----------------------------------------------------------------------------
(* Scrolling by one row.                                                     *)

\* What is expected depends on the row of the layout alone.
LEMMA ExpShift ==
    ASSUME NEW m, NEW s, NEW c, NEW y, NEW t, NEW z, s + y = t + z
    PROVE  Exp(m, s, c, y) = Exp(m, t, c, z)
  BY Zenon DEF Exp

\* Row at of the layout, of image i, is made from its one row of pixels.
RowOf(m, c, at, i, wpx, p) ==
    /\ at \in Nat /\ at < Len(m.items) /\ m.items[at + 1][1] = "image" /\ i = m.items[at + 1][2]
    /\ wpx = block_geometry(images[i], c).wpx
    /\ p = Payload(images[i], wpx, slice_window(display_height(images[i], wpx), at - m.block_row[i], 1))

\* The row that a move by one brings onto the screen is the one a frame would show.
LEMMA RowShows ==
    ASSUME ImagesOK, NEW c \in Nat, NEW b, NEW m, m = build_model(c, b), NEW at, NEW i, NEW wpx, NEW p,
           RowOf(m, c, at, i, wpx, p)
    PROVE  Strip(p, p.y0, p.y1) = StripAt(i, c, at - m.block_row[i])
<1> DEFINE q == at - m.block_row[i]
           full == display_height(images[i], wpx)
           h == cell.h
           R == m.r_rows[i]
           w == slice_window(full, q, 1)
<1>a. at \in Nat /\ at < Len(m.items) /\ m.items[at + 1][1] = "image" /\ i = m.items[at + 1][2]
  BY DEF RowOf
<1>b. wpx = block_geometry(images[i], c).wpx /\ p = Payload(images[i], wpx, w)
  BY DEF RowOf
<1>1. i \in DOMAIN images /\ InRows(m, i, at)
  BY <1>a, ImageRow
<1>2. Len(m.items) \in Nat
  BY ModelOrder DEF Orderly
<1>3. q \in 0 .. R - 1 /\ R \in Nat \ {0}
  <2>1. q \in 0 .. R - 1
    BY <1>1, <1>2, <1>a, RowOfImage
  <2>2. R \in Nat \ {0}
    BY <1>1 DEF InRows, Laid
  <2>3. QED
    BY <2>1, <2>2
<1>4. full \in Nat \ {0} /\ RowsIn(c, i) = CeilDiv(full, h) /\ RowsIn(c, i) \in Nat \ {0}
  <2>1. full \in Nat \ {0} /\ RowsIn(c, i) \in Nat \ {0}
    BY <1>1, <1>b, GeometryFacts DEF RowsIn
  <2>2. RowsIn(c, i) = CeilDiv(full, h)
    BY <1>b DEF RowsIn, block_geometry
  <2>3. QED
    BY <2>1, <2>2
<1>5. h \in Nat \ {0}
  BY CellsAssumption DEF ImagesOK
<1>6. R = CeilDiv(full, h)
  <2>1. BlockIs(m, c, b, i)
    BY <1>1, BlockAt
  <2> HIDE DEF full, h
  <2>2. QED
    BY <1>3, <1>4, <2>1 DEF BlockIs
<1>7. q \in Nat /\ q < R
  <2> HIDE DEF q, R
  <2>1. QED
    BY <1>3
<1>8. q * h < full
  <2> HIDE DEF q, R, full
  <2>1. q \in Int
    BY <1>7
  <2>2. QED
    BY <1>4, <1>5, <1>6, <1>7, <2>1, CeilDivIs
<1>9. w = <<q * h, IF (q + 1) * h <= full THEN (q + 1) * h ELSE full>>
  <2> HIDE DEF q, full
  <2>1. 1 \in Nat \ {0}
    OBVIOUS
  <2>2. QED
    BY <1>4, <1>5, <1>7, <1>8, <2>1, SliceIs DEF w
<1>10. q * h \in Int /\ (q + 1) * h = q * h + h
  <2> HIDE DEF q, h
  <2>1. q \in Int
    BY <1>7
  <2>2. QED
    BY <1>5, <2>1, TimesOrder
<1>11. Min({q * h + h, full}) = IF (q + 1) * h <= full THEN (q + 1) * h ELSE full
  <2> DEFINE x == q * h + h
  <2>1. x \in Int /\ full \in Int /\ (q + 1) * h = x
    <3> HIDE DEF q, full
    <3>1. QED
      BY <1>4, <1>5, <1>10
  <2> HIDE DEF x, q, full
  <2>2. Min({x, full}) = IF x <= full THEN x ELSE full
    BY <2>1, MinOfTwo
  <2>3. QED
    BY <2>1, <2>2 DEF x
<1>12. w[1] = q * h /\ w[2] = Min({q * h + h, full})
  <2> HIDE DEF w, q, full, h
  <2>1. QED
    BY <1>9, <1>11
<1>13. p.asset = images[i].asset /\ p.wpx = wpx /\ p.y0 = w[1] /\ p.y1 = w[2]
  BY <1>b DEF Payload
<1>14. Min({w[1] + h, w[2]}) = w[2]
  <2> DEFINE x == q * h + h
  <2>1. x \in Int /\ full \in Int
    <3> HIDE DEF q, full
    <3>1. QED
      BY <1>4, <1>5, <1>10
  <2> DEFINE z == Min({x, full})
  <2>2. w[1] + h = x /\ w[2] = z
    BY <1>12
  <2> HIDE DEF x, full
  <2>3. z = IF x <= full THEN x ELSE full
    BY <2>1, MinOfTwo
  <2> HIDE DEF z
  <2>4. z \in Int /\ z <= x
    BY <2>1, <2>3
  <2>5. Min({x, z}) = IF x <= z THEN x ELSE z
    BY <2>1, <2>4, MinOfTwo
  <2>6. Min({x, z}) = z
    BY <2>1, <2>4, <2>5
  <2> HIDE DEF w
  <2>7. QED
    BY <2>2, <2>6
<1>15. Strip(p, p.y0, p.y1) = <<"strip", images[i].asset, wpx, w[1], w[2]>>
  <2> HIDE DEF w
  <2>1. QED
    BY <1>13 DEF Strip
<1>16. StripAt(i, c, q) = <<"strip", images[i].asset, wpx, q * h, Min({q * h + h, full})>>
  BY <1>b DEF StripAt
<1>17. Strip(p, p.y0, p.y1) = StripAt(i, c, q)
  <2> HIDE DEF w, q, full, h
  <2>1. QED
    BY <1>12, <1>15, <1>16
<1>18. QED
  BY <1>17

\* A move by one row, when row shows what was brought onto the screen.
LEMMA ShiftShows ==
    ASSUME NEW m, m = model, cols \in Nat, rows \in Nat \ {0}, scroll \in Nat, tty = <<cols, rows>>,
           Right(screen, m, scroll, cols, rows, failed), NEW new \in Nat, new \in {scroll - 1, scroll + 1}, NEW row,
           row = Exp(m, incremental_target(new), cols, 0)
    PROVE  Right(Shifted(new, row), m, new, cols, rows, failed)
<1> DEFINE scr == Shifted(new, row)
<1>1. CASE Degraded(m, failed)
  BY <1>1 DEF Right
<1>2. CASE ~Degraded(m, failed)
  <2>1. \A y \in 0 .. rows - 1 : Good(screen[y], Exp(m, scroll, cols, y), failed)
    BY <1>2 DEF Right
  <2>2. CASE new = scroll + 1
    <3>1. new > scroll
      BY <2>2
    <3>2. scr = [y \in 0 .. (rows - 1) |-> IF y = rows - 1 THEN row ELSE screen[y + 1]]
      BY <3>1 DEF Shifted
    <3>3. incremental_target(new) = new + rows - 1
      BY <3>1 DEF incremental_target
    <3> HIDE DEF scr
    <3>4. ASSUME NEW y \in 0 .. rows - 1 PROVE Good(scr[y], Exp(m, new, cols, y), failed)
      <4>1. CASE y = rows - 1
        <5>1. incremental_target(new) + 0 = new + y
          BY <3>3, <4>1
        <5>2. row = Exp(m, new, cols, y)
          BY <5>1, ExpShift
        <5>3. QED
          BY <3>2, <4>1, <5>2 DEF Good
      <4>2. CASE y # rows - 1
        <5>1. scroll + (y + 1) = new + y /\ y + 1 \in 0 .. rows - 1
          BY <2>2, <4>2
        <5>2. Exp(m, scroll, cols, y + 1) = Exp(m, new, cols, y)
          BY <5>1, ExpShift
        <5>3. Good(screen[y + 1], Exp(m, scroll, cols, y + 1), failed)
          BY <2>1, <5>1
        <5>4. scr[y] = screen[y + 1]
          BY <3>2, <4>2
        <5>5. QED
          BY <5>2, <5>3, <5>4
      <4>3. QED
        BY <4>1, <4>2
    <3>5. IsScreen(scr, rows)
      BY <3>2 DEF IsScreen
    <3>6. Right(scr, m, new, cols, rows, failed)
      BY <3>4, <3>5 DEF Right
    <3>7. QED
      BY <3>6 DEF scr
  <2>3. CASE new = scroll - 1
    <3>1. ~(new > scroll)
      BY <2>3
    <3>2. scr = [y \in 0 .. (rows - 1) |-> IF y = 0 THEN row ELSE screen[y - 1]]
      BY <3>1 DEF Shifted
    <3>3. incremental_target(new) = new
      BY <3>1 DEF incremental_target
    <3> HIDE DEF scr
    <3>4. ASSUME NEW y \in 0 .. rows - 1 PROVE Good(scr[y], Exp(m, new, cols, y), failed)
      <4>1. CASE y = 0
        <5>1. row = Exp(m, new, cols, y)
          BY <3>3, <4>1
        <5>2. QED
          BY <3>2, <4>1, <5>1 DEF Good
      <4>2. CASE y # 0
        <5>1. scroll + (y - 1) = new + y /\ y - 1 \in 0 .. rows - 1
          BY <2>3, <4>2
        <5>2. Exp(m, scroll, cols, y - 1) = Exp(m, new, cols, y)
          BY <5>1, ExpShift
        <5>3. Good(screen[y - 1], Exp(m, scroll, cols, y - 1), failed)
          BY <2>1, <5>1
        <5>4. scr[y] = screen[y - 1]
          BY <3>2, <4>2
        <5>5. QED
          BY <5>2, <5>3, <5>4
      <4>3. QED
        BY <4>1, <4>2
    <3>5. IsScreen(scr, rows)
      BY <3>2 DEF IsScreen
    <3>6. Right(scr, m, new, cols, rows, failed)
      BY <3>4, <3>5 DEF Right
    <3>7. QED
      BY <3>6 DEF scr
  <2>4. QED
    BY <2>2, <2>3
<1>3. QED
  BY <1>1, <1>2

\* What the window is told to show after a step that leaves the reader reading.
Drawing == Right(screen, model, scroll, cols, rows, failed)
\* What the slices hold.
CachesRight == SlicesRight(slices) /\ RowsRight(row_slices)
\* The same of the state a step leads to.
NextShows ==
    /\ SlicesRight(slices') /\ RowsRight(row_slices')
    /\ (st' = "reading" /\ ~resized') => Right(screen', model', scroll', cols', rows', failed')

\* A key shows the layout where it moves to: by one row, by a frame, or by a frame after a failure.
LEMMA KeyShows ==
    ASSUME RdInv, CachesRight, st = "reading" /\ ~resized => Drawing, NEW key \in Keys, Key(key)
    PROVE  NextShows
<1> DEFINE new == key_action(key)
           K == Len(model.items)
           last == max_scroll(model, rows)
           at == incremental_target(new)
<1>1. ImagesOK /\ Shows(model, scroll, cols, rows, failed) /\ st = "reading"
      /\ Sound(slices, LRU_CAP) /\ Sound(row_slices, ROW_SLICE_LRU_CAP)
  BY DEF RdInv, Opened, Window, CachesSound, Key
<1>2. new \in 0 .. last
  BY <1>1, KeyTarget
<1>3. /\ K \in Nat \ {0} /\ last = (IF K >= rows THEN K - rows ELSE 0) /\ rows \in Nat \ {0}
      /\ scroll \in 0 .. last /\ cols \in Nat
  <2>1. Orderly(model) /\ rows \in Nat \ {0}
    BY <1>1, ShowsOrderly DEF Shows
  <2>2. QED
    BY <1>1, <2>1, ScrollMax DEF Shows, Orderly
<1>4. resized' = resized
  BY DEF Key
<1>5. ~resized' => tty = <<cols, rows>> /\ Drawing
  BY <1>1, <1>4 DEF RdInv, Learnt
<1>6. new # scroll
  BY DEF Key
<1>7. PICK b \in SUBSET failed : model = build_model(cols, b)
  BY <1>1 DEF Shows
<1>8. CASE ~(new - scroll \in {-1, 1})
  <2>1. Frame(model, new, cols, rows, failed) /\ row_slices' = row_slices
    BY <1>8 DEF Key
  <2>2. Shows(model, new, cols, rows, failed)
    BY <1>1, <1>2 DEF Shows
  <2> HIDE DEF new
  <2>3. /\ SlicesRight(slices')
        /\ (st' = "reading" /\ tty = <<cols, rows>>) => Right(screen', model', scroll', cols', rows', failed')
    BY <1>1, <2>1, <2>2, FrameShows DEF CachesRight
  <2>4. QED
    BY <1>5, <2>1, <2>3 DEF NextShows, CachesRight
<1>9. CASE new - scroll \in {-1, 1}
  <2> DEFINE item == model.items[at + 1]
             i    == item[2]
             a    == images[i]
             wpx  == block_geometry(a, cols).wpx
             off  == at - model.block_row[i]
             res  == row_payload(a, wpx, off, row_slices)
             bad  == failed \cup {a.asset}
             m    == build_model(cols, bad)
             s    == Target(m, anchor_line(model, new), rows)
             strip == Strip(res.val, res.val.y0, res.val.y1)
  <2>1. draw_incremental_scroll(new)
    BY <1>9 DEF Key
  <2>2. at \in Nat /\ at < K /\ ~(at >= K) /\ new \in Nat /\ new \in {scroll - 1, scroll + 1}
    <3>1. at = IF new > scroll THEN new + rows - 1 ELSE new
      BY DEF incremental_target
    <3> HIDE DEF new, at, K, last
    <3>2. QED
      BY <1>2, <1>3, <1>9, <3>1
  <2>a. scroll \in Nat
    <3> HIDE DEF last, K
    <3>1. QED
      BY <1>3
  <2>3. CASE item[1] # "image"
    <3>1. /\ scroll' = new /\ screen' = Shifted(new, item)
          /\ UNCHANGED <<st, cols, rows, model, failed, slices, row_slices>>
      BY <2>1, <2>2, <2>3 DEF draw_incremental_scroll
    <3>2. item = Exp(model, at, cols, 0)
      <4>1. at + 0 = at
        BY <2>2
      <4> HIDE DEF at
      <4>2. QED
        BY <2>2, <2>3, <4>1 DEF Exp
    <3>3. ~resized' => Right(Shifted(new, item), model, new, cols, rows, failed)
      <4> HIDE DEF new, item
      <4>1. QED
        BY <1>3, <1>5, <2>2, <2>a, <3>2, ShiftShows DEF Drawing
    <3> HIDE DEF new, item
    <3>4. QED
      BY <3>1, <3>3 DEF NextShows, CachesRight
  <2>4. CASE item[1] = "image"
    <3>0. i \in DOMAIN images
      <4> HIDE DEF at
      <4>1. QED
        BY <1>1, <1>3, <1>7, <2>2, <2>4, ImageRow
    <3>1. /\ row_slices' = res.cache
          /\ IF res.ok
             THEN /\ scroll' = new
                  /\ screen' = Shifted(new, strip)
                  /\ UNCHANGED <<st, cols, rows, model, failed, slices>>
             ELSE Frame(m, Min({scroll_to_line(m, anchor_line(model, new)), max_scroll(m, rows)}),
                        cols, rows, bad)
      BY <2>1, <2>2, <2>4 DEF draw_incremental_scroll
    <3>2. /\ RowsRight(res.cache)
          /\ res.ok => res.val = Payload(a, wpx, slice_window(display_height(a, wpx), off, 1))
      <4>1. CacheSeq(row_slices) /\ RowsRight(row_slices)
        BY <1>1 DEF Sound, CachesRight
      <4> HIDE DEF wpx, off, i
      <4>2. QED
        BY <1>1, <3>0, <4>1, RowPayloadRight
    <3>3. CASE res.ok
      <4>1. strip = StripAt(i, cols, off)
        <5> DEFINE p == res.val
        <5>1. RowOf(model, cols, at, i, wpx, p)
          BY <2>2, <2>4, <3>2, <3>3 DEF RowOf
        <5> HIDE DEF p, res, wpx, at, i, K
        <5>2. cols \in Nat
          BY <1>3
        <5>3. Strip(p, p.y0, p.y1) = StripAt(i, cols, at - model.block_row[i])
          BY <1>1, <1>7, <5>1, <5>2, RowShows
        <5>4. QED
          BY <5>3 DEF p
      <4>2. Exp(model, at, cols, 0) = StripAt(i, cols, off)
        <5>1. at + 0 = at
          BY <2>2
        <5>2. Exp(model, at, cols, 0)
                = IF at + 0 >= Len(model.items) THEN Blank
                  ELSE IF model.items[at + 0 + 1][1] # "image" THEN model.items[at + 0 + 1]
                  ELSE StripAt(model.items[at + 0 + 1][2], cols, (at + 0) - model.block_row[model.items[at + 0 + 1][2]])
          BY Zenon DEF Exp
        <5> HIDE DEF at
        <5>3. QED
          BY <2>2, <2>4, <5>1, <5>2
      <4>3. ~resized' => Right(Shifted(new, strip), model, new, cols, rows, failed)
        <5> HIDE DEF new, strip, off, i
        <5>1. QED
          BY <1>3, <1>5, <2>2, <2>a, <4>1, <4>2, ShiftShows DEF Drawing
      <4> HIDE DEF new, strip, res
      <4>4. QED
        BY <3>1, <3>2, <3>3, <4>3 DEF NextShows, CachesRight
    <3>4. CASE ~res.ok
      <4>1. Frame(m, s, cols, rows, bad) /\ row_slices' = res.cache
        BY <3>1, <3>4 DEF Target
      <4>2. Shows(m, s, cols, rows, bad)
        <5>1. Orderly(m)
          BY <1>1, <1>3, ModelOrder
        <5> HIDE DEF m, bad
        <5>2. s \in 0 .. max_scroll(m, rows)
          BY <1>3, <5>1, TargetInside
        <5>3. QED
          BY <1>3, <5>2 DEF Shows, m
      <4> HIDE DEF m, s, bad, res
      <4>3. /\ SlicesRight(slices')
            /\ (st' = "reading" /\ tty = <<cols, rows>>) => Right(screen', model', scroll', cols', rows', failed')
        BY <1>1, <4>1, <4>2, FrameShows DEF CachesRight
      <4>4. QED
        BY <1>5, <3>2, <4>1, <4>3 DEF NextShows
    <3>5. QED
      BY <3>3, <3>4
  <2>5. QED
    BY <2>3, <2>4
<1>10. QED
  BY <1>8, <1>9

-----------------------------------------------------------------------------
(* The screen shows the article.                                             *)

\* The slices are right,
SlicesKept == SlicesRight(slices)
\* those of one row are,
RowSlicesKept == RowsRight(row_slices)
\* and the screen is, once the size is known.
ScreenKept ==
    st = "reading" /\ ~resized =>
        \E scr \in {screen}, m \in {model}, s \in {scroll}, c \in {cols}, r \in {rows}, bad \in {failed} :
            Right(scr, m, s, c, r, bad)
\* The inductive invariant.
ScreenInv == RdInv /\ SlicesKept /\ RowSlicesKept /\ ScreenKept

\* What is expected is the same while the article and the cell size are,
LEMMA SameExp ==
    ASSUME UNCHANGED <<images, cell>>, NEW m, NEW s, NEW c, NEW y
    PROVE  Exp(m, s, c, y)' = Exp(m, s, c, y)
<1>1. images' = images /\ cell' = cell
  OBVIOUS
<1>2. QED
  BY <1>1, ZenonT(60) DEF Exp, StripAt, block_geometry, display_height

\* so is what is right on the screen,
LEMMA SameRight ==
    ASSUME UNCHANGED <<images, cell>>, NEW scr, NEW m, NEW s, NEW c, NEW r, NEW bad, Right(scr, m, s, c, r, bad)
    PROVE  Right(scr, m, s, c, r, bad)'
<1>1. images' = images
  OBVIOUS
<1>2. Degraded(m, bad)' <=> Degraded(m, bad)
  BY <1>1 DEF Degraded
<1>3. \A y \in 0 .. r - 1 : Exp(m, s, c, y)' = Exp(m, s, c, y)
  BY SameExp
<1>4. IsScreen(scr, r)' <=> IsScreen(scr, r)
  BY DEF IsScreen
<1>5. QED
  BY <1>2, <1>3, <1>4 DEF Right, Good

\* and in the slices.
LEMMA SameSlices ==
    ASSUME UNCHANGED <<images, kind, cell>>, NEW c
    PROVE  (SlicesRight(c) => SlicesRight(c)') /\ (RowsRight(c) => RowsRight(c)')
<1>1. images' = images /\ kind' = kind /\ cell' = cell
  OBVIOUS
<1>2. SlicesRight(c) => SlicesRight(c)'
  BY <1>1 DEF SlicesRight, Genuine
<1>3. ASSUME NEW e PROVE RowGenuine(e)' <=> RowGenuine(e)
  BY <1>1, ZenonT(60) DEF RowGenuine, Payload, slice_window, display_height
<1>4. RowsRight(c) => RowsRight(c)'
  BY <1>3 DEF RowsRight
<1>5. QED
  BY <1>2, <1>4

\* From what a step does to the invariant after it.
LEMMA NextKept ==
    ASSUME RdInv', UNCHANGED <<images, kind, cell>>, NextShows
    PROVE  ScreenInv'
<1>1. images' = images /\ kind' = kind /\ cell' = cell
  OBVIOUS
<1>2. SlicesKept'
  <2>1. \A c \in {slices'} : SlicesRight(c) => SlicesRight(c)'
    BY SameSlices
  <2>2. \A c \in {slices'} : SlicesRight(c)'
    BY <2>1 DEF NextShows
  <2>3. QED
    BY <2>2 DEF SlicesKept, SlicesRight
<1>3. RowSlicesKept'
  <2>1. \A c \in {row_slices'} : RowsRight(c) => RowsRight(c)'
    BY SameSlices
  <2>2. \A c \in {row_slices'} : RowsRight(c)'
    BY <2>1 DEF NextShows
  <2>3. QED
    BY <2>2 DEF RowSlicesKept, RowsRight
<1>4. ScreenKept'
  <2> SUFFICES ASSUME st' = "reading", ~resized'
               PROVE  \E scr \in {screen'}, m \in {model'}, s \in {scroll'}, c \in {cols'}, r \in {rows'},
                         bad \in {failed'} : Right(scr, m, s, c, r, bad)'
    BY DEF ScreenKept
  <2>1. \E scr \in {screen'}, m \in {model'}, s \in {scroll'}, c \in {cols'}, r \in {rows'}, bad \in {failed'} :
           Right(scr, m, s, c, r, bad)
    BY DEF NextShows
  <2>2. QED
    BY <2>1, SameRight
<1>5. QED
  BY <1>2, <1>3, <1>4 DEF ScreenInv

\* Steps that leave the window and the slices.
LEMMA StillShows ==
    ASSUME ScreenInv, UNCHANGED <<slices, row_slices>>,
           st' = "reading" /\ ~resized' => /\ st = "reading" /\ ~resized
                                           /\ UNCHANGED <<screen, model, scroll, cols, rows, failed>>
    PROVE  NextShows
<1>1. SlicesRight(slices') /\ RowsRight(row_slices')
  BY DEF ScreenInv, SlicesKept, RowSlicesKept
<1>2. st = "reading" /\ ~resized => Right(screen, model, scroll, cols, rows, failed)
  BY DEF ScreenInv, ScreenKept
<1>3. QED
  BY <1>1, <1>2 DEF NextShows

\* Before the command nothing is cached.
LEMMA ScreenStart == Init => ScreenInv
<1> SUFFICES ASSUME Init PROVE ScreenInv
  OBVIOUS
<1>1. RdInv
  BY RdInit
<1>2. st = "shell" /\ slices = <<>> /\ row_slices = <<>>
  BY DEF Init
<1>3. Range(<<>>) = {}
  BY DEF Range
<1>4. QED
  BY <1>1, <1>2, <1>3 DEF ScreenInv, SlicesKept, RowSlicesKept, ScreenKept, SlicesRight, RowsRight

\* The first frame shows the top of the article.
LEMMA RunTuiShows ==
    ASSUME ScreenInv, run_tui
    PROVE  NextShows
<1>1. ImagesOK /\ SlicesRight(slices) /\ RowsRight(row_slices) /\ Sound(slices, LRU_CAP) /\ tty \in Sizes
  BY DEF ScreenInv, SlicesKept, RowSlicesKept, RdInv, Opened, CachesSound, World, run_tui
<1>2. CASE tty[1] < MIN_COLS
  <2>1. st' = "handoff" /\ slices' = slices /\ row_slices' = row_slices
    BY <1>2 DEF run_tui, view
  <2>2. QED
    BY <2>1, StillShows
<1>3. CASE ~(tty[1] < MIN_COLS)
  <2> DEFINE m == build_model(tty[1], {})
  <2>1. Frame(m, 0, tty[1], tty[2], {}) /\ row_slices' = row_slices
    BY <1>3 DEF run_tui
  <2>2. tty[1] \in Nat /\ tty[2] \in Nat \ {0} /\ tty = <<tty[1], tty[2]>>
    BY <1>1, SizeFacts
  <2>3. Shows(m, 0, tty[1], tty[2], {})
    <3>1. Orderly(m)
      BY <1>1, <2>2, ModelOrder
    <3>2. max_scroll(m, tty[2]) \in Nat
      BY <2>2, <3>1, ScrollMax
    <3>3. {} \in SUBSET {}
      OBVIOUS
    <3>4. QED
      BY <2>2, <3>2, <3>3 DEF Shows
  <2> HIDE DEF m
  <2>4. /\ SlicesRight(slices')
        /\ (st' = "reading" /\ tty = <<tty[1], tty[2]>>) => Right(screen', model', scroll', cols', rows', failed')
    BY <1>1, <2>1, <2>3, FrameShows
  <2>5. QED
    BY <1>1, <2>1, <2>2, <2>4 DEF NextShows
<1>4. QED
  BY <1>2, <1>3

\* So does the frame after a resize, from its new row on.
LEMMA ResizeShows ==
    ASSUME ScreenInv, Resize
    PROVE  NextShows
<1>1. /\ ImagesOK /\ Shows(model, scroll, cols, rows, failed)
      /\ SlicesRight(slices) /\ RowsRight(row_slices) /\ Sound(slices, LRU_CAP) /\ tty \in Sizes
  BY DEF ScreenInv, SlicesKept, RowSlicesKept, RdInv, Opened, Window, CachesSound, World, Resize
<1>2. CASE tty[1] < MIN_COLS
  <2>1. st' = "handoff" /\ slices' = slices /\ row_slices' = row_slices
    BY <1>2 DEF Resize, view
  <2>2. QED
    BY <2>1, StillShows
<1>3. CASE ~(tty[1] < MIN_COLS)
  <2> DEFINE m == IF tty[1] # cols THEN build_model(tty[1], failed) ELSE model
             s == ResizedScroll(m)
  <2>1. Frame(m, s, tty[1], tty[2], failed) /\ row_slices' = row_slices
    BY <1>3 DEF Resize
  <2>2. tty[1] \in Nat /\ tty[2] \in Nat \ {0} /\ tty = <<tty[1], tty[2]>>
    BY <1>1, SizeFacts
  <2>3. Shows(m, s, tty[1], tty[2], failed)
    BY <1>1, <2>2, ResizedShows
  <2> HIDE DEF m, s
  <2>4. /\ SlicesRight(slices')
        /\ (st' = "reading" /\ tty = <<tty[1], tty[2]>>) => Right(screen', model', scroll', cols', rows', failed')
    BY <1>1, <2>1, <2>3, FrameShows
  <2>5. QED
    BY <1>1, <2>1, <2>2, <2>4 DEF NextShows
<1>4. QED
  BY <1>2, <1>3

\* The invariant is inductive.
LEMMA ScreenStep == ScreenInv /\ [Next]_vars => ScreenInv'
<1> SUFFICES ASSUME ScreenInv, [Next]_vars PROVE ScreenInv'
  OBVIOUS
<1>1. RdInv'
  BY RdStep DEF ScreenInv
<1>2. UNCHANGED <<images, kind, cell>> /\ NextShows
  <2>1. CASE UNCHANGED vars
    BY <2>1, StillShows DEF vars
  <2>2. CASE \E capable \in BOOLEAN : try_run(capable)
    <3>1. PICK capable \in BOOLEAN : try_run(capable)
      BY <2>2
    <3>2. UNCHANGED <<images, kind, cell, slices, row_slices>> /\ st' # "reading"
      BY <3>1 DEF try_run, fixed, view
    <3>3. QED
      BY <3>2, StillShows
  <2>3. CASE run_tui
    <3>1. UNCHANGED <<images, kind, cell>>
      BY <2>3 DEF run_tui, fixed
    <3>2. QED
      BY <2>3, <3>1, RunTuiShows
  <2>4. CASE \E size \in Sizes : TerminalResized(size)
    <3>1. PICK size \in Sizes : TerminalResized(size)
      BY <2>4
    <3>2. UNCHANGED <<images, kind, cell, slices, row_slices, st>> /\ resized' = (st = "reading")
      BY <3>1 DEF TerminalResized
    <3>3. QED
      BY <3>2, StillShows
  <2>5. CASE \E key \in Keys : Key(key)
    <3>1. PICK key \in Keys : Key(key)
      BY <2>5
    <3>2. UNCHANGED <<images, kind, cell>>
      BY <3>1 DEF Key, fixed
    <3>3. RdInv /\ CachesRight /\ (st = "reading" /\ ~resized => Drawing)
      BY DEF ScreenInv, CachesRight, SlicesKept, RowSlicesKept, ScreenKept, Drawing
    <3>4. QED
      BY <3>1, <3>2, <3>3, KeyShows
  <2>6. CASE Resize
    <3>1. UNCHANGED <<images, kind, cell>>
      BY <2>6 DEF Resize, fixed
    <3>2. QED
      BY <2>6, <3>1, ResizeShows
  <2>7. CASE Quit
    <3>1. UNCHANGED <<images, kind, cell, slices, row_slices>> /\ st' # "reading"
      BY <2>7 DEF Quit, fixed, view
    <3>2. QED
      BY <3>1, StillShows
  <2>8. QED
    BY <2>1, <2>2, <2>3, <2>4, <2>5, <2>6, <2>7 DEF Next
<1>3. QED
  BY <1>1, <1>2, NextKept

\* Whatever mixture of one-row scrolls, frames, resizes and cache hits led here, for
\* every article, terminal and limit, each row of the screen shows its row of the model:
\* draw_incremental_scroll agrees with draw_frame, and a slice found in a cache is the
\* one that would have been made.  Excluded is what the property excludes.
THEOREM ScreenAlwaysShowsArticle == Spec => []ScreenShowsArticle
<1>1. ScreenInv => ScreenShowsArticle
  <2> SUFFICES ASSUME ScreenInv, st = "reading", ~resized, ~DegradedInPlace, NEW y \in 0 .. rows - 1
               PROVE  screen[y] = Expected(y) \/ (failed # {} /\ screen[y] = Anything)
    BY DEF ScreenShowsArticle
  <2>1. Right(screen, model, scroll, cols, rows, failed)
    BY DEF ScreenInv, ScreenKept
  <2>2. ~Degraded(model, failed)
    BY DEF DegradedInPlace, Degraded
  <2>3. Good(screen[y], Exp(model, scroll, cols, y), failed)
    BY <2>1, <2>2 DEF Right
  <2>4. Expected(y) = Exp(model, scroll, cols, y)
    BY Zenon DEF Expected, Exp, StripAt
  <2>5. QED
    BY <2>3, <2>4 DEF Good
<1>2. Spec => []ScreenInv
  BY ScreenStart, ScreenStep, PTL DEF Spec
<1>3. QED
  BY <1>1, <1>2, PTL
=============================================================================
