------------------------- MODULE PeerworkCopyProofs --------------------------
(***************************************************************************)
(* The copies of a job, in the queue, in messages and on threads, for any  *)
(* number of peers, jobs and messages: no job is lost while no process     *)
(* ends and no message is lost (JobsAreNotLost), none is handed out twice  *)
(* before the first one times out (JobsAreHandedOutOnce), until then the   *)
(* owner has on record who is at work (WorkersAreOnRecord), and a job that *)
(* is lost elsewhere times out, whatever ends or is lost                   *)
(* (LostJobsAreNoticed).                                                   *)
(***************************************************************************)
EXTENDS PeerworkCountProofs, SequenceTheorems

-----------------------------------------------------------------------------
(* The copies of a job. *)

\* As many as are ones add up to.
LEMMA SumOfSome ==
    ASSUME NEW S, IsFiniteSet(S), NEW f, \A x \in S : f[x] \in {0, 1}
    PROVE  SumFunctionOnSet(f, S) = Cardinality({x \in S : f[x] = 1})
<1> DEFINE T == {x \in S : f[x] = 1}
<1>1. T \in SUBSET S /\ IsFiniteSet(T)
  BY FS_Subset
<1>2. \A x \in S : f[x] \in Int /\ (x \notin T => f[x] = 0)
  OBVIOUS
<1>3. \A x \in T : f[x] = 1
  OBVIOUS
<1> HIDE DEF T
<1>4. SumFunctionOnSet(f, S) = SumFunctionOnSet(f, T)
  BY <1>1, <1>2, SumWithin
<1>5. SumFunctionOnSet(f, T) = Cardinality(T)
  BY <1>1, <1>3, SumOfOnes
<1> QED
  BY <1>4, <1>5 DEF T

\* A set keeps its size when its elements change their names.
LEMMA ImageCount ==
    ASSUME NEW S, IsFiniteSet(S), NEW b, \A x, y \in S : b[x] = b[y] => x = y
    PROVE  LET T == {b[x] : x \in S} IN IsFiniteSet(T) /\ Cardinality(T) = Cardinality(S)
<1> DEFINE T == {b[x] : x \in S}
           one == [x \in S |-> 1]
           ones == [y \in T |-> 1]
<1>1. IsFiniteSet(T)
  BY ImageIsFinite
<1>2. \A x \in S : one[x] = 1 /\ b[x] \in T
  OBVIOUS
<1>3. \A y \in T : ones[y] = 1
  OBVIOUS
<1>4. Renames(b, S, one, ones)
  <2> HIDE DEF one, ones, T
  <2> QED
    BY <1>2, <1>3 DEF Renames
<1> HIDE DEF one, ones
<1>5. SumFunctionOnSet(ones, T) = SumFunctionOnSet(one, S)
  BY <1>4, SumRenamed
<1> HIDE DEF T
<1>6. SumFunctionOnSet(ones, T) = Cardinality(T) /\ SumFunctionOnSet(one, S) = Cardinality(S)
  BY <1>1, <1>2, <1>3, SumOfOnes
<1> QED
  BY <1>1, <1>5, <1>6 DEF T

QueuedIn(s, j) == Cardinality({i \in DOMAIN s : s[i] = j})

LEMMA QueuedInType ==
    ASSUME NEW s \in Seq(JobIds), NEW j
    PROVE  /\ IsFiniteSet({i \in DOMAIN s : s[i] = j})
           /\ QueuedIn(s, j) \in Nat
           /\ QueuedIn(s, j) >= 1 <=> j \in Range(s)
<1> DEFINE T == {i \in DOMAIN s : s[i] = j}
<1>1. IsFiniteSet(DOMAIN s)
  <2>1. PICK n \in Nat : DOMAIN s = 1..n
    OBVIOUS
  <2> QED
    BY <2>1, FS_Interval
<1>2. IsFiniteSet(T)
  BY <1>1, FS_Subset
<1>3. Cardinality(T) \in Nat /\ (Cardinality(T) = 0 <=> T = {})
  BY <1>2, FS_CardinalityType, FS_EmptySet
<1>4. T # {} <=> j \in Range(s)
  BY DEF Range
<1> HIDE DEF T
<1>5. QueuedIn(s, j) = Cardinality(T)
  BY DEF QueuedIn, T
<1> QED
  BY <1>2, <1>3, <1>4, <1>5 DEF T

LEMMA QueuedInConcat ==
    ASSUME NEW s \in Seq(JobIds), NEW t \in Seq(JobIds), NEW j
    PROVE  QueuedIn(s \o t, j) = QueuedIn(s, j) + QueuedIn(t, j)
<1> DEFINE u == s \o t
           A == {i \in DOMAIN s : s[i] = j}
           B == {i \in DOMAIN t : t[i] = j}
           C == {i \in DOMAIN u : u[i] = j}
           b == [i \in DOMAIN t |-> i + Len(s)]
           late == {b[i] : i \in B}
<1>1. Len(s) \in Nat /\ Len(t) \in Nat
  OBVIOUS
<1>2. DOMAIN s = 1..Len(s) /\ DOMAIN t = 1..Len(t) /\ DOMAIN u = 1..(Len(s) + Len(t))
  OBVIOUS
<1>3. (\A i \in DOMAIN s : u[i] = s[i]) /\ (\A i \in DOMAIN t : u[i + Len(s)] = t[i])
  BY <1>1, <1>2
<1>4. IsFiniteSet(A) /\ IsFiniteSet(B)
  BY QueuedInType
<1>5. \A i \in B : b[i] = i + Len(s) /\ i \in 1..Len(t) /\ t[i] = j
  BY <1>2
<1>6. IsFiniteSet(late) /\ Cardinality(late) = Cardinality(B)
  <2>1. \A x, y \in B : b[x] = b[y] => x = y
    BY <1>1, <1>5
  <2> HIDE DEF b, B
  <2> QED
    BY <1>4, <2>1, ImageCount
<1> HIDE DEF u
<1>7. C = A \cup late
  <2>1. ASSUME NEW i \in C
        PROVE  i \in A \/ i \in late
    <3>1. CASE i \in DOMAIN s
      BY <1>3, <3>1
    <3>2. CASE i \notin DOMAIN s
      <4>1. i - Len(s) \in DOMAIN t /\ (i - Len(s)) + Len(s) = i
        BY <1>1, <1>2, <3>2
      <4>2. i - Len(s) \in B /\ b[i - Len(s)] = i
        BY <1>3, <4>1
      <4> QED
        BY <4>2
    <3> QED
      BY <3>1, <3>2
  <2>2. A \subseteq C
    BY <1>1, <1>2, <1>3
  <2>3. ASSUME NEW i \in B
        PROVE  b[i] \in C
    <3>1. i + Len(s) \in DOMAIN u /\ u[i + Len(s)] = j
      BY <1>1, <1>2, <1>3, <1>5
    <3> QED
      BY <1>5, <3>1
  <2> QED
    BY <2>1, <2>2, <2>3
<1>8. A \cap late = {}
  <2>1. \A i \in A : i \in 1..Len(s)
    BY <1>2
  <2>2. \A i \in B : b[i] \notin 1..Len(s)
    BY <1>1, <1>5
  <2> QED
    BY <2>1, <2>2
<1> HIDE DEF A, B, C, late
<1>9. Cardinality(C) = Cardinality(A) + Cardinality(B)
  BY <1>4, <1>6, <1>7, <1>8, DisjointUnion
<1> QED
  BY <1>9 DEF QueuedIn, A, B, C, u

LEMMA QueuedInOne ==
    ASSUME NEW k \in JobIds, NEW j
    PROVE  QueuedIn(<<k>>, j) = IF j = k THEN 1 ELSE 0
<1>1. {i \in DOMAIN <<k>> : <<k>>[i] = j} = IF j = k THEN {1} ELSE {}
  OBVIOUS
<1> QED
  BY <1>1, FS_Singleton, FS_EmptySet DEF QueuedIn

\* The jobs handed out and those that remain.
LEMMA QueuedInParts ==
    ASSUME TypeOK, NEW p \in Peers, NEW n \in 0..Len(queue[p]), NEW j
    PROVE  QueuedIn(queue[p], j) = QueuedIn(SubSeq(queue[p], 1, n), j) + QueuedIn(Remaining(p, n), j)
<1> DEFINE s == queue[p]
           a == SubSeq(queue[p], 1, n)
           r == Remaining(p, n)
<1>1. a \in Seq(JobIds) /\ r \in Seq(JobIds) /\ s \in Seq(JobIds)
  BY HandedType DEF TypeOK
<1>2. s = a \o r
  <2>1. a = SubSeq(s, 1, n) /\ r = SubSeq(s, n+1, Len(s)) /\ n \in 0..Len(s)
    BY DEF Remaining
  <2> HIDE DEF s, a, r
  <2>2. 1 \in 1..(Len(s) + 1) /\ n \in (1 - 1)..Len(s) /\ Len(s) \in n..Len(s)
    BY <1>1, <2>1
  <2>3. SubSeq(s, 1, n) \o SubSeq(s, n+1, Len(s)) = SubSeq(s, 1, Len(s))
    BY <1>1, <2>2, ConcatAdjacentSubSeq
  <2>4. SubSeq(s, 1, Len(s)) = s
    BY <1>1, SubSeqFull
  <2> QED
    BY <2>1, <2>3, <2>4
<1> HIDE DEF s, a, r
<1>3. QueuedIn(s, j) = QueuedIn(a, j) + QueuedIn(r, j)
  BY <1>1, <1>2, QueuedInConcat
<1> QED
  BY <1>3 DEF s, a, r

AtWork(ex, o, j) == Cardinality({i \in DOMAIN ex : ex[i].owner = o /\ ex[i].id = j})

\* How many threads of all peers are at work on job j of o.
WorkCount(E, o, j) == SumFunction([q \in Peers |-> AtWork(E[q], o, j)])

LEMMA AtWorkType ==
    ASSUME NEW ex, IsFiniteSet(DOMAIN ex), NEW o, NEW j
    PROVE  /\ AtWork(ex, o, j) \in Nat
           /\ \A i \in DOMAIN ex : ex[i].owner = o /\ ex[i].id = j => AtWork(ex, o, j) >= 1
<1> DEFINE T == {i \in DOMAIN ex : ex[i].owner = o /\ ex[i].id = j}
<1>1. IsFiniteSet(T)
  BY FS_Subset
<1>2. \A i \in DOMAIN ex : ex[i].owner = o /\ ex[i].id = j => T # {}
  OBVIOUS
<1> HIDE DEF T
<1>3. Cardinality(T) \in Nat /\ (T # {} => Cardinality(T) >= 1)
  BY <1>1, FS_CardinalityType, FS_EmptySet
<1>4. AtWork(ex, o, j) = Cardinality(T)
  BY DEF AtWork, T
<1> QED
  BY <1>2, <1>3, <1>4

\* Of the jobs in progress only their owners and ids count.
LEMMA AtWorkSame ==
    ASSUME NEW ex, NEW fx, DOMAIN fx = DOMAIN ex, NEW o, NEW j,
           \A i \in DOMAIN ex : fx[i].owner = ex[i].owner /\ fx[i].id = ex[i].id
    PROVE  AtWork(fx, o, j) = AtWork(ex, o, j)
<1>1. {i \in DOMAIN fx : fx[i].owner = o /\ fx[i].id = j} =
        {i \in DOMAIN ex : ex[i].owner = o /\ ex[i].id = j}
  OBVIOUS
<1> QED
  BY <1>1 DEF AtWork

\* Job i of fx is not in ex.
LEMMA AtWorkJoined ==
    ASSUME NEW ex, IsFiniteSet(DOMAIN ex), NEW i, i \notin DOMAIN ex, NEW fx,
           DOMAIN fx = DOMAIN ex \cup {i}, \A k \in DOMAIN ex : fx[k] = ex[k], NEW o, NEW j
    PROVE  AtWork(fx, o, j) =
             AtWork(ex, o, j) + (IF fx[i].owner = o /\ fx[i].id = j THEN 1 ELSE 0)
<1> DEFINE A == {k \in DOMAIN ex : ex[k].owner = o /\ ex[k].id = j}
           B == {k \in DOMAIN fx : fx[k].owner = o /\ fx[k].id = j}
<1>1. IsFiniteSet(A)
  BY FS_Subset
<1>2. i \notin A /\ B = IF fx[i].owner = o /\ fx[i].id = j THEN A \cup {i} ELSE A
  OBVIOUS
<1> HIDE DEF A, B
<1>3. Cardinality(A \cup {i}) = Cardinality(A) + 1 /\ Cardinality(A) \in Nat
  BY <1>1, <1>2, FS_AddElement, FS_CardinalityType
<1>4. AtWork(ex, o, j) = Cardinality(A) /\ AtWork(fx, o, j) = Cardinality(B)
  BY DEF AtWork, A, B
<1> QED
  BY <1>2, <1>3, <1>4

LEMMA WorkCountType ==
    ASSUME NEW E, \A q \in Peers : IsFiniteSet(DOMAIN E[q]), NEW o, NEW j
    PROVE  /\ WorkCount(E, o, j) \in Nat
           /\ \A q \in Peers : AtWork(E[q], o, j) <= WorkCount(E, o, j) /\ AtWork(E[q], o, j) \in Nat
<1> DEFINE f == [q \in Peers |-> AtWork(E[q], o, j)]
<1>1. \A q \in Peers : f[q] \in Nat /\ f[q] = AtWork(E[q], o, j)
  BY AtWorkType
<1>2. WorkCount(E, o, j) = SumFunctionOnSet(f, Peers)
  BY DEF WorkCount, SumFunction
<1> HIDE DEF f
<1>3. SumFunctionOnSet(f, Peers) \in Nat /\ \A q \in Peers : f[q] <= SumFunctionOnSet(f, Peers)
  BY <1>1, PeersAssumption, SumNat
<1> QED
  BY <1>1, <1>2, <1>3

\* Only the threads of p change.
LEMMA WorkCountChange ==
    ASSUME NEW E, \A q \in Peers : IsFiniteSet(DOMAIN E[q]),
           NEW F, \A q \in Peers : IsFiniteSet(DOMAIN F[q]),
           NEW o, NEW j, NEW p \in Peers,
           \A q \in Peers : q # p => AtWork(F[q], o, j) = AtWork(E[q], o, j)
    PROVE  WorkCount(F, o, j) = WorkCount(E, o, j) + AtWork(F[p], o, j) - AtWork(E[p], o, j)
<1> DEFINE f == [q \in Peers |-> AtWork(E[q], o, j)]
           g == [q \in Peers |-> AtWork(F[q], o, j)]
<1>1. \A q \in Peers : AtWork(E[q], o, j) \in Int /\ AtWork(F[q], o, j) \in Int
  BY AtWorkType
<1>2. \A q \in Peers : f[q] = AtWork(E[q], o, j) /\ g[q] = AtWork(F[q], o, j)
  OBVIOUS
<1>3. WorkCount(E, o, j) = SumFunctionOnSet(f, Peers) /\ WorkCount(F, o, j) = SumFunctionOnSet(g, Peers)
  BY DEF WorkCount, SumFunction
<1> HIDE DEF f, g
<1>4. \A q \in Peers : f[q] \in Int /\ g[q] \in Int /\ (q # p => g[q] = f[q])
  BY <1>1, <1>2
<1>5. SumFunctionOnSet(g, Peers) = SumFunctionOnSet(f, Peers) + g[p] - f[p]
  BY <1>4, PeersAssumption, SumChange
<1> QED
  BY <1>2, <1>3, <1>5

CarryWeight(o, j) == [m \in Incoming |-> IF Carries(o, j, m) THEN 1 ELSE 0]

LEMMA CarryWeightType ==
    ASSUME NEW o, NEW j
    PROVE  /\ NoDebt(CarryWeight(o, j)) /\ Weight(CarryWeight(o, j))
           /\ \A m \in Incoming : CarryWeight(o, j)[m] = IF Carries(o, j, m) THEN 1 ELSE 0
BY DEF NoDebt, Weight, CarryWeight

\* Copies, by where they are.
Copied(o, j) ==
    QueuedIn(queue[o], j) + Load(CarryWeight(o, j), net, posted) + WorkCount(executing, o, j)

LEMMA CopiedParts ==
    ASSUME NEW s \in Seq(JobIds), NEW N, NEW P, MailOf(N, P),
           NEW E, \A q \in Peers : IsFiniteSet(DOMAIN E[q]), NEW o, NEW j
    PROVE  /\ QueuedIn(s, j) \in Nat
           /\ Load(CarryWeight(o, j), N, P) \in Nat
           /\ WorkCount(E, o, j) \in Nat
BY QueuedInType, CarryWeightType, LoadIsNat, WorkCountType

LEMMA CopiesAreCopied ==
    ASSUME TypeOK, NetFinite, NEW o \in Peers, NEW j \in JobIds
    PROVE  Copies(o, j) = Copied(o, j)
<1> DEFINE w == CarryWeight(o, j)
           f == [m \in DOMAIN net |-> IF Carries(o, j, m) THEN net[m] ELSE 0]
           g == [m \in DOMAIN net |-> net[m] * w[m]]
           h == [i \in DOMAIN posted[o] |-> w[posted[o][i]]]
<1>1. MailOf(net, posted) /\ Weight(w)
  BY MailType, CarryWeightType
<1>2. SumFunction(f) = BagWeight(w, net)
  <2>1. IsFiniteSet(DOMAIN net) /\ \A m \in DOMAIN net : net[m] \in Nat /\ m \in Incoming
    BY <1>1 DEF MailOf, BagOf, IsABag
  <2>2. \A m \in DOMAIN net : w[m] = IF Carries(o, j, m) THEN 1 ELSE 0
    BY <2>1, CarryWeightType
  <2>3. \A m \in DOMAIN net : /\ f[m] = IF Carries(o, j, m) THEN net[m] ELSE 0
                              /\ g[m] = net[m] * w[m]
    OBVIOUS
  <2>4. SumFunction(f) = SumFunctionOnSet(f, DOMAIN net) /\ BagWeight(w, net) = SumFunctionOnSet(g, DOMAIN net)
    BY DEF SumFunction, BagWeight
  <2> HIDE DEF f, g, w
  <2>5. \A m \in DOMAIN net : g[m] \in Int /\ f[m] = g[m]
    BY <2>1, <2>2, <2>3
  <2> QED
    BY <2>1, <2>4, <2>5, SumEqual
<1>3. SumFunction([q \in Peers |-> SeqWeight(w, posted[q])]) = SeqWeight(w, posted[o])
  <2>1. ASSUME NEW q \in Peers, q # o, NEW i \in DOMAIN posted[q]
        PROVE  w[posted[q][i]] = 0
    <3>1. posted[q][i] \in Posts(q)
      BY DEF TypeOK
    <3>2. posted[q][i] \in Incoming /\ posted[q][i].src = q /\ posted[q][i].dst = q
      BY <3>1 DEF Posts, Incoming
    <3>3. ~Carries(o, j, posted[q][i])
      BY <2>1, <3>2 DEF Carries
    <3> QED
      BY <3>2, <3>3, CarryWeightType
  <2> HIDE DEF w
  <2> QED
    BY <1>1, <2>1, PostsOfOne
<1>4. SeqWeight(w, posted[o]) = CountIn(posted[o], LAMBDA m : Carries(o, j, m))
  <2>1. posted[o] \in Seq(Incoming)
    BY <1>1 DEF MailOf
  <2>2. /\ SeqWeight(w, posted[o]) = SumFunctionOnSet(h, DOMAIN posted[o])
        /\ IsFiniteSet(DOMAIN posted[o])
    BY <1>1, <2>1, SeqTerms
  <2>3. \A i \in DOMAIN posted[o] : h[i] = IF Carries(o, j, posted[o][i]) THEN 1 ELSE 0
    BY <2>1, CarryWeightType
  <2> HIDE DEF h
  <2>4. SumFunctionOnSet(h, DOMAIN posted[o]) = Cardinality({i \in DOMAIN posted[o] : h[i] = 1})
    BY <2>2, <2>3, SumOfSome
  <2>5. {i \in DOMAIN posted[o] : h[i] = 1} = {i \in DOMAIN posted[o] : Carries(o, j, posted[o][i])}
    BY <2>3
  <2> QED
    BY <2>2, <2>4, <2>5 DEF CountIn
<1>5. CountIn(queue[o], LAMBDA k : k = j) = QueuedIn(queue[o], j)
  BY DEF CountIn, QueuedIn
<1>6. SumFunction([q \in Peers |-> CountIn(executing[q], LAMBDA x : x.owner = o /\ x.id = j)])
        = WorkCount(executing, o, j)
  BY DEF CountIn, AtWork, WorkCount
<1>7. Copies(o, j) = QueuedIn(queue[o], j) + SeqWeight(w, posted[o]) + BagWeight(w, net)
                       + WorkCount(executing, o, j)
  <2> HIDE DEF w, f
  <2>1. Copies(o, j) = CountIn(queue[o], LAMBDA k : k = j)
                         + CountIn(posted[o], LAMBDA m : Carries(o, j, m))
                         + SumFunction(f)
                         + SumFunction([q \in Peers |-> CountIn(executing[q], LAMBDA x : x.owner = o /\ x.id = j)])
    BY DEF Copies, f
  <2> QED
    BY <1>2, <1>4, <1>5, <1>6, <2>1
<1>8. Load(w, net, posted) = BagWeight(w, net) + SeqWeight(w, posted[o])
  BY <1>3 DEF Load
<1>9. QueuedIn(queue[o], j) \in Int /\ SeqWeight(w, posted[o]) \in Int /\ BagWeight(w, net) \in Int
      /\ WorkCount(executing, o, j) \in Int
  <2>1. queue[o] \in Seq(JobIds) /\ \A q \in Peers : IsFiniteSet(DOMAIN executing[q])
    BY DEF TypeOK, FiniteMap
  <2>2. QueuedIn(queue[o], j) \in Int /\ WorkCount(executing, o, j) \in Int
    BY <1>1, <2>1, CopiedParts
  <2> QED
    BY <1>1, <2>2, LoadType
<1> HIDE DEF w
<1> QED
  BY <1>7, <1>8, <1>9 DEF Copied, w

\* What delegates job j of o to q.
OfferWeight(q, o, j) ==
    [m \in Incoming |->
        IF m.type = "DelegateJob" /\ m.src = o /\ m.id = j /\ m.dst = q THEN 1 ELSE 0]

\* The copies of job j of o that are with q, or on their way to it.
HeldBy(q, o, j) == Load(OfferWeight(q, o, j), net, posted) + AtWork(executing[q], o, j)

\* w weighs only messages that carry a job.
Carrying == {"DelegateJob", "JobCompleted"}
Steady(w) == Weight(w) /\ \A m \in Incoming : m.type \notin Carrying => w[m] = 0

LEMMA CarryIsSteady ==
    ASSUME NEW o, NEW j, NEW q
    PROVE  /\ Steady(CarryWeight(o, j)) /\ NoDebt(CarryWeight(o, j))
           /\ Steady(OfferWeight(q, o, j)) /\ NoDebt(OfferWeight(q, o, j))
           /\ \A m \in Incoming :
                /\ CarryWeight(o, j)[m] = IF Carries(o, j, m) THEN 1 ELSE 0
                /\ OfferWeight(q, o, j)[m] =
                     IF m.type = "DelegateJob" /\ m.src = o /\ m.id = j /\ m.dst = q THEN 1 ELSE 0
                /\ OfferWeight(q, o, j)[m] <= CarryWeight(o, j)[m]
<1>1. /\ NoDebt(CarryWeight(o, j)) /\ Weight(CarryWeight(o, j))
      /\ \A m \in Incoming : CarryWeight(o, j)[m] = IF Carries(o, j, m) THEN 1 ELSE 0
  BY CarryWeightType
<1>2. Steady(CarryWeight(o, j))
  BY <1>1 DEF Steady, Carries, Carrying
<1>3. \A m \in Incoming : OfferWeight(q, o, j)[m] =
          IF m.type = "DelegateJob" /\ m.src = o /\ m.id = j /\ m.dst = q THEN 1 ELSE 0
  BY DEF OfferWeight
<1>4. NoDebt(OfferWeight(q, o, j)) /\ Weight(OfferWeight(q, o, j))
  BY DEF OfferWeight, NoDebt, Weight
<1>5. Steady(OfferWeight(q, o, j))
  BY <1>3, <1>4 DEF Steady, Carrying
<1>6. \A m \in Incoming : OfferWeight(q, o, j)[m] <= CarryWeight(o, j)[m]
  <2> SUFFICES ASSUME NEW m \in Incoming
               PROVE  OfferWeight(q, o, j)[m] <= CarryWeight(o, j)[m]
    OBVIOUS
  <2>1. m.type = "DelegateJob" /\ m.src = o /\ m.id = j /\ m.dst = q => Carries(o, j, m)
    BY DEF Carries
  <2> QED
    BY <1>1, <1>3, <2>1
<1> QED
  BY <1>1, <1>2, <1>3, <1>4, <1>5, <1>6

LEMMA SteadyIsTame == ASSUME NEW w, Steady(w) PROVE Tame(w)
BY DEF Steady, Tame, Carrying, Counted

\* More weight, more load.
LEMMA LoadLeq ==
    ASSUME NEW w, Weight(w), NEW v, Weight(v), \A m \in Incoming : w[m] <= v[m],
           NEW N, NEW P, MailOf(N, P)
    PROVE  Load(w, N, P) <= Load(v, N, P)
<1>1. ASSUME NEW q \in Peers
      PROVE  /\ SeqWeight(w, P[q]) <= SeqWeight(v, P[q])
             /\ SeqWeight(w, P[q]) \in Int /\ SeqWeight(v, P[q]) \in Int
  <2> DEFINE s == P[q]
             f == [i \in DOMAIN s |-> w[s[i]]]
             g == [i \in DOMAIN s |-> v[s[i]]]
  <2>1. s \in Seq(Incoming)
    BY DEF MailOf
  <2> HIDE DEF s
  <2>2. \A i \in DOMAIN s : s[i] \in Incoming
    BY <2>1
  <2>3. \A i \in DOMAIN s : f[i] \in Int /\ g[i] \in Int /\ f[i] <= g[i]
    BY <2>2 DEF Weight
  <2>4. /\ SeqWeight(w, s) = SumFunctionOnSet(f, DOMAIN s) /\ SeqWeight(w, s) \in Int
        /\ SeqWeight(v, s) = SumFunctionOnSet(g, DOMAIN s) /\ SeqWeight(v, s) \in Int
        /\ IsFiniteSet(DOMAIN s)
    BY <2>1, SeqTerms
  <2> HIDE DEF f, g
  <2>5. SumFunctionOnSet(f, DOMAIN s) <= SumFunctionOnSet(g, DOMAIN s)
    BY <2>3, <2>4, SumLeq
  <2> QED
    BY <2>4, <2>5 DEF s
<1>2. BagWeight(w, N) <= BagWeight(v, N) /\ BagWeight(w, N) \in Int /\ BagWeight(v, N) \in Int
  <2> DEFINE f == [m \in DOMAIN N |-> N[m] * w[m]]
             g == [m \in DOMAIN N |-> N[m] * v[m]]
  <2>1. IsFiniteSet(DOMAIN N) /\ \A m \in DOMAIN N :
            N[m] \in Nat /\ w[m] \in Int /\ v[m] \in Int /\ w[m] <= v[m]
    BY DEF MailOf, BagOf, IsABag, Weight
  <2>2. \A k \in Nat, a \in Int, b \in Int : a <= b => k * a \in Int /\ k * b \in Int /\ k * a <= k * b
    OBVIOUS
  <2>3. \A m \in DOMAIN N : f[m] = N[m] * w[m] /\ g[m] = N[m] * v[m]
    OBVIOUS
  <2>4. BagWeight(w, N) = SumFunctionOnSet(f, DOMAIN N) /\ BagWeight(v, N) = SumFunctionOnSet(g, DOMAIN N)
    BY DEF BagWeight, SumFunction
  <2> HIDE DEF f, g
  <2>5. \A m \in DOMAIN N : f[m] \in Int /\ g[m] \in Int /\ f[m] <= g[m]
    BY <2>1, <2>2, <2>3
  <2>6. SumFunctionOnSet(f, DOMAIN N) <= SumFunctionOnSet(g, DOMAIN N)
    BY <2>1, <2>5, SumLeq
  <2>7. BagWeight(w, N) \in Int /\ BagWeight(v, N) \in Int
    BY LoadType
  <2> QED
    BY <2>4, <2>6, <2>7
<1> DEFINE f == [q \in Peers |-> SeqWeight(w, P[q])]
           g == [q \in Peers |-> SeqWeight(v, P[q])]
<1>3. \A q \in Peers : f[q] \in Int /\ g[q] \in Int /\ f[q] <= g[q]
  BY <1>1
<1>4. /\ Load(w, N, P) = BagWeight(w, N) + SumFunctionOnSet(f, Peers)
      /\ Load(v, N, P) = BagWeight(v, N) + SumFunctionOnSet(g, Peers)
  BY DEF Load, SumFunction
<1> HIDE DEF f, g
<1>5. /\ SumFunctionOnSet(f, Peers) <= SumFunctionOnSet(g, Peers)
      /\ SumFunctionOnSet(f, Peers) \in Int /\ SumFunctionOnSet(g, Peers) \in Int
  BY <1>3, SumLeq, SumTaking, PeersAssumption
<1> QED
  BY <1>2, <1>4, <1>5

\* Whoever holds a job has one of its copies.
LEMMA HeldIsCopied ==
    ASSUME TypeOK, NetFinite, NEW o \in Peers, NEW j \in JobIds, NEW q \in Peers
    PROVE  /\ QueuedIn(queue[o], j) \in Nat /\ HeldBy(q, o, j) \in Nat /\ Copied(o, j) \in Nat
           /\ QueuedIn(queue[o], j) + HeldBy(q, o, j) <= Copied(o, j)
<1>1. MailOf(net, posted) /\ \A r \in Peers : IsFiniteSet(DOMAIN executing[r])
  BY MailType DEF TypeOK, FiniteMap
<1>2. queue[o] \in Seq(JobIds)
  BY DEF TypeOK
<1>3. /\ QueuedIn(queue[o], j) \in Nat
      /\ Load(CarryWeight(o, j), net, posted) \in Nat
      /\ WorkCount(executing, o, j) \in Nat
  BY <1>1, <1>2, CopiedParts
<1>4. AtWork(executing[q], o, j) \in Nat /\ AtWork(executing[q], o, j) <= WorkCount(executing, o, j)
  BY <1>1, WorkCountType
<1>5. Load(OfferWeight(q, o, j), net, posted) \in Nat
  BY <1>1, CarryIsSteady, LoadIsNat
<1>6. Load(OfferWeight(q, o, j), net, posted) <= Load(CarryWeight(o, j), net, posted)
  BY <1>1, CarryIsSteady, LoadLeq DEF Steady
<1> QED
  BY <1>3, <1>4, <1>5, <1>6 DEF HeldBy, Copied

LEMMA MailTypeNext == TypeOK' /\ NetFinite' => MailOf(net', posted')
<1> SUFFICES ASSUME TypeOK', NetFinite'
             PROVE  MailOf(net', posted')
  OBVIOUS
<1>1. BagOf(net')
  BY DEF TypeOK, NetFinite, BagOf, Parcels, Incoming
<1>2. \A q \in Peers : Posts(q) \subseteq Incoming
  BY DEF Posts, Incoming
<1>3. \A q \in Peers : posted'[q] \in Seq(Incoming)
  <2>1. \A q \in Peers : posted'[q] \in Seq(Posts(q))
    BY DEF TypeOK
  <2> QED
    BY <1>2, <2>1
<1> QED
  BY <1>1, <1>3 DEF MailOf

-----------------------------------------------------------------------------
(* What a step does to the copies of a job. *)

\* The threads of p may change, and what is under way.
LEMMA CopiedChange ==
    ASSUME TypeOK, NetFinite, TypeOK', NetFinite', NEW o \in Peers, NEW j \in JobIds,
           NEW p \in Peers,
           \A q \in Peers : q # p => AtWork(executing'[q], o, j) = AtWork(executing[q], o, j),
           NEW d \in Int, Moves(CarryWeight(o, j), d)
    PROVE  /\ Copied(o, j)' = Copied(o, j) + QueuedIn(queue'[o], j) - QueuedIn(queue[o], j) + d
                                + AtWork(executing'[p], o, j) - AtWork(executing[p], o, j)
           /\ Copied(o, j) \in Nat /\ QueuedIn(queue'[o], j) \in Nat
           /\ QueuedIn(queue[o], j) \in Nat
<1>1. /\ MailOf(net, posted) /\ \A r \in Peers : IsFiniteSet(DOMAIN executing[r])
      /\ \A r \in Peers : IsFiniteSet(DOMAIN executing'[r])
      /\ queue[o] \in Seq(JobIds) /\ queue'[o] \in Seq(JobIds)
  BY MailType DEF TypeOK, FiniteMap
<1>2. /\ QueuedIn(queue[o], j) \in Nat /\ QueuedIn(queue'[o], j) \in Nat
      /\ Load(CarryWeight(o, j), net, posted) \in Nat
      /\ WorkCount(executing, o, j) \in Nat
  BY <1>1, CopiedParts, QueuedInType
<1>3. AtWork(executing[p], o, j) \in Nat /\ AtWork(executing'[p], o, j) \in Nat
  BY <1>1, AtWorkType
<1>4. WorkCount(executing', o, j) =
        WorkCount(executing, o, j) + AtWork(executing'[p], o, j) - AtWork(executing[p], o, j)
  BY <1>1, WorkCountChange
<1>5. Load(CarryWeight(o, j), net', posted') = Load(CarryWeight(o, j), net, posted) + d
  BY DEF Moves
<1>6. Copied(o, j)' = QueuedIn(queue'[o], j) + Load(CarryWeight(o, j), net', posted')
                        + WorkCount(executing', o, j)
  BY DEF Copied
<1> QED
  BY <1>2, <1>3, <1>4, <1>5, <1>6 DEF Copied

LEMMA HeldChange ==
    ASSUME TypeOK, NetFinite, TypeOK', NetFinite', NEW o \in Peers, NEW j \in JobIds,
           NEW q \in Peers, NEW d \in Int, Moves(OfferWeight(q, o, j), d)
    PROVE  /\ HeldBy(q, o, j)' =
                HeldBy(q, o, j) + d + AtWork(executing'[q], o, j) - AtWork(executing[q], o, j)
           /\ AtWork(executing'[q], o, j) \in Nat /\ AtWork(executing[q], o, j) \in Nat
<1>1. /\ MailOf(net, posted) /\ IsFiniteSet(DOMAIN executing[q]) /\ IsFiniteSet(DOMAIN executing'[q])
  BY MailType DEF TypeOK, FiniteMap
<1>2. Load(OfferWeight(q, o, j), net, posted) \in Nat
  BY <1>1, CarryIsSteady, LoadIsNat
<1>3. AtWork(executing[q], o, j) \in Nat /\ AtWork(executing'[q], o, j) \in Nat
  BY <1>1, AtWorkType
<1>4. HeldBy(q, o, j)' = Load(OfferWeight(q, o, j), net', posted') + AtWork(executing'[q], o, j)
  BY DEF HeldBy
<1> QED
  BY <1>2, <1>3, <1>4 DEF HeldBy, Moves

-----------------------------------------------------------------------------
(* No job is lost, and none is with two workers. *)

\* A job on record is somewhere.
Safe(o, j) == j \in DOMAIN jobs[o] => Copied(o, j) >= 1

\* Only jobs on record are anywhere, and only where the record has them.
Recorded(o, j) ==
    IF j \in DOMAIN jobs[o]
    THEN /\ Copied(o, j) <= 1
         /\ ~jobs[o][j].stale
         /\ jobs[o][j].exec = None <=> QueuedIn(queue[o], j) >= 1
         /\ \A q \in Peers : HeldBy(q, o, j) >= 1 => jobs[o][j].exec = q
    ELSE Copied(o, j) = 0

AllSafe == \A o \in Peers, j \in JobIds : Safe(o, j)
AllRecorded == \A o \in Peers, j \in JobIds : Recorded(o, j)

\* No process has ended: only those that were never started may be off.
NotEnded == \A p \in Peers : status[p] \in {"off", "up"}

\* A peer that was never started has met nobody.
OffStranger == \A p \in Peers : status[p] = "off" => known[p] = {}

\* NoJobLost is inductive once copies are counted where they are and peers may still be
\* off; OneCopyUntilTimeout and ExecutorOnRecord hold together or not at all: a job is
\* handed out once because it is queued once, and its worker is the one on record because
\* nobody else has a copy.
CopyInv ==
    /\ NotEnded /\ spent["lose"] = 0 => AllSafe
    /\ spent["expire"] = 0 => AllRecorded
    /\ OffStranger

\* The record of a job stays as it is, or is refreshed.
SameRecord(o, j) ==
    /\ j \in DOMAIN jobs'[o] <=> j \in DOMAIN jobs[o]
    /\ j \in DOMAIN jobs[o] => jobs'[o][j].exec = jobs[o][j].exec

NotAged(o, j) == j \in DOMAIN jobs[o] => (jobs'[o][j].stale => jobs[o][j].stale)

\* Copies vanish, at most.
Fewer(o, j) ==
    /\ QueuedIn(queue'[o], j) = QueuedIn(queue[o], j)
    /\ Copied(o, j)' \in Nat /\ Copied(o, j)' <= Copied(o, j)
    /\ \A q \in Peers : HeldBy(q, o, j)' <= HeldBy(q, o, j) /\ HeldBy(q, o, j)' \in Int

LEMMA FewerRecorded ==
    ASSUME TypeOK, NetFinite, NEW o \in Peers, NEW j \in JobIds,
           SameRecord(o, j), NotAged(o, j), Fewer(o, j), Recorded(o, j)
    PROVE  Recorded(o, j)'
<1>1. Copied(o, j) \in Nat /\ \A q \in Peers : HeldBy(q, o, j) \in Nat
  BY HeldIsCopied, PeersAssumption
<1>2. CASE j \in DOMAIN jobs[o]
  <2>1. /\ j \in DOMAIN jobs'[o] /\ jobs'[o][j].exec = jobs[o][j].exec
        /\ ~jobs'[o][j].stale
    BY <1>2 DEF SameRecord, NotAged, Recorded
  <2>2. Copied(o, j)' <= 1
    <3>1. Copied(o, j) <= 1
      BY <1>2 DEF Recorded
    <3> QED
      BY <1>1, <3>1 DEF Fewer
  <2>3. \A q \in Peers : HeldBy(q, o, j)' >= 1 => HeldBy(q, o, j) >= 1
    BY <1>1 DEF Fewer
  <2>4. jobs'[o][j].exec = None <=> QueuedIn(queue'[o], j) >= 1
    BY <1>2, <2>1 DEF Fewer, Recorded
  <2>5. \A q \in Peers : HeldBy(q, o, j)' >= 1 => jobs'[o][j].exec = q
    BY <1>2, <2>1, <2>3 DEF Recorded
  <2> QED
    BY <2>1, <2>2, <2>4, <2>5 DEF Recorded
<1>3. CASE j \notin DOMAIN jobs[o]
  <2>1. j \notin DOMAIN jobs'[o] /\ Copied(o, j) = 0
    BY <1>3 DEF SameRecord, Recorded
  <2>2. Copied(o, j)' = 0
    BY <2>1 DEF Fewer
  <2> QED
    BY <2>1, <2>2 DEF Recorded
<1> QED
  BY <1>2, <1>3

\* Nothing that carries a job is sent or received.
Calm == NetFinite' /\ \A w : Steady(w) => Moves(w, 0)

\* The threads have the same jobs.
SameThreads ==
    \A q \in Peers :
        /\ DOMAIN executing'[q] = DOMAIN executing[q]
        /\ \A i \in DOMAIN executing[q] : /\ executing'[q][i].owner = executing[q][i].owner
                                          /\ executing'[q][i].id = executing[q][i].id

\* Nothing but the queue of o changes the copies of its jobs.
LEMMA CalmCopies ==
    ASSUME TypeOK, TypeOK', NetFinite, Calm, SameThreads, NEW o \in Peers, NEW j \in JobIds
    PROVE  /\ Copied(o, j)' = Copied(o, j) + QueuedIn(queue'[o], j) - QueuedIn(queue[o], j)
           /\ Copied(o, j) \in Nat /\ QueuedIn(queue'[o], j) \in Nat
           /\ QueuedIn(queue[o], j) \in Nat
           /\ \A q \in Peers : HeldBy(q, o, j)' = HeldBy(q, o, j) /\ HeldBy(q, o, j) \in Nat
           /\ QueuedIn(queue'[o], j) = QueuedIn(queue[o], j) => Fewer(o, j)
<1>1. \A q \in Peers : AtWork(executing'[q], o, j) = AtWork(executing[q], o, j)
  BY AtWorkSame DEF SameThreads
<1>2. NetFinite' /\ Moves(CarryWeight(o, j), 0)
  BY CarryIsSteady DEF Calm
<1>3. \A q \in Peers : Moves(OfferWeight(q, o, j), 0)
  BY CarryIsSteady DEF Calm
<1>4. AtWork(executing[o], o, j) \in Int
  BY AtWorkType DEF TypeOK, FiniteMap
<1>5. /\ Copied(o, j)' = Copied(o, j) + QueuedIn(queue'[o], j) - QueuedIn(queue[o], j) + 0
                           + AtWork(executing'[o], o, j) - AtWork(executing[o], o, j)
      /\ Copied(o, j) \in Nat /\ QueuedIn(queue'[o], j) \in Nat /\ QueuedIn(queue[o], j) \in Nat
  BY <1>1, <1>2, CopiedChange
<1>6. Copied(o, j)' = Copied(o, j) + QueuedIn(queue'[o], j) - QueuedIn(queue[o], j)
  BY <1>1, <1>4, <1>5
<1>7. ASSUME NEW q \in Peers
      PROVE  HeldBy(q, o, j)' = HeldBy(q, o, j) /\ HeldBy(q, o, j) \in Nat
  <2>1. /\ HeldBy(q, o, j)' =
             HeldBy(q, o, j) + 0 + AtWork(executing'[q], o, j) - AtWork(executing[q], o, j)
        /\ AtWork(executing[q], o, j) \in Nat
    BY <1>2, <1>3, HeldChange
  <2>2. HeldBy(q, o, j) \in Nat
    BY HeldIsCopied
  <2> QED
    BY <1>1, <2>1, <2>2
<1>8. QueuedIn(queue'[o], j) = QueuedIn(queue[o], j) => Fewer(o, j)
  BY <1>5, <1>6, <1>7 DEF Fewer
<1> QED
  BY <1>5, <1>6, <1>7, <1>8

Keeps == (AllSafe => AllSafe') /\ (AllRecorded => AllRecorded')

\* Nothing happens to any job.
LEMMA CalmKeeps ==
    ASSUME TypeOK, TypeOK', NetFinite, Calm, SameThreads, UNCHANGED queue,
           \A o \in Peers, j \in JobIds : SameRecord(o, j)
    PROVE  /\ AllSafe => AllSafe'
           /\ (\A o \in Peers, j \in JobIds : NotAged(o, j)) => Keeps
<1>1. \A o \in Peers, j \in JobIds : Copied(o, j)' = Copied(o, j) /\ Fewer(o, j)
  BY CalmCopies
<1>2. AllSafe => AllSafe'
  <2> SUFFICES ASSUME AllSafe, NEW o \in Peers, NEW j \in JobIds
               PROVE  Safe(o, j)'
    BY DEF AllSafe
  <2>1. Safe(o, j) /\ SameRecord(o, j) /\ Copied(o, j)' = Copied(o, j)
    BY <1>1 DEF AllSafe
  <2> QED
    BY <2>1 DEF Safe, SameRecord
<1>3. ASSUME \A o \in Peers, j \in JobIds : NotAged(o, j), AllRecorded
      PROVE  AllRecorded'
  <2> SUFFICES ASSUME NEW o \in Peers, NEW j \in JobIds
               PROVE  Recorded(o, j)'
    BY DEF AllRecorded
  <2>1. Recorded(o, j) /\ SameRecord(o, j) /\ Fewer(o, j) /\ NotAged(o, j)
    BY <1>1, <1>3 DEF AllRecorded
  <2> QED
    BY <2>1, FewerRecorded
<1> QED
  BY <1>2, <1>3 DEF Keeps

\* The books and the threads are left alone.
LEMMA StillKeeps ==
    ASSUME TypeOK, TypeOK', NetFinite, Calm, UNCHANGED <<jobs, queue, executing>>
    PROVE  Keeps
<1>1. SameThreads
  BY DEF SameThreads
<1>2. \A o \in Peers, j \in JobIds : SameRecord(o, j) /\ NotAged(o, j)
  BY DEF SameRecord, NotAged
<1> QED
  BY <1>1, <1>2, CalmKeeps

\* Requests for work carry no job.
LEMMA AskIsCalm ==
    ASSUME NEW p \in Peers, NEW ask \in [Peers -> Nat], NEW w, Steady(w)
    PROVE  AskLoad(w, p, ask) = 0
<1>1. Weight(w) /\ \A x \in Incoming : x.type = "RequestJobs" /\ x.src = p => w[x] = 0
  BY DEF Steady, Carrying
<1>2. BagWeight(w, Requests(p, ask)) = 0 /\ SeqWeight(w, OwnRequest(p, ask)) = 0
  BY <1>1, AskUncounted
<1> QED
  BY <1>2 DEF AskLoad

LEMMA AskingIsCalm ==
    ASSUME NEW p \in Peers, NEW m, Handled(p, m), m.type \notin Carrying, NetFinite',
           NEW op, NEW ex, NEW ask, AsksWithin(p, op, ex, ask),
           \A w : Tame(w) => Moves(w, AskLoad(w, p, ask) - w[m])
    PROVE  Calm
<1> SUFFICES ASSUME NEW w, Steady(w)
             PROVE  Moves(w, 0)
  BY DEF Calm
<1>1. w[m] = 0 /\ AskLoad(w, p, ask) = 0
  BY AskIsCalm DEF Steady, Handled, AsksWithin
<1>2. AskLoad(w, p, ask) - w[m] = 0
  BY <1>1
<1>3. Moves(w, AskLoad(w, p, ask) - w[m])
  BY SteadyIsTame
<1> QED
  BY <1>2, <1>3

LEMMA TakingIsCalm ==
    ASSUME TypeOK, NetFinite, NEW p \in Peers, NEW m, Handled(p, m), m.type \notin Carrying, Consume(m)
    PROVE  Calm
<1>1. NetFinite' /\ \A w : Weight(w) => Moves(w, 0 - w[m])
  BY ConsumeMoves
<1> SUFFICES ASSUME NEW w, Steady(w)
             PROVE  Moves(w, 0)
  BY <1>1 DEF Calm
<1>2. 0 - w[m] = 0
  BY DEF Steady, Handled
<1>3. Moves(w, 0 - w[m])
  BY <1>1 DEF Steady
<1> QED
  BY <1>2, <1>3

LEMMA TameIsCalm == ASSUME NetFinite', \A w : Tame(w) => Moves(w, 0) PROVE Calm
BY SteadyIsTame DEF Calm

-----------------------------------------------------------------------------
(* The handlers, and the copies. *)

LEMMA OnPingKeeps ==
    ASSUME TypeOK, TypeOK', NetFinite, NEW p \in Peers, NEW m, Handled(p, m), m.type = "Ping",
           OnPing(p, m)
    PROVE  Keeps
<1>1. /\ NetFinite' /\ UNCHANGED <<queue, executing>>
      /\ \A w : Tame(w) => w[m] = 0
  BY OnPingMoves
<1>2. CASE UNCHANGED <<jobs, open>> /\ \A w : Tame(w) => Moves(w, 0 - w[m])
  <2>1. \A w : Tame(w) => Moves(w, 0)
    <3> SUFFICES ASSUME NEW w, Tame(w)
                 PROVE  Moves(w, 0)
      OBVIOUS
    <3>1. 0 - w[m] = 0 /\ Moves(w, 0 - w[m])
      BY <1>1, <1>2
    <3> QED
      BY <3>1
  <2> QED
    BY <1>1, <1>2, <2>1, TameIsCalm, StillKeeps
<1> DEFINE heard == [j \in DOMAIN jobs[p] |->
                       IF j \in m.ids THEN Pinged(jobs[p][j]) ELSE jobs[p][j]]
<1>3. CASE /\ jobs' = [jobs EXCEPT ![p] = heard]
           /\ \E ask : /\ AsksWithin(p, open[p], executing[p], ask)
                       /\ \A w : Tame(w) => Moves(w, AskLoad(w, p, ask) - w[m])
  <2>1. Calm
    BY <1>1, <1>3, AskingIsCalm DEF Carrying
  <2>2. SameThreads
    BY <1>1 DEF SameThreads
  <2>3. \A j \in DOMAIN jobs[p] : heard[j].exec = jobs[p][j].exec /\ (heard[j].stale => jobs[p][j].stale)
    BY DEF Pinged, TypeOK, FiniteMap, OwnedJob
  <2>4. DOMAIN heard = DOMAIN jobs[p]
    OBVIOUS
  <2> HIDE DEF heard
  <2>5. \A o \in Peers : jobs'[o] = IF o = p THEN heard ELSE jobs[o]
    BY <1>3 DEF TypeOK
  <2>6. \A o \in Peers, j \in JobIds : SameRecord(o, j) /\ NotAged(o, j)
    BY <2>3, <2>4, <2>5 DEF SameRecord, NotAged
  <2> QED
    BY <1>1, <2>1, <2>2, <2>6, CalmKeeps
<1> QED
  BY <1>2, <1>3, OnPingMoves

LEMMA OnAvailableWorkKeeps ==
    ASSUME TypeOK, TypeOK', NetFinite, NEW p \in Peers, NEW m, Handled(p, m),
           m.type = "AvailableWork", OnAvailableWork(p, m)
    PROVE  Keeps
<1>1. /\ NetFinite' /\ UNCHANGED <<jobs, queue, executing>>
      /\ \E ask : /\ AsksWithin(p, open[p], executing[p], ask)
                  /\ \A w : Tame(w) => Moves(w, AskLoad(w, p, ask) - w[m])
  BY OnAvailableWorkMoves
<1>2. Calm
  BY <1>1, AskingIsCalm DEF Carrying
<1> QED
  BY <1>1, <1>2, StillKeeps

LEMMA OnNotifiedNoJobsKeeps ==
    ASSUME TypeOK, TypeOK', NetFinite, NEW p \in Peers, NEW m, Handled(p, m),
           m.type = "NoMoreJobs", OnNotifiedNoJobs(p, m)
    PROVE  Keeps
<1> DEFINE op == Close(open[p], m.src)
<1>1. /\ NetFinite' /\ UNCHANGED <<jobs, queue, executing>>
      /\ \E ask : /\ AsksWithin(p, op, executing[p], ask)
                  /\ \A w : Tame(w) => Moves(w, AskLoad(w, p, ask) - w[m])
  BY OnNotifiedNoJobsMoves
<1> HIDE DEF op
<1>2. Calm
  BY <1>1, AskingIsCalm DEF Carrying
<1> QED
  BY <1>1, <1>2, StillKeeps

\* A message is taken, and with it the copy it carries.
LEMMA TakenCopies ==
    ASSUME TypeOK, TypeOK', NetFinite, NEW p \in Peers, NEW m, Handled(p, m), Consume(m),
           UNCHANGED <<queue, executing>>, NEW o \in Peers, NEW j \in JobIds
    PROVE  /\ Copied(o, j) \in Nat /\ Copied(o, j)' \in Nat
           /\ Copied(o, j)' = Copied(o, j) - (IF Carries(o, j, m) THEN 1 ELSE 0)
           /\ Fewer(o, j)
<1>1. NetFinite' /\ \A w : Weight(w) => Moves(w, 0 - w[m])
  BY ConsumeMoves
<1>2. m \in Incoming
  BY DEF Handled
<1> DEFINE w == CarryWeight(o, j)
<1>3. /\ w[m] \in {0, 1} /\ Moves(w, 0 - w[m])
      /\ w[m] = IF Carries(o, j, m) THEN 1 ELSE 0
  BY <1>1, <1>2, CarryIsSteady, CarryWeightType
<1> HIDE DEF w
<1>4. 0 - w[m] \in Int /\ AtWork(executing[o], o, j) \in Int
  <2>1. 0 - w[m] \in Int
    BY <1>3
  <2> QED
    BY <2>1, AtWorkType DEF TypeOK, FiniteMap
<1>5. Copied(o, j) \in Nat /\ Copied(o, j)' = Copied(o, j) - w[m]
  <2>1. /\ Copied(o, j)' = Copied(o, j) + QueuedIn(queue'[o], j) - QueuedIn(queue[o], j) + (0 - w[m])
                             + AtWork(executing'[o], o, j) - AtWork(executing[o], o, j)
        /\ Copied(o, j) \in Nat /\ QueuedIn(queue[o], j) \in Nat
    BY <1>1, <1>3, <1>4, CopiedChange DEF w
  <2> QED
    BY <1>3, <1>4, <2>1
<1>6. Copied(o, j)' \in Nat
  <2>1. Load(w, net', posted') \in Nat /\ MailOf(net', posted')
    <3>1. MailOf(net', posted')
      BY <1>1, MailTypeNext
    <3> QED
      BY <3>1, CarryIsSteady, LoadIsNat DEF w
  <2>2. QueuedIn(queue[o], j) \in Nat /\ WorkCount(executing, o, j) \in Nat
    <3>1. queue[o] \in Seq(JobIds) /\ \A r \in Peers : IsFiniteSet(DOMAIN executing[r])
      BY DEF TypeOK, FiniteMap
    <3> QED
      BY <3>1, QueuedInType, WorkCountType
  <2>3. Copied(o, j)' = QueuedIn(queue[o], j) + Load(w, net', posted') + WorkCount(executing, o, j)
    BY DEF Copied, w
  <2> QED
    BY <2>1, <2>2, <2>3
<1>7. ASSUME NEW q \in Peers
      PROVE  HeldBy(q, o, j)' <= HeldBy(q, o, j) /\ HeldBy(q, o, j)' \in Int
  <2> DEFINE v == OfferWeight(q, o, j)
  <2>1. v[m] \in {0, 1} /\ Moves(v, 0 - v[m])
    BY <1>1, <1>2, CarryIsSteady DEF Steady
  <2> HIDE DEF v
  <2>2. 0 - v[m] \in Int
    BY <2>1
  <2>3. /\ HeldBy(q, o, j)' = HeldBy(q, o, j) + (0 - v[m])
                                + AtWork(executing'[q], o, j) - AtWork(executing[q], o, j)
        /\ AtWork(executing[q], o, j) \in Nat
    BY <1>1, <2>1, <2>2, HeldChange DEF v
  <2>4. HeldBy(q, o, j) \in Nat
    BY HeldIsCopied
  <2> QED
    BY <2>1, <2>3, <2>4
<1>8. Fewer(o, j)
  BY <1>3, <1>5, <1>6, <1>7 DEF Fewer
<1> QED
  BY <1>3, <1>5, <1>6, <1>8

\* A message is lost, or ignored, or its receiver ends: copies can only vanish.
LEMMA DropRecorded ==
    ASSUME TypeOK, TypeOK', NetFinite, NEW p \in Peers, NEW m, Handled(p, m), Consume(m),
           UNCHANGED <<jobs, queue, executing>>, AllRecorded
    PROVE  AllRecorded'
<1> SUFFICES ASSUME NEW o \in Peers, NEW j \in JobIds
             PROVE  Recorded(o, j)'
  BY DEF AllRecorded
<1>1. SameRecord(o, j) /\ NotAged(o, j)
  BY DEF SameRecord, NotAged
<1>2. Fewer(o, j)
  BY TakenCopies
<1> QED
  BY <1>1, <1>2, FewerRecorded DEF AllRecorded

\* Every job keeps its record and its copies.
LEMMA FewerKeeps ==
    ASSUME TypeOK, NetFinite, \A o \in Peers, j \in JobIds :
             /\ SameRecord(o, j) /\ NotAged(o, j)
             /\ Fewer(o, j) /\ Copied(o, j)' = Copied(o, j)
    PROVE  Keeps
<1>1. AllSafe => AllSafe'
  BY DEF AllSafe, Safe, SameRecord
<1>2. ASSUME AllRecorded
      PROVE  AllRecorded'
  BY <1>2, FewerRecorded DEF AllRecorded
<1> QED
  BY <1>1, <1>2 DEF Keeps

\* A job comes to its worker, which has a thread for it and a fresh number.
LEMMA OnReceiveJobKeeps ==
    ASSUME TypeOK, TypeOK', AwaitInv, CapacityRespected, IdInv, NEW p \in Peers,
           NEW m, Handled(p, m), m.type = "DelegateJob", OnReceiveJob(p, m)
    PROVE  Keeps
<1>1. m \in Incoming /\ m.dst = p /\ m.src \in Peers /\ m.id \in JobIds
  BY Fields DEF Handled
<1> DEFINE i == nextId[p]
           ex == executing[p]
           new == [owner |-> m.src, id |-> m.id, desc |-> m.desc, done |-> FALSE]
           fx == [k \in DOMAIN ex \cup {i} |-> IF k = i THEN new ELSE ex[k]]
<1>2. executing' = [executing EXCEPT ![p] = fx] /\ Consume(m) /\ UNCHANGED <<jobs, queue>>
  <2>1. Cardinality(DOMAIN executing[p]) < MaxThreads[p]
    BY OnReceiveJobFits
  <2> QED
    BY <2>1 DEF OnReceiveJob, InProgressId
<1>3. i \notin DOMAIN ex
  <2>1. \A k \in DOMAIN ex : k < i /\ k \in Nat
    BY DEF IdInv, TypeOK, FiniteMap, JobIds
  <2>2. ~(i < i)
    BY DEF TypeOK
  <2> QED
    BY <2>1, <2>2
<1>4. new.owner = m.src /\ new.id = m.id
  OBVIOUS
<1>5. executing'[p] = fx /\ \A q \in Peers : q # p => executing'[q] = executing[q]
  BY <1>2 DEF TypeOK
<1> HIDE DEF new, i
<1>6. ASSUME NEW o, NEW j
      PROVE  AtWork(fx, o, j) = AtWork(ex, o, j) + (IF m.src = o /\ m.id = j THEN 1 ELSE 0)
  <2>1. IsFiniteSet(DOMAIN ex)
    BY DEF TypeOK, FiniteMap
  <2>2. DOMAIN fx = DOMAIN ex \cup {i} /\ fx[i] = new /\ \A k \in DOMAIN ex : fx[k] = ex[k]
    BY <1>3
  <2> HIDE DEF fx, ex
  <2> QED
    BY <1>3, <1>4, <2>1, <2>2, AtWorkJoined
<1> HIDE DEF fx
<1>7. NetFinite /\ NetFinite' /\ \A w : Weight(w) => Moves(w, 0 - w[m])
  BY <1>2, ConsumeMoves DEF AwaitInv
<1>8. ASSUME NEW o \in Peers, NEW j \in JobIds
      PROVE  /\ SameRecord(o, j) /\ NotAged(o, j)
             /\ Fewer(o, j) /\ Copied(o, j)' = Copied(o, j)
  <2> DEFINE one == IF m.src = o /\ m.id = j THEN 1 ELSE 0
  <2>1. SameRecord(o, j) /\ NotAged(o, j)
    BY <1>2 DEF SameRecord, NotAged
  <2>2. CarryWeight(o, j)[m] = one
    <3>1. Carries(o, j, m) <=> m.src = o /\ m.id = j
      BY DEF Carries
    <3> QED
      BY <1>1, <3>1, CarryWeightType
  <2>3. AtWork(executing'[p], o, j) = AtWork(executing[p], o, j) + one
    BY <1>5, <1>6
  <2>4. AtWork(executing[p], o, j) \in Int /\ one \in Int /\ 0 - one \in Int
    <3>1. one \in Int /\ 0 - one \in Int
      OBVIOUS
    <3> QED
      BY <3>1, AtWorkType DEF TypeOK, FiniteMap
  <2> HIDE DEF one
  <2>5. Moves(CarryWeight(o, j), 0 - one)
    BY <1>7, <2>2, CarryWeightType
  <2>6. \A q \in Peers : q # p => AtWork(executing'[q], o, j) = AtWork(executing[q], o, j)
    BY <1>5
  <2>7. /\ Copied(o, j)' = Copied(o, j) + QueuedIn(queue'[o], j) - QueuedIn(queue[o], j) + (0 - one)
                             + AtWork(executing'[p], o, j) - AtWork(executing[p], o, j)
        /\ Copied(o, j) \in Nat /\ QueuedIn(queue[o], j) \in Nat
    BY <1>7, <2>4, <2>5, <2>6, CopiedChange
  <2>8. Copied(o, j)' = Copied(o, j)
    BY <1>2, <2>3, <2>4, <2>7
  <2>9. ASSUME NEW q \in Peers
        PROVE  HeldBy(q, o, j)' = HeldBy(q, o, j) /\ HeldBy(q, o, j) \in Nat
    <3> DEFINE gone == IF q = p THEN one ELSE 0
    <3>1. OfferWeight(q, o, j)[m] = gone
      BY <1>1, CarryIsSteady DEF one
    <3>2. gone \in Int /\ 0 - gone \in Int
      BY <2>4
    <3>3. AtWork(executing'[q], o, j) = AtWork(executing[q], o, j) + gone
      <4>1. CASE q = p
        BY <2>3, <4>1
      <4>2. CASE q # p
        <5>1. AtWork(executing[q], o, j) \in Int
          BY AtWorkType DEF TypeOK, FiniteMap
        <5> QED
          BY <2>6, <4>2, <5>1
      <4> QED
        BY <4>1, <4>2
    <3> HIDE DEF gone
    <3>4. Moves(OfferWeight(q, o, j), 0 - gone)
      BY <1>7, <3>1, CarryIsSteady DEF Steady
    <3>5. /\ HeldBy(q, o, j)' = HeldBy(q, o, j) + (0 - gone)
                                  + AtWork(executing'[q], o, j) - AtWork(executing[q], o, j)
          /\ AtWork(executing[q], o, j) \in Nat
      BY <1>7, <3>2, <3>4, HeldChange
    <3>6. HeldBy(q, o, j) \in Nat
      BY <1>7, HeldIsCopied
    <3> QED
      BY <3>2, <3>3, <3>5, <3>6
  <2>10. Fewer(o, j)
    BY <1>2, <2>7, <2>8, <2>9 DEF Fewer
  <2> QED
    BY <2>1, <2>8, <2>10
<1> QED
  BY <1>7, <1>8, FewerKeeps

\* The worker reports that the job is done.
LEMMA OnJobProcessingCompletedKeeps ==
    ASSUME TypeOK, TypeOK', NetFinite, NEW p \in Peers, NEW m, Handled(p, m),
           m.type = "Finished", OnJobProcessingCompleted(p, m)
    PROVE  Keeps
<1> DEFINE rest == [i \in DOMAIN executing[p] \ {m.id} |-> executing[p][i]]
           job == executing[p][m.id]
           note == JobNote(p, job.owner, "JobCompleted", job.id)
<1>1. /\ NetFinite' /\ UNCHANGED <<jobs, queue>>
      /\ \A w : Tame(w) => w[m] = 0
      /\ \/ UNCHANGED <<executing, open>> /\ \A w : Tame(w) => Moves(w, 0 - w[m])
         \/ /\ m.id \in DOMAIN executing[p]
            /\ executing' = [executing EXCEPT ![p] = rest]
            /\ \E ask : /\ AsksWithin(p, open[p], rest, ask)
                        /\ \A w : Tame(w) => Moves(w, w[note] + AskLoad(w, p, ask) - w[m])
  BY OnJobProcessingCompletedMoves
<1>2. CASE UNCHANGED <<executing, open>> /\ \A w : Tame(w) => Moves(w, 0 - w[m])
  <2>1. \A w : Tame(w) => Moves(w, 0)
    <3> SUFFICES ASSUME NEW w, Tame(w)
                 PROVE  Moves(w, 0)
      OBVIOUS
    <3>1. 0 - w[m] = 0 /\ Moves(w, 0 - w[m])
      BY <1>1, <1>2
    <3> QED
      BY <3>1
  <2> QED
    BY <1>1, <1>2, <2>1, TameIsCalm, StillKeeps
<1> HIDE DEF rest
<1>3. ASSUME m.id \in DOMAIN executing[p], executing' = [executing EXCEPT ![p] = rest], NEW ask,
             AsksWithin(p, open[p], rest, ask),
             \A w : Tame(w) => Moves(w, w[note] + AskLoad(w, p, ask) - w[m])
      PROVE  Keeps
  <2>1. /\ note \in Incoming /\ note.type = "JobCompleted"
        /\ note.dst = job.owner /\ note.id = job.id
    <3>1. job.owner \in Peers /\ job.id \in JobIds
      BY <1>3 DEF TypeOK, FiniteMap, RunningJob
    <3> QED
      BY <3>1, Made DEF Incoming, JobNote
  <2>2. executing'[p] = rest /\ \A q \in Peers : q # p => executing'[q] = executing[q]
    BY <1>3 DEF TypeOK
  <2>3. ASSUME NEW o, NEW j
        PROVE  AtWork(executing[p], o, j) =
                 AtWork(rest, o, j) + (IF job.owner = o /\ job.id = j THEN 1 ELSE 0)
    <3> DEFINE ex == executing[p]
               i == m.id
    <3>1. IsFiniteSet(DOMAIN rest)
      BY FS_Subset DEF rest, TypeOK, FiniteMap
    <3>2. i \notin DOMAIN rest /\ DOMAIN ex = DOMAIN rest \cup {i}
          /\ ex[i] = job /\ \A k \in DOMAIN rest : ex[k] = rest[k]
      BY <1>3 DEF rest
    <3> HIDE DEF ex, i, job
    <3>3. AtWork(ex, o, j) = AtWork(rest, o, j) + (IF ex[i].owner = o /\ ex[i].id = j THEN 1 ELSE 0)
      BY <3>1, <3>2, AtWorkJoined
    <3> QED
      BY <3>2, <3>3 DEF ex
  <2> HIDE DEF note, job
  <2>4. ASSUME NEW w, Steady(w)
        PROVE  Moves(w, w[note]) /\ w[note] \in Int
    <3>1. w[m] = 0 /\ AskLoad(w, p, ask) = 0 /\ w[note] \in Int
      BY <1>1, <1>3, <2>1, <2>4, AskIsCalm, SteadyIsTame DEF AsksWithin, Steady, Weight
    <3>2. w[note] + AskLoad(w, p, ask) - w[m] = w[note]
      BY <3>1
    <3>3. Moves(w, w[note] + AskLoad(w, p, ask) - w[m])
      BY <1>3, <2>4, SteadyIsTame
    <3> QED
      BY <3>1, <3>2, <3>3
  <2>5. ASSUME NEW o \in Peers, NEW j \in JobIds
        PROVE  /\ SameRecord(o, j) /\ NotAged(o, j)
               /\ Fewer(o, j) /\ Copied(o, j)' = Copied(o, j)
    <3> DEFINE one == IF job.owner = o /\ job.id = j THEN 1 ELSE 0
    <3>1. SameRecord(o, j) /\ NotAged(o, j)
      BY <1>1 DEF SameRecord, NotAged
    <3>2. CarryWeight(o, j)[note] = one
      <4>1. Carries(o, j, note) <=> job.owner = o /\ job.id = j
        BY <2>1 DEF Carries
      <4> QED
        BY <2>1, <4>1, CarryWeightType
    <3>3. AtWork(executing[p], o, j) = AtWork(executing'[p], o, j) + one
      BY <2>2, <2>3
    <3>4. /\ AtWork(executing'[p], o, j) \in Int /\ AtWork(executing[p], o, j) \in Int
          /\ one \in {0, 1} /\ one \in Int
      <4>1. one \in {0, 1} /\ one \in Int
        OBVIOUS
      <4>2. IsFiniteSet(DOMAIN executing'[p]) /\ IsFiniteSet(DOMAIN executing[p])
        BY DEF TypeOK, FiniteMap
      <4>3. AtWork(executing'[p], o, j) \in Int /\ AtWork(executing[p], o, j) \in Int
        BY <4>2, AtWorkType
      <4> QED
        BY <4>1, <4>3
    <3> HIDE DEF one
    <3>5. Moves(CarryWeight(o, j), one)
      BY <2>4, <3>2, CarryIsSteady
    <3>6. \A q \in Peers : q # p => AtWork(executing'[q], o, j) = AtWork(executing[q], o, j)
      BY <2>2
    <3>7. /\ Copied(o, j)' = Copied(o, j) + QueuedIn(queue'[o], j) - QueuedIn(queue[o], j) + one
                               + AtWork(executing'[p], o, j) - AtWork(executing[p], o, j)
          /\ Copied(o, j) \in Nat /\ QueuedIn(queue[o], j) \in Nat
      BY <1>1, <3>4, <3>5, <3>6, CopiedChange
    <3>8. Copied(o, j)' = Copied(o, j)
      BY <1>1, <3>3, <3>4, <3>7
    <3>9. ASSUME NEW q \in Peers
          PROVE  HeldBy(q, o, j)' <= HeldBy(q, o, j) /\ HeldBy(q, o, j)' \in Int
      <4>1. Moves(OfferWeight(q, o, j), 0)
        <5>1. OfferWeight(q, o, j)[note] = 0
          BY <2>1, CarryIsSteady
        <5> QED
          BY <2>4, <5>1, CarryIsSteady
      <4>2. /\ HeldBy(q, o, j)' = HeldBy(q, o, j) + 0
                                    + AtWork(executing'[q], o, j) - AtWork(executing[q], o, j)
            /\ AtWork(executing[q], o, j) \in Nat /\ AtWork(executing'[q], o, j) \in Nat
        BY <1>1, <4>1, HeldChange
      <4>3. HeldBy(q, o, j) \in Nat
        BY HeldIsCopied
      <4>4. AtWork(executing'[q], o, j) <= AtWork(executing[q], o, j)
        BY <3>3, <3>4, <3>6, <4>2
      <4> QED
        BY <4>2, <4>3, <4>4
    <3>10. Fewer(o, j)
      BY <1>1, <3>7, <3>8, <3>9 DEF Fewer
    <3> QED
      BY <3>1, <3>8, <3>10
  <2> QED
    BY <2>5, FewerKeeps
<1> QED
  BY <1>1, <1>2, <1>3 DEF note, job

\* Messages that hand out the jobs of a sequence.
LEMMA OffersWeigh ==
    ASSUME NEW s \in Seq(Incoming), NEW t \in Seq(JobIds), Len(s) = Len(t),
           NEW w, Weight(w), NEW j,
           \A i \in DOMAIN s : w[s[i]] = IF t[i] = j THEN 1 ELSE 0
    PROVE  SeqWeight(w, s) = QueuedIn(t, j)
<1> DEFINE f == [i \in DOMAIN s |-> w[s[i]]]
<1>1. DOMAIN t = DOMAIN s
  OBVIOUS
<1>2. /\ SeqWeight(w, s) = SumFunctionOnSet(f, DOMAIN s)
      /\ IsFiniteSet(DOMAIN s)
  BY SeqTerms
<1>3. \A i \in DOMAIN s : f[i] \in {0, 1} /\ (f[i] = 1 <=> t[i] = j)
  OBVIOUS
<1> HIDE DEF f
<1>4. SumFunctionOnSet(f, DOMAIN s) = Cardinality({i \in DOMAIN s : f[i] = 1})
  BY <1>2, <1>3, SumOfSome
<1>5. {i \in DOMAIN s : f[i] = 1} = {i \in DOMAIN t : t[i] = j}
  BY <1>1, <1>3
<1> QED
  BY <1>2, <1>4, <1>5 DEF QueuedIn

\* Jobs leave the queue of p for a peer that asked; where each goes is on record.
LEMMA OnJobRequestKeeps ==
    ASSUME TypeOK, TypeOK', NetFinite, NEW p \in Peers, NEW m, Handled(p, m),
           m.type = "RequestJobs", OnJobRequest(p, m)
    PROVE  Keeps
<1> DEFINE n == IF m.count < Len(queue[p]) THEN m.count ELSE Len(queue[p])
           handed == SubSeq(queue[p], 1, n)
           offers == [i \in 1..n |-> DelegateJob(p, m.src, handed[i], Description(p, handed[i]))]
           no == Refusal(p, m, n)
<1>1. /\ NetFinite'
      /\ n \in 0..Len(queue[p]) /\ n <= m.count
      /\ handed \in Seq(JobIds) /\ Len(handed) = n
      /\ offers \in Seq(Incoming) /\ Len(offers) = n /\ no \in Seq(Incoming)
      /\ queue' = [queue EXCEPT ![p] = Remaining(p, n)]
      /\ jobs' = [jobs EXCEPT ![p] = [j \in DOMAIN jobs[p] \cup Range(handed) |->
                    IF j \in Range(handed) THEN Delegated(p, m, j) ELSE jobs[p][j]]]
      /\ UNCHANGED <<executing, open>>
      /\ \A w : Weight(w) => Moves(w, SeqWeight(w, offers) + SeqWeight(w, no) - w[m])
  BY OnJobRequestMoves
<1> HIDE DEF n, handed
<1>2. m \in Incoming /\ m.dst = p /\ m.src \in Peers
  BY Fields DEF Handled
<1>3. \A i \in DOMAIN offers : offers[i] = DelegateJob(p, m.src, handed[i], Description(p, handed[i]))
                               /\ offers[i] \in Incoming
  BY <1>1
<1> HIDE DEF offers
<1>4. ASSUME NEW w, Steady(w)
      PROVE  Moves(w, SeqWeight(w, offers)) /\ SeqWeight(w, offers) \in Int
  <2>1. w[m] = 0 /\ SeqWeight(w, offers) \in Int
    BY <1>1, <1>2, <1>4, SeqTerms DEF Steady, Carrying
  <2>2. SeqWeight(w, no) = 0
    <3>1. \A i \in DOMAIN no : no[i] \in Incoming /\ no[i].type = "NoMoreJobs"
      <4>1. \A i \in DOMAIN no : no[i] = NoMoreJobs(p, m.src)
        BY DEF Refusal
      <4> HIDE DEF no
      <4> QED
        BY <1>1, <4>1 DEF NoMoreJobs
    <3> HIDE DEF no
    <3>2. \A i \in DOMAIN no : w[no[i]] = 0
      BY <1>4, <3>1 DEF Steady, Carrying
    <3>3. SeqWeight(w, no) = 0 * Len(no)
      BY <1>1, <1>4, <3>2, SameWeight DEF Steady
    <3>4. Len(no) \in Nat
      BY <1>1
    <3> QED
      BY <3>3, <3>4
  <2> HIDE DEF no
  <2>3. SeqWeight(w, offers) + SeqWeight(w, no) - w[m] = SeqWeight(w, offers)
    BY <2>1, <2>2
  <2>4. Moves(w, SeqWeight(w, offers) + SeqWeight(w, no) - w[m])
    BY <1>1, <1>4 DEF Steady
  <2> QED
    BY <2>1, <2>3, <2>4
<1> HIDE DEF no
<1>5. \A o \in Peers : queue'[o] = IF o = p THEN Remaining(p, n) ELSE queue[o]
  BY <1>1 DEF TypeOK
<1>6. \A o \in Peers : jobs'[o] = IF o = p THEN [j \in DOMAIN jobs[p] \cup Range(handed) |->
                    IF j \in Range(handed) THEN Delegated(p, m, j) ELSE jobs[p][j]] ELSE jobs[o]
  BY <1>1 DEF TypeOK
<1>7. ASSUME NEW o \in Peers, NEW j \in JobIds
      PROVE  /\ Safe(o, j) => Safe(o, j)'
             /\ Recorded(o, j) => Recorded(o, j)'
  <2> DEFINE k == IF o = p THEN QueuedIn(handed, j) ELSE 0
             Q == QueuedIn(queue[o], j)
             R == QueuedIn(queue'[o], j)
  <2>1. QueuedIn(handed, j) \in Nat /\ (QueuedIn(handed, j) >= 1 <=> j \in Range(handed))
    BY <1>1, QueuedInType
  <2>2. SeqWeight(CarryWeight(o, j), offers) = k
    <3> DEFINE w == CarryWeight(o, j)
    <3>1. \A i \in DOMAIN offers : w[offers[i]] = IF o = p /\ handed[i] = j THEN 1 ELSE 0
      <4> SUFFICES ASSUME NEW i \in DOMAIN offers
                   PROVE  w[offers[i]] = IF o = p /\ handed[i] = j THEN 1 ELSE 0
        OBVIOUS
      <4>1. Carries(o, j, offers[i]) <=> o = p /\ handed[i] = j
        BY <1>3 DEF Carries, DelegateJob
      <4> QED
        BY <1>3, <4>1, CarryWeightType
    <3>2. Weight(w)
      BY CarryWeightType
    <3> HIDE DEF w
    <3>3. SeqWeight(w, offers) = k
      <4>1. CASE o = p
        <5>1. \A i \in DOMAIN offers : w[offers[i]] = IF handed[i] = j THEN 1 ELSE 0
          BY <3>1, <4>1
        <5>2. /\ offers \in Seq(Incoming) /\ handed \in Seq(JobIds)
              /\ Len(offers) = Len(handed)
          BY <1>1
        <5>3. SeqWeight(w, offers) = QueuedIn(handed, j)
          BY <3>2, <5>1, <5>2, OffersWeigh
        <5> QED
          BY <4>1, <5>3
      <4>2. CASE o # p
        <5>1. SeqWeight(w, offers) = 0 * Len(offers)
          BY <1>1, <3>1, <3>2, <4>2, SameWeight
        <5>2. Len(offers) \in Nat
          BY <1>1
        <5>3. 0 * Len(offers) = 0
          BY <5>2
        <5> QED
          BY <4>2, <5>1, <5>3
      <4> QED
        BY <4>1, <4>2
    <3> QED
      BY <3>3 DEF w
  <2>3. ASSUME NEW q \in Peers
        PROVE  SeqWeight(OfferWeight(q, o, j), offers) = IF q = m.src THEN k ELSE 0
    <3> DEFINE w == OfferWeight(q, o, j)
    <3>1. \A i \in DOMAIN offers :
            w[offers[i]] = IF q = m.src /\ o = p /\ handed[i] = j THEN 1 ELSE 0
      <4> SUFFICES ASSUME NEW i \in DOMAIN offers
                   PROVE  w[offers[i]] = IF q = m.src /\ o = p /\ handed[i] = j THEN 1 ELSE 0
        OBVIOUS
      <4>1. /\ offers[i].type = "DelegateJob" /\ offers[i].src = p
            /\ offers[i].id = handed[i] /\ offers[i].dst = m.src
        BY <1>3 DEF DelegateJob
      <4> QED
        BY <1>3, <4>1, CarryIsSteady
    <3>2. Weight(w)
      BY CarryIsSteady DEF Steady
    <3> HIDE DEF w
    <3>3. SeqWeight(w, offers) = IF q = m.src THEN k ELSE 0
      <4>1. CASE q = m.src /\ o = p
        <5>1. \A i \in DOMAIN offers : w[offers[i]] = IF handed[i] = j THEN 1 ELSE 0
          BY <3>1, <4>1
        <5>2. /\ offers \in Seq(Incoming) /\ handed \in Seq(JobIds)
              /\ Len(offers) = Len(handed)
          BY <1>1
        <5>3. SeqWeight(w, offers) = QueuedIn(handed, j)
          BY <3>2, <5>1, <5>2, OffersWeigh
        <5> QED
          BY <4>1, <5>3
      <4>2. CASE ~(q = m.src /\ o = p)
        <5>1. SeqWeight(w, offers) = 0 * Len(offers)
          BY <1>1, <3>1, <3>2, <4>2, SameWeight
        <5>2. Len(offers) \in Nat
          BY <1>1
        <5>3. 0 * Len(offers) = 0
          BY <5>2
        <5> QED
          BY <4>2, <5>1, <5>3
      <4> QED
        BY <4>1, <4>2
    <3> QED
      BY <3>3 DEF w
  <2>4. k \in Nat /\ Q \in Nat /\ R \in Nat /\ Q = R + k
    <3>1. Q \in Nat /\ R \in Nat
      BY QueuedInType DEF TypeOK
    <3>2. CASE o = p
      <4>1. Q = QueuedIn(handed, j) + QueuedIn(Remaining(p, n), j)
        BY <1>1, <3>2, QueuedInParts DEF handed
      <4>2. R = QueuedIn(Remaining(p, n), j)
        BY <1>5, <3>2
      <4> HIDE DEF Q, R
      <4> QED
        BY <2>1, <3>1, <3>2, <4>1, <4>2
    <3>3. CASE o # p
      <4>1. R = Q
        BY <1>5, <3>3
      <4> HIDE DEF Q, R
      <4> QED
        BY <3>1, <3>3, <4>1
    <3> QED
      BY <3>2, <3>3
  <2>5. o = p /\ k >= 1 <=> o = p /\ j \in Range(handed)
    BY <2>1
  <2>5a. k >= 1 => o = p
    OBVIOUS
  <2> HIDE DEF k
  <2>6. Copied(o, j)' = Copied(o, j) /\ Copied(o, j) \in Nat
    <3>1. Moves(CarryWeight(o, j), k)
      BY <1>4, <2>2, CarryIsSteady
    <3>2. AtWork(executing[o], o, j) \in Int
      BY AtWorkType DEF TypeOK, FiniteMap
    <3>3. /\ Copied(o, j)' = Copied(o, j) + R - Q + k
                               + AtWork(executing'[o], o, j) - AtWork(executing[o], o, j)
          /\ Copied(o, j) \in Nat
      BY <1>1, <2>4, <3>1, CopiedChange
    <3> HIDE DEF Q, R
    <3> QED
      BY <1>1, <2>4, <3>2, <3>3
  <2>7. ASSUME NEW q \in Peers
        PROVE  /\ HeldBy(q, o, j)' = HeldBy(q, o, j) + (IF q = m.src THEN k ELSE 0)
               /\ HeldBy(q, o, j) \in Nat /\ Q + HeldBy(q, o, j) <= Copied(o, j)
    <3> DEFINE d == IF q = m.src THEN k ELSE 0
    <3>1. Moves(OfferWeight(q, o, j), d)
      BY <1>4, <2>3, CarryIsSteady
    <3>2. d \in Int
      BY <2>4
    <3> HIDE DEF d
    <3>3. /\ HeldBy(q, o, j)' = HeldBy(q, o, j) + d
                                  + AtWork(executing'[q], o, j) - AtWork(executing[q], o, j)
          /\ AtWork(executing[q], o, j) \in Nat
      BY <1>1, <3>1, <3>2, HeldChange
    <3>4. HeldBy(q, o, j) \in Nat /\ Q + HeldBy(q, o, j) <= Copied(o, j)
      BY HeldIsCopied
    <3>5. HeldBy(q, o, j)' = HeldBy(q, o, j) + d
      BY <1>1, <3>2, <3>3, <3>4
    <3> QED
      BY <3>4, <3>5 DEF d
  <2>8. CASE k = 0
    <3>1. SameRecord(o, j) /\ NotAged(o, j)
      <4>1. o = p => j \notin Range(handed)
        BY <2>5, <2>8
      <4> QED
        BY <1>6, <4>1 DEF SameRecord, NotAged
    <3>2. Fewer(o, j)
      <4>1. R = Q
        <5> HIDE DEF R, Q
        <5> QED
          BY <2>4, <2>8
      <4>2. \A q \in Peers : HeldBy(q, o, j)' = HeldBy(q, o, j) /\ HeldBy(q, o, j) \in Nat
        BY <2>7, <2>8
      <4> QED
        BY <2>6, <4>1, <4>2 DEF Fewer
    <3>3. Safe(o, j) => Safe(o, j)'
      BY <2>6, <3>1 DEF Safe, SameRecord
    <3>4. Recorded(o, j) => Recorded(o, j)'
      BY <3>1, <3>2, FewerRecorded
    <3> QED
      BY <3>3, <3>4
  <2>9. CASE k # 0
    <3>1. k >= 1 /\ o = p /\ j \in Range(handed)
      BY <2>4, <2>5, <2>5a, <2>9
    <3>2. j \in DOMAIN jobs'[o] /\ jobs'[o][j].exec = m.src /\ ~jobs'[o][j].stale
      <4>1. jobs'[o][j] = Delegated(p, m, j) /\ j \in DOMAIN jobs'[o]
        BY <1>6, <3>1
      <4> QED
        BY <4>1 DEF Delegated
    <3>3. HeldBy(o, o, j) \in Nat /\ Q + HeldBy(o, o, j) <= Copied(o, j)
      BY <2>7
    <3> HIDE DEF Q, R
    <3>4. Copied(o, j)' >= 1 /\ Q >= 1
      BY <2>4, <2>6, <3>1, <3>3
    <3>5. ASSUME Recorded(o, j)
          PROVE  Recorded(o, j)'
      <4>1. Copied(o, j) = 1
        BY <2>6, <3>4, <3>5 DEF Recorded
      <4>2. Q = 1 /\ R = 0 /\ k = 1
        BY <2>4, <3>1, <3>3, <4>1
      <4>3. \A q \in Peers : HeldBy(q, o, j) = 0 /\ (HeldBy(q, o, j)' >= 1 => q = m.src)
        <5> SUFFICES ASSUME NEW q \in Peers
                     PROVE  HeldBy(q, o, j) = 0 /\ (HeldBy(q, o, j)' >= 1 => q = m.src)
          OBVIOUS
        <5>1. HeldBy(q, o, j) = 0
          BY <2>7, <4>1, <4>2
        <5>2. q # m.src => HeldBy(q, o, j)' = 0
          BY <2>7, <5>1
        <5> QED
          BY <5>1, <5>2
      <4>4. m.src # None
        BY <1>2, PeersAssumption
      <4>5. Copied(o, j)' <= 1 /\ ~(R >= 1)
        BY <2>6, <4>1, <4>2
      <4> QED
        BY <3>2, <4>3, <4>4, <4>5 DEF Recorded, R
    <3> QED
      BY <3>4, <3>5 DEF Safe
  <2> QED
    BY <2>8, <2>9
<1> QED
  BY <1>7 DEF Keeps, AllSafe, AllRecorded

-----------------------------------------------------------------------------
(* What each step keeps. *)

\* Nothing is lost, as long as nothing was lost on the way and no process has ended; and
\* no job is with two workers, as long as none was given up.
Conserves ==
    /\ NotEnded' /\ spent'["lose"] = 0 => (AllSafe => AllSafe')
    /\ spent'["expire"] = 0 => (AllRecorded => AllRecorded')

\* A process that ends takes no message into its books.
LEMMA DieConserves ==
    ASSUME TypeOK, TypeOK', NetFinite, NEW p \in Peers, NEW m, Handled(p, m), NEW cause,
           cause \notin {"off", "up"}, Die(m, cause)
    PROVE  Conserves
<1>1. Consume(m) /\ UNCHANGED peerVars /\ status' = [status EXCEPT ![m.dst] = cause] /\ m.dst = p
  BY DEF Die, Handled
<1>2. ~NotEnded'
  BY <1>1 DEF NotEnded, TypeOK
<1>3. AllRecorded => AllRecorded'
  BY <1>1, DropRecorded DEF peerVars
<1> QED
  BY <1>2, <1>3 DEF Conserves

\* The owner hears that a job is done, and forgets it.
LEMMA OnDelegatedJobCompletedConserves ==
    ASSUME TypeOK, TypeOK', NetFinite, NEW p \in Peers, NEW m, Handled(p, m),
           m.type = "JobCompleted", OnDelegatedJobCompleted(p, m)
    PROVE  Conserves
<1>1. CASE m.id \notin DOMAIN jobs[p]
  BY <1>1, DieConserves DEF OnDelegatedJobCompleted
<1>2. CASE m.id \in DOMAIN jobs[p]
  <2>1. /\ jobs' = [jobs EXCEPT ![p] = Without(p, m.id)]
        /\ Consume(m) /\ UNCHANGED <<queue, executing>> /\ m.dst = p
    BY <1>2 DEF OnDelegatedJobCompleted, Handled
  <2>2. ASSUME NEW o \in Peers, NEW j \in JobIds
        PROVE  /\ Safe(o, j) => Safe(o, j)'
               /\ Recorded(o, j) => Recorded(o, j)'
    <3> DEFINE done == o = p /\ j = m.id
    <3>1. /\ Copied(o, j) \in Nat /\ Copied(o, j)' \in Nat /\ Fewer(o, j)
          /\ Copied(o, j)' = Copied(o, j) - (IF done THEN 1 ELSE 0)
      <4>1. Carries(o, j, m) <=> done
        BY <2>1 DEF Carries
      <4> QED
        BY <2>1, <4>1, TakenCopies
    <3>2. CASE done
      <4>1. j \notin DOMAIN jobs'[o] /\ j \in DOMAIN jobs[o]
        BY <1>2, <2>1, <3>2 DEF Without, TypeOK
      <4>2. Recorded(o, j) => Copied(o, j)' = 0
        BY <3>1, <3>2, <4>1 DEF Recorded
      <4> QED
        BY <4>1, <4>2 DEF Recorded, Safe
    <3>3. CASE ~done
      <4>1. SameRecord(o, j) /\ NotAged(o, j)
        <5>1. \A q \in Peers : jobs'[q] = IF q = p THEN Without(p, m.id) ELSE jobs[q]
          BY <2>1 DEF TypeOK
        <5> QED
          BY <3>3, <5>1 DEF SameRecord, NotAged, Without
      <4>2. Copied(o, j)' = Copied(o, j)
        BY <3>1, <3>3
      <4>3. Recorded(o, j) => Recorded(o, j)'
        BY <3>1, <4>1, FewerRecorded
      <4>4. Safe(o, j) => Safe(o, j)'
        BY <4>1, <4>2 DEF Safe, SameRecord
      <4> QED
        BY <4>3, <4>4
    <3> QED
      BY <3>2, <3>3
  <2> QED
    BY <2>2 DEF Conserves, AllSafe, AllRecorded
<1> QED
  BY <1>1, <1>2

\* The owner hears of a job's progress.
LEMMA OnDelegatedJobUpdateConserves ==
    ASSUME TypeOK, TypeOK', NetFinite, NEW p \in Peers, NEW m, Handled(p, m),
           m.type = "JobUpdate", OnDelegatedJobUpdate(p, m)
    PROVE  Conserves
<1>1. CASE m.id \notin DOMAIN jobs[p]
  BY <1>1, DieConserves DEF OnDelegatedJobUpdate
<1>2. CASE m.id \in DOMAIN jobs[p]
  <2>1. Consume(m) /\ UNCHANGED <<jobs, queue, executing>>
    BY <1>2 DEF OnDelegatedJobUpdate, peerVars
  <2>2. Keeps
    BY <2>1, TakingIsCalm, StillKeeps DEF Carrying
  <2> QED
    BY <2>2 DEF Keeps, Conserves
<1> QED
  BY <1>1, <1>2

LEMMA PeerMessageConserves ==
    ASSUME TypeOK, TypeOK', AwaitInv, CapacityRespected, IdInv, NEW p \in Peers,
           NEW m, Handled(p, m), OnReceivePeerMessage(p, m)
    PROVE  Conserves
<1>1. NetFinite
  BY DEF AwaitInv
<1>2. Keeps => Conserves
  BY DEF Keeps, Conserves
<1>3. CASE m.type = "AvailableWork" /\ OnAvailableWork(p, m)
  BY <1>1, <1>2, <1>3, OnAvailableWorkKeeps
<1>4. CASE m.type = "RequestJobs" /\ OnJobRequest(p, m)
  BY <1>1, <1>2, <1>4, OnJobRequestKeeps
<1>5. CASE m.type = "DelegateJob" /\ OnReceiveJob(p, m)
  BY <1>1, <1>2, <1>5, OnReceiveJobKeeps
<1>6. CASE m.type = "NoMoreJobs" /\ OnNotifiedNoJobs(p, m)
  BY <1>1, <1>2, <1>6, OnNotifiedNoJobsKeeps
<1>7. CASE m.type = "JobUpdate" /\ OnDelegatedJobUpdate(p, m)
  BY <1>1, <1>7, OnDelegatedJobUpdateConserves
<1>8. CASE m.type = "JobCompleted" /\ OnDelegatedJobCompleted(p, m)
  BY <1>1, <1>8, OnDelegatedJobCompletedConserves
<1>9. CASE m.type = "CancelJob" /\ OnJobRetracted(p, m)
  <2>1. Consume(m) /\ UNCHANGED <<jobs, queue, executing>>
    BY <1>9 DEF OnJobRetracted, peerVars
  <2> QED
    BY <1>1, <1>2, <1>9, <2>1, TakingIsCalm, StillKeeps DEF Carrying
<1> QED
  BY <1>3, <1>4, <1>5, <1>6, <1>7, <1>8, <1>9 DEF OnReceivePeerMessage

\* A client's job is new, and queued at once.
LEMMA OnClientJobRequestKeeps ==
    ASSUME TypeOK, TypeOK', NetFinite, IdInv, NEW p \in Peers, NEW m, Handled(p, m),
           m.type = "Post", OnClientJobRequest(p, m)
    PROVE  Keeps
<1> DEFINE new == nextId[p]
           one == <<new>>
           record == [client |-> m.src, exec |-> None, stale |-> FALSE]
<1>1. /\ jobs' = [jobs EXCEPT ![p] = [k \in DOMAIN jobs[p] \cup {new} |->
                    IF k = new THEN record ELSE jobs[p][k]]]
      /\ queue' = [queue EXCEPT ![p] = queue[p] \o one]
      /\ UNCHANGED executing
  <2>1. queue[p] \in Seq(JobIds) /\ new \in JobIds
    BY DEF TypeOK, JobIds
  <2>2. Append(queue[p], new) = queue[p] \o one
    BY <2>1
  <2> QED
    BY <2>2 DEF OnClientJobRequest
<1>2. new \notin DOMAIN jobs[p] /\ new \in JobIds
  <2>1. \A k \in DOMAIN jobs[p] : k < new /\ k \in Nat
    BY DEF IdInv, OwnId, TypeOK, FiniteMap, JobIds
  <2>2. new \in JobIds /\ ~(new < new)
    BY DEF TypeOK, JobIds
  <2> QED
    BY <2>1, <2>2
<1>3. record.exec = None /\ ~record.stale
  OBVIOUS
<1>3a. /\ one \in Seq(JobIds)
       /\ \A j : QueuedIn(one, j) = IF j = new THEN 1 ELSE 0
  BY <1>2, QueuedInOne
<1> HIDE DEF new, record, one
<1>4. Calm /\ SameThreads
  <2>1. Calm
    BY OnClientJobRequestMoves, TameIsCalm
  <2> QED
    BY <1>1, <2>1 DEF SameThreads
<1>5. ASSUME NEW o \in Peers, NEW j \in JobIds
      PROVE  /\ Safe(o, j) => Safe(o, j)'
             /\ Recorded(o, j) => Recorded(o, j)'
  <2> DEFINE Q == QueuedIn(queue[o], j)
             R == QueuedIn(queue'[o], j)
  <2>1. /\ Copied(o, j)' = Copied(o, j) + R - Q
        /\ Copied(o, j) \in Nat /\ Q \in Nat /\ R \in Nat
        /\ \A q \in Peers : HeldBy(q, o, j)' = HeldBy(q, o, j) /\ HeldBy(q, o, j) \in Nat
        /\ R = Q => Fewer(o, j)
    BY <1>4, CalmCopies
  <2>2. CASE o = p /\ j = new
    <3>1. j \notin DOMAIN jobs[o] /\ j \in DOMAIN jobs'[o] /\ jobs'[o][j] = record
      BY <1>1, <1>2, <2>2 DEF TypeOK
    <3>2. R = Q + 1
      <4>1. queue'[o] = queue[o] \o one /\ queue[o] \in Seq(JobIds)
        BY <1>1, <1>2, <2>2 DEF TypeOK
      <4>2. R = Q + QueuedIn(one, j)
        BY <1>3a, <4>1, QueuedInConcat
      <4>3. QueuedIn(one, j) = 1
        BY <1>3a, <2>2
      <4> QED
        BY <4>2, <4>3
    <3> HIDE DEF R, Q
    <3>3. Copied(o, j)' = Copied(o, j) + 1
      BY <2>1, <3>2
    <3>4. ASSUME Recorded(o, j)
          PROVE  Recorded(o, j)'
      <4>1. Copied(o, j) = 0
        BY <3>1, <3>4 DEF Recorded
      <4>2. \A q \in Peers : HeldBy(q, o, j) <= Copied(o, j)
        <5> SUFFICES ASSUME NEW q \in Peers
                     PROVE  HeldBy(q, o, j) <= Copied(o, j)
          OBVIOUS
        <5>1. Q \in Nat /\ HeldBy(q, o, j) \in Nat /\ Q + HeldBy(q, o, j) <= Copied(o, j)
          BY HeldIsCopied DEF Q
        <5> QED
          BY <2>1, <5>1
      <4>3. R >= 1 /\ Copied(o, j)' <= 1
        BY <2>1, <3>2, <3>3, <4>1
      <4>4. \A q \in Peers : ~(HeldBy(q, o, j)' >= 1)
        BY <2>1, <4>1, <4>2
      <4> QED
        BY <1>3, <3>1, <4>3, <4>4 DEF Recorded, R
    <3>5. Copied(o, j)' >= 1
      BY <2>1, <3>3
    <3> QED
      BY <3>4, <3>5 DEF Safe
  <2>3. CASE ~(o = p /\ j = new)
    <3>1. SameRecord(o, j) /\ NotAged(o, j)
      <4>1. \A q \in Peers : jobs'[q] = IF q = p THEN [k \in DOMAIN jobs[p] \cup {new} |->
                    IF k = new THEN record ELSE jobs[p][k]] ELSE jobs[q]
        BY <1>1 DEF TypeOK
      <4> QED
        <5>1. CASE o = p
          <6>1. j \in DOMAIN jobs'[o] <=> j \in DOMAIN jobs[o]
            <7>1. DOMAIN jobs'[o] = DOMAIN jobs[p] \cup {new}
              BY <4>1, <5>1
            <7> QED
              BY <2>3, <5>1, <7>1
          <6>2. j \in DOMAIN jobs[o] => jobs'[o][j] = jobs[o][j]
            BY <2>3, <4>1, <5>1
          <6> QED
            BY <6>1, <6>2 DEF SameRecord, NotAged
        <5>2. CASE o # p
          BY <4>1, <5>2 DEF SameRecord, NotAged
        <5> QED
          BY <5>1, <5>2
    <3>2. R = Q
      <4>1. CASE o # p
        BY <1>1, <4>1 DEF TypeOK
      <4>2. CASE o = p
        <5>1. queue'[o] = queue[o] \o one /\ queue[o] \in Seq(JobIds)
          BY <1>1, <1>2, <4>2 DEF TypeOK
        <5>2. R = Q + QueuedIn(one, j)
          BY <1>3a, <5>1, QueuedInConcat
        <5>3. QueuedIn(one, j) = 0
          BY <1>3a, <2>3, <4>2
        <5> HIDE DEF R, Q
        <5> QED
          BY <2>1, <5>2, <5>3
      <4> QED
        BY <4>1, <4>2
    <3>3. Fewer(o, j)
      BY <2>1, <3>2
    <3>4. Copied(o, j)' = Copied(o, j)
      <4> HIDE DEF R, Q
      <4> QED
        BY <2>1, <3>2
    <3>5. Recorded(o, j) => Recorded(o, j)'
      BY <3>1, <3>3, FewerRecorded
    <3> QED
      BY <3>1, <3>4, <3>5 DEF Safe, SameRecord
  <2> QED
    BY <2>2, <2>3
<1> QED
  BY <1>5 DEF Keeps, AllSafe, AllRecorded

\* Stale jobs are queued again; where none is stale the queue stays.
LEMMA OnStatusCheckKeeps ==
    ASSUME TypeOK, TypeOK', NetFinite, NEW p \in Peers, OnStatusCheck(p)
    PROVE  Keeps
<1>1. Calm /\ UNCHANGED <<jobs, executing>>
  BY OnStatusCheckMoves, TameIsCalm
<1>2. PICK again \in Requeued(p) : queue' = [queue EXCEPT ![p] = queue[p] \o again]
  BY OnStatusCheckMoves
<1>3. SameThreads
  BY <1>1 DEF SameThreads
<1> DEFINE N == Cardinality(StaleJobs(p))
<1>4. StaleJobs(p) \subseteq JobIds /\ IsFiniteSet(StaleJobs(p)) /\ N \in Nat
  <2>1. DOMAIN jobs[p] \subseteq JobIds /\ IsFiniteSet(DOMAIN jobs[p])
    BY DEF TypeOK, FiniteMap
  <2>2. StaleJobs(p) \subseteq DOMAIN jobs[p]
    BY DEF StaleJobs
  <2>3. IsFiniteSet(StaleJobs(p))
    BY <2>1, <2>2, FS_Subset
  <2> QED
    BY <2>1, <2>2, <2>3, FS_CardinalityType
<1>5. again \in [1..N -> StaleJobs(p)]
  BY DEF Requeued
<1> HIDE DEF N
<1>6. again \in Seq(JobIds)
  <2>1. again \in Seq(StaleJobs(p))
    BY <1>4, <1>5
  <2> QED
    BY <1>4, <2>1
<1>7. AllSafe => AllSafe'
  <2> SUFFICES ASSUME AllSafe, NEW o \in Peers, NEW j \in JobIds
               PROVE  Safe(o, j)'
    BY DEF AllSafe
  <2> DEFINE Q == QueuedIn(queue[o], j)
             R == QueuedIn(queue'[o], j)
  <2>1. /\ Copied(o, j)' = Copied(o, j) + R - Q
        /\ Copied(o, j) \in Nat /\ Q \in Nat /\ R \in Nat
    BY <1>1, <1>3, CalmCopies
  <2>2. R >= Q
    <3>1. CASE o = p
      <4>1. queue'[o] = queue[o] \o again /\ queue[o] \in Seq(JobIds)
        BY <1>2, <3>1 DEF TypeOK
      <4>2. R = Q + QueuedIn(again, j)
        BY <1>6, <4>1, QueuedInConcat
      <4>3. QueuedIn(again, j) \in Nat
        BY <1>6, QueuedInType
      <4> HIDE DEF Q, R
      <4> QED
        BY <2>1, <4>2, <4>3
    <3>2. CASE o # p
      <4>1. R = Q
        BY <1>2, <3>2 DEF TypeOK
      <4> HIDE DEF Q, R
      <4> QED
        BY <2>1, <4>1
    <3> QED
      BY <3>1, <3>2
  <2> HIDE DEF Q, R
  <2>3. Copied(o, j)' >= Copied(o, j) /\ Safe(o, j)
    BY <2>1, <2>2 DEF AllSafe
  <2> QED
    BY <1>1, <2>1, <2>3 DEF Safe
<1>8. ASSUME AllRecorded
      PROVE  AllRecorded'
  <2>1. StaleJobs(p) = {}
    <3>1. \A j \in DOMAIN jobs[p] : j \in JobIds
      BY DEF TypeOK, FiniteMap
    <3>2. \A j \in DOMAIN jobs[p] : ~jobs[p][j].stale
      BY <1>8, <3>1 DEF AllRecorded, Recorded
    <3> QED
      BY <3>2 DEF StaleJobs
  <2>2. N = 0
    BY <2>1, FS_EmptySet DEF N
  <2>3. again = << >>
    BY <1>5, <2>1, <2>2
  <2>4. queue' = queue
    BY <1>2, <2>3 DEF TypeOK
  <2> QED
    BY <1>1, <1>8, <2>4, StillKeeps DEF Keeps
<1> QED
  BY <1>7, <1>8 DEF Keeps

\* A thread reports, or its job is done.
LEMMA WorkerKeeps ==
    ASSUME TypeOK, TypeOK', NetFinite, NEW p \in Peers, NEW i \in DOMAIN executing[p],
           WorkerUpdate(p, i) \/ WorkerFinish(p, i)
    PROVE  Keeps
<1>1. Calm /\ UNCHANGED <<jobs, queue>>
  BY WorkerMoves, TameIsCalm
<1>2. SameThreads
  <2>1. CASE WorkerUpdate(p, i)
    BY <2>1 DEF WorkerUpdate, peerVars, SameThreads
  <2>2. CASE WorkerFinish(p, i)
    <3>1. executing' = [executing EXCEPT ![p][i] = [executing[p][i] EXCEPT !.done = TRUE]]
      BY <2>2 DEF WorkerFinish
    <3>2. executing[p][i] \in RunningJob
      BY DEF TypeOK, FiniteMap
    <3>3. \A q \in Peers : executing'[q] =
            IF q = p THEN [executing[p] EXCEPT ![i] = [executing[p][i] EXCEPT !.done = TRUE]]
            ELSE executing[q]
      BY <3>1 DEF TypeOK
    <3>4. /\ [executing[p][i] EXCEPT !.done = TRUE].owner = executing[p][i].owner
          /\ [executing[p][i] EXCEPT !.done = TRUE].id = executing[p][i].id
      BY <3>2 DEF RunningJob
    <3> QED
      BY <3>3, <3>4 DEF SameThreads
  <2> QED
    BY <2>1, <2>2
<1>3. \A o \in Peers, j \in JobIds : SameRecord(o, j) /\ NotAged(o, j)
  BY <1>1 DEF SameRecord, NotAged
<1> QED
  BY <1>1, <1>2, <1>3, CalmKeeps

\* Nothing is sent or received, and the books stay.
LEMMA UnmovedKeeps ==
    ASSUME TypeOK, TypeOK', NetFinite, UNCHANGED <<jobs, queue, executing, net, posted>>
    PROVE  Keeps
<1>1. NetFinite' /\ \A w : Load(w, net, posted) \in Int => Moves(w, 0)
  BY DEF NetFinite, Moves
<1>2. Calm
  <2>1. MailOf(net, posted)
    BY MailType
  <2>2. \A w : Steady(w) => Load(w, net, posted) \in Int
    BY <2>1, LoadType DEF Steady
  <2> QED
    BY <1>1, <2>2 DEF Calm
<1> QED
  BY <1>2, StillKeeps

\* A job that times out is still where it was.
LEMMA ExpireConserves ==
    ASSUME TypeOK, TypeOK', NetFinite, NEW p \in Peers, NEW j \in DOMAIN jobs[p], Expire(p, j)
    PROVE  Conserves
<1>1. spent'["expire"] # 0
  BY DEF Expire, Spend, TypeOK, Events
<1>2. UNCHANGED <<queue, executing, net, posted>>
  BY DEF Expire
<1>3. Calm /\ SameThreads
  <2>1. \A w : Steady(w) => Load(w, net, posted) \in Int
    BY MailType, LoadType DEF Steady
  <2> QED
    BY <1>2, <2>1 DEF Calm, Moves, NetFinite, SameThreads
<1>4. \A o \in Peers, k \in JobIds : SameRecord(o, k)
  <2>1. jobs' = [jobs EXCEPT ![p][j] = [jobs[p][j] EXCEPT !.stale = TRUE]]
    BY DEF Expire
  <2>2. \A o \in Peers : jobs'[o] =
          IF o = p THEN [jobs[p] EXCEPT ![j] = [jobs[p][j] EXCEPT !.stale = TRUE]] ELSE jobs[o]
    BY <2>1 DEF TypeOK
  <2>3. [jobs[p][j] EXCEPT !.stale = TRUE].exec = jobs[p][j].exec
    BY DEF TypeOK, FiniteMap, OwnedJob
  <2> QED
    BY <2>2, <2>3 DEF SameRecord
<1>5. AllSafe => AllSafe'
  BY <1>2, <1>3, <1>4, CalmKeeps
<1> QED
  BY <1>1, <1>5 DEF Conserves

LEMMA LoseConserves ==
    ASSUME TypeOK, TypeOK', NetFinite, NEW m \in DOMAIN net, Lose(m)
    PROVE  Conserves
<1>1. spent'["lose"] # 0
  BY DEF Lose, Spend, TypeOK, Events
<1>2. m.dst \in Peers /\ Handled(m.dst, m)
  BY DEF TypeOK, Parcels, Handled, Incoming, Local, Message, ClientPost
<1>3. Consume(m) /\ UNCHANGED <<jobs, queue, executing>>
  BY DEF Lose, peerVars
<1> QED
  BY <1>1, <1>2, <1>3, DropRecorded DEF Conserves

\* A job on its way is discarded only by a process that has ended: its sender and its
\* receiver know each other, so the receiver has been started and does not ignore it.
LEMMA DiscardConserves ==
    ASSUME TypeOK, TypeOK', NetFinite, AcquaintInv, OffStranger, NEW p \in Peers,
           NEW m \in DOMAIN net, m.dst = p, Discard(m)
    PROVE  Conserves
<1>1. Handled(p, m)
  BY DEF TypeOK, Parcels, Handled, Incoming, Local
<1>2. Consume(m) /\ UNCHANGED <<status, jobs, queue, executing>>
  BY DEF Discard, peerVars
<1>3. AllRecorded => AllRecorded'
  BY <1>1, <1>2, DropRecorded
<1>4. ASSUME NotEnded', m.type \in Carrying
      PROVE  FALSE
  <2>1. Mutual(m.src, p) /\ m.src # p
    <3>1. Friendly(m) /\ ~Local(m)
      <4>1. m \in InFlight
        BY DEF InFlight
      <4> QED
        BY <1>4, <4>1 DEF AcquaintInv, TypeOK, Parcels, Carrying, Local
    <3> QED
      BY <1>4, <3>1 DEF Friendly, WorkTypes, Carrying, Local
  <2>2. m.src \in known[p]
    BY <2>1 DEF Mutual
  <2>3. Alive(p)
    BY <1>2, <1>4, <2>2 DEF OffStranger, NotEnded, Alive
  <2> QED
    BY <1>4, <2>2, <2>3 DEF Discard, IsPeerKnown
<1>5. ASSUME m.type \notin Carrying
      PROVE  Keeps
  BY <1>1, <1>2, <1>5, TakingIsCalm, StillKeeps
<1> QED
  BY <1>3, <1>4, <1>5 DEF Conserves, Keeps

LEMMA ServeConserves ==
    ASSUME TypeOK, TypeOK', AwaitInv, CapacityRespected, IdInv, AcquaintInv, OffStranger,
           NEW p \in Peers, Serve(p)
    PROVE  Conserves
<1>1. NetFinite /\ (Keeps => Conserves)
  BY DEF AwaitInv, Keeps, Conserves
<1>2. CASE RunPosted(p)
  <2> DEFINE m == Head(posted[p])
  <2>1. m \in Posts(p) /\ posted[p] # << >>
    BY <1>2 DEF RunPosted, TypeOK
  <2>2. Handled(p, m)
    BY <2>1 DEF Posts, Handled, Incoming, Local
  <2>3. \/ OnReceivePeerMessage(p, m)
        \/ m.type = "Updated" /\ OnJobUpdate(p, m)
        \/ m.type = "Finished" /\ OnJobProcessingCompleted(p, m)
    BY <1>2 DEF RunPosted
  <2> HIDE DEF m
  <2>4. ASSUME m.type = "Updated", OnJobUpdate(p, m)
        PROVE  Conserves
    <3>1. NetFinite' /\ UNCHANGED <<jobs, queue, executing>> /\ \A w : Tame(w) => Moves(w, 0)
      BY <1>1, <2>2, <2>4, OnJobUpdateMoves DEF peerVars
    <3> QED
      BY <1>1, <3>1, TameIsCalm, StillKeeps
  <2>5. ASSUME m.type = "Finished", OnJobProcessingCompleted(p, m)
        PROVE  Conserves
    BY <1>1, <2>2, <2>5, OnJobProcessingCompletedKeeps
  <2> QED
    BY <2>2, <2>3, <2>4, <2>5, PeerMessageConserves
<1>3. ASSUME NEW m \in DOMAIN net, m.dst = p, Deliver(m)
      PROVE  Conserves
  <2>1. Handled(p, m)
    BY <1>3 DEF TypeOK, Parcels, Handled, Incoming, Local
  <2>2. \/ m.type = "Ping" /\ OnPing(p, m)
        \/ m.type = "Post" /\ OnClientJobRequest(p, m)
        \/ OnReceivePeerMessage(p, m)
    BY <1>3 DEF Deliver
  <2> QED
    BY <1>1, <2>1, <2>2, PeerMessageConserves, OnPingKeeps, OnClientJobRequestKeeps
<1>4. ASSUME NEW m \in DOMAIN net, m.dst = p, Discard(m)
      PROVE  Conserves
  BY <1>1, <1>4, DiscardConserves
<1> QED
  BY <1>2, <1>3, <1>4 DEF Serve

LEMMA NextConserves ==
    ASSUME TypeOK, TypeOK', AwaitInv, CapacityRespected, IdInv, AcquaintInv, OffStranger,
           [Next]_vars
    PROVE  Conserves
<1>1. NetFinite /\ (Keeps => Conserves)
  BY DEF AwaitInv, Keeps, Conserves
<1>2. CASE UNCHANGED vars
  BY <1>1, <1>2, UnmovedKeeps DEF vars
<1>3. ASSUME NEW p \in Peers, Start(p)
      PROVE  Conserves
  <2>1. NetFinite' /\ UNCHANGED <<jobs, queue, executing>> /\ \A w : Tame(w) => Moves(w, 0)
    BY <1>1, <1>3, StartMoves DEF peerVars
  <2> QED
    BY <1>1, <2>1, TameIsCalm, StillKeeps
<1>4. ASSUME NEW p \in Peers, Crash(p)
      PROVE  Conserves
  BY <1>1, <1>4, UnmovedKeeps DEF Crash, peerVars
<1>5. ASSUME NEW p \in Peers, NEW i \in DOMAIN executing[p], NoExecutorTerminates(p, i)
      PROVE  Conserves
  BY <1>1, <1>5, UnmovedKeeps DEF NoExecutorTerminates, peerVars
<1>6. ASSUME NEW p \in Peers, NEW i \in DOMAIN executing[p], WorkerUpdate(p, i) \/ WorkerFinish(p, i)
      PROVE  Conserves
  BY <1>1, <1>6, WorkerKeeps
<1>7. ASSUME NEW p \in Peers, OnStatusCheck(p)
      PROVE  Conserves
  BY <1>1, <1>7, OnStatusCheckKeeps
<1>8. ASSUME NEW p \in Peers, NEW j \in DOMAIN jobs[p], Expire(p, j)
      PROVE  Conserves
  BY <1>1, <1>8, ExpireConserves
<1>9. ASSUME NEW c \in Clients, PostJob(c)
      PROVE  Conserves
  <2>1. NetFinite' /\ UNCHANGED <<jobs, queue, executing>> /\ \A w : Tame(w) => Moves(w, 0)
    BY <1>1, <1>9, PostJobMoves DEF peerVars
  <2> QED
    BY <1>1, <2>1, TameIsCalm, StillKeeps
<1>10. ASSUME NEW c \in Clients, NEW p \in Peers, Register(c, p)
       PROVE  Conserves
  BY <1>1, <1>10, UnmovedKeeps DEF Register, peerVars
<1>11. ASSUME NEW m \in DOMAIN net, Lose(m)
       PROVE  Conserves
  BY <1>1, <1>11, LoseConserves
<1> QED
  BY <1>2, <1>3, <1>4, <1>5, <1>6, <1>7, <1>8, <1>9, <1>10, <1>11, ServeConserves DEF Next, Work

-----------------------------------------------------------------------------
(* What never comes back. *)

Elapses ==
    /\ \A e \in Events : spent'[e] >= spent[e]
    /\ \A p \in Peers : status[p] \notin {"off", "up"} => status'[p] \notin {"off", "up"}
    /\ \A p \in Peers : status'[p] = "off" => status[p] = "off" /\ known'[p] = known[p]

LEMMA SpentGrows ==
    ASSUME TypeOK, UNCHANGED spent \/ \E e \in Events : Spend(e)
    PROVE  \A e \in Events : spent'[e] >= spent[e]
<1>1. \A e \in Events : spent[e] \in Nat /\ spent[e] + 1 >= spent[e] /\ spent[e] >= spent[e]
  BY DEF TypeOK
<1>2. CASE UNCHANGED spent
  BY <1>1, <1>2
<1>3. ASSUME NEW x \in Events, Spend(x)
      PROVE  \A e \in Events : spent'[e] >= spent[e]
  <2>1. \A e \in Events : spent'[e] = IF e = x THEN spent[e] + 1 ELSE spent[e]
    BY <1>3 DEF Spend, TypeOK
  <2> QED
    BY <1>1, <2>1
<1> QED
  BY <1>2, <1>3

LEMMA StillElapses ==
    ASSUME TypeOK, UNCHANGED <<status, known>>, UNCHANGED spent \/ \E e \in Events : Spend(e)
    PROVE  Elapses
BY SpentGrows DEF Elapses

LEMMA DieElapses ==
    ASSUME TypeOK, NEW m, m.dst \in Peers, NEW cause, cause \notin {"off", "up"}, Die(m, cause)
    PROVE  Elapses
<1>1. \A p \in Peers : status'[p] = IF p = m.dst THEN cause ELSE status[p]
  BY DEF Die, TypeOK
<1>2. UNCHANGED <<known, spent>>
  BY DEF Die, peerVars
<1>3. \A e \in Events : spent'[e] >= spent[e]
  BY <1>2, SpentGrows
<1> QED
  BY <1>1, <1>2, <1>3 DEF Elapses

LEMMA PeerMessageElapses ==
    ASSUME TypeOK, NEW p \in Peers, NEW m, m.dst = p, OnReceivePeerMessage(p, m)
    PROVE  Elapses
<1>1. ASSUME UNCHANGED <<status, known, spent>>
      PROVE  Elapses
  BY <1>1, StillElapses
<1>2. CASE \E cause \in {"assert_update", "assert_completed"} : Die(m, cause)
  BY <1>2, DieElapses
<1>3. CASE ~\E cause \in {"assert_update", "assert_completed"} : Die(m, cause)
  <2>1. ~Die(m, "assert_update") /\ ~Die(m, "assert_completed")
    BY <1>3
  <2>2. UNCHANGED <<status, known, spent>>
    BY <2>1 DEF OnReceivePeerMessage, OnAvailableWork, OnJobRequest, OnReceiveJob, OnNotifiedNoJobs,
                OnDelegatedJobUpdate, OnDelegatedJobCompleted, OnJobRetracted, peerVars
  <2> QED
    BY <1>1, <2>2
<1> QED
  BY <1>2, <1>3

LEMMA ServeElapses ==
    ASSUME TypeOK, NEW p \in Peers, Serve(p)
    PROVE  Elapses
<1>1. ASSUME UNCHANGED <<status, known, spent>>
      PROVE  Elapses
  BY <1>1, StillElapses
<1>2. CASE RunPosted(p)
  <2> DEFINE m == Head(posted[p])
  <2>1. m.dst = p
    <3>1. m \in Posts(p)
      BY <1>2 DEF RunPosted, TypeOK
    <3> QED
      BY <3>1 DEF Posts
  <2>2. OnReceivePeerMessage(p, m) \/ OnJobUpdate(p, m) \/ OnJobProcessingCompleted(p, m)
    BY <1>2 DEF RunPosted
  <2> HIDE DEF m
  <2>3. CASE Die(m, "assert_local")
    BY <2>1, <2>3, DieElapses
  <2>4. CASE OnJobUpdate(p, m) /\ ~Die(m, "assert_local")
    BY <1>1, <2>4 DEF OnJobUpdate, peerVars
  <2>5. CASE OnJobProcessingCompleted(p, m) /\ ~Die(m, "assert_local")
    BY <1>1, <2>5 DEF OnJobProcessingCompleted
  <2> QED
    BY <2>1, <2>2, <2>3, <2>4, <2>5, PeerMessageElapses
<1>3. ASSUME NEW m \in DOMAIN net, m.dst = p, Deliver(m)
      PROVE  Elapses
  <2>1. Alive(p) /\ (OnPing(p, m) \/ OnClientJobRequest(p, m) \/ OnReceivePeerMessage(p, m))
    BY <1>3 DEF Deliver
  <2>2. CASE Die(m, "assert_ping")
    BY <1>3, <2>2, DieElapses
  <2>3. CASE OnPing(p, m) /\ ~Die(m, "assert_ping")
    <3>1. /\ known' = [known EXCEPT ![p] = Acquaintance(p, m)]
          /\ UNCHANGED <<status, spent>>
      BY <2>3 DEF OnPing
    <3>2. \A q \in Peers : status'[q] = "off" => status[q] = "off" /\ known'[q] = known[q]
      BY <2>1, <3>1 DEF Alive, TypeOK
    <3>3. \A e \in Events : spent'[e] >= spent[e]
      BY <3>1, SpentGrows
    <3> QED
      BY <3>1, <3>2, <3>3 DEF Elapses
  <2>4. CASE OnClientJobRequest(p, m)
    BY <1>1, <2>4 DEF OnClientJobRequest
  <2> QED
    BY <1>3, <2>1, <2>2, <2>3, <2>4, PeerMessageElapses
<1>4. ASSUME NEW m \in DOMAIN net, Discard(m)
      PROVE  Elapses
  BY <1>1, <1>4 DEF Discard, peerVars
<1> QED
  BY <1>2, <1>3, <1>4 DEF Serve

LEMMA NextElapses ==
    ASSUME TypeOK, [Next]_vars
    PROVE  Elapses
<1>1. CASE UNCHANGED vars
  BY <1>1, StillElapses DEF vars, peerVars
<1>2. ASSUME NEW p \in Peers,
             Start(p) \/ Crash(p) \/ \E i \in DOMAIN executing[p] : NoExecutorTerminates(p, i)
      PROVE  Elapses
  <2>1. UNCHANGED known /\ (UNCHANGED spent \/ \E e \in Events : Spend(e))
    BY <1>2 DEF Start, Crash, NoExecutorTerminates, peerVars, Events
  <2>2. \/ status[p] = "off" /\ status' = [status EXCEPT ![p] = "up"]
        \/ \E end \in {"crashed", "terminated"} :
             status[p] = "up" /\ status' = [status EXCEPT ![p] = end]
    BY <1>2 DEF Start, Crash, NoExecutorTerminates, Alive
  <2>3. \A q \in Peers : /\ status[q] \notin {"off", "up"} => status'[q] \notin {"off", "up"}
                         /\ status'[q] = "off" => status[q] = "off"
    BY <2>2 DEF TypeOK
  <2> QED
    BY <2>1, <2>3, SpentGrows DEF Elapses
<1>3. ASSUME NEW p \in Peers,
             \/ OnStatusCheck(p)
             \/ \E j \in DOMAIN jobs[p] : Expire(p, j)
             \/ \E i \in DOMAIN executing[p] : WorkerUpdate(p, i) \/ WorkerFinish(p, i)
             \/ \E c \in Clients : Register(c, p)
      PROVE  Elapses
  <2>1. UNCHANGED <<status, known>> /\ (UNCHANGED spent \/ \E e \in Events : Spend(e))
    BY <1>3 DEF OnStatusCheck, Expire, WorkerUpdate, WorkerFinish, Register, peerVars, Events
  <2> QED
    BY <2>1, StillElapses
<1>4. ASSUME NEW c \in Clients, PostJob(c)
      PROVE  Elapses
  BY <1>4, StillElapses DEF PostJob, peerVars, Events
<1>5. ASSUME NEW m \in DOMAIN net, Lose(m)
      PROVE  Elapses
  BY <1>5, StillElapses DEF Lose, peerVars, Events
<1> QED
  BY <1>1, <1>2, <1>3, <1>4, <1>5, ServeElapses DEF Next, Work

-----------------------------------------------------------------------------
(* The copies of every job, always. *)

LEMMA NextCopies ==
    /\ TypeOK /\ AwaitInv /\ CapacityRespected /\ IdInv /\ AcquaintInv
    /\ CopyInv /\ TypeOK' /\ [Next]_vars
    => CopyInv'
<1> SUFFICES ASSUME TypeOK, AwaitInv, CapacityRespected, IdInv, AcquaintInv,
                    CopyInv, TypeOK', [Next]_vars
             PROVE  CopyInv'
  OBVIOUS
<1>1. Conserves /\ Elapses
  BY NextConserves, NextElapses DEF CopyInv
<1>2. \A e \in Events : spent'[e] = 0 => spent[e] = 0
  <2>1. \A e \in Events : spent[e] \in Nat /\ spent'[e] >= spent[e]
    BY <1>1 DEF Elapses, TypeOK
  <2> QED
    BY <2>1
<1>3. NotEnded' => NotEnded
  BY <1>1 DEF Elapses, NotEnded, TypeOK
<1>4. OffStranger'
  BY <1>1 DEF Elapses, OffStranger, CopyInv
<1> QED
  BY <1>1, <1>2, <1>3, <1>4 DEF Conserves, CopyInv, Events

LEMMA InitCopies == Init => CopyInv
<1> SUFFICES ASSUME Init
             PROVE  CopyInv
  OBVIOUS
<1>1. /\ \A p \in Peers : jobs[p] = EmptyMap /\ queue[p] = << >> /\ executing[p] = EmptyMap
      /\ \A p \in Peers : known[p] = {}
  BY DEF Init, Idle
<1>2. DOMAIN EmptyMap = {}
  BY DEF EmptyMap
<1>3. \A o \in Peers, j \in JobIds : Copied(o, j) = 0
  <2> SUFFICES ASSUME NEW o \in Peers, NEW j \in JobIds
               PROVE  Copied(o, j) = 0
    OBVIOUS
  <2>1. QueuedIn(queue[o], j) = 0
    <3>1. {i \in DOMAIN queue[o] : queue[o][i] = j} = {}
      BY <1>1
    <3> QED
      BY <3>1, FS_EmptySet DEF QueuedIn
  <2>2. Load(CarryWeight(o, j), net, posted) = 0
    BY InitLoad
  <2>3. WorkCount(executing, o, j) = 0
    <3> DEFINE f == [q \in Peers |-> AtWork(executing[q], o, j)]
    <3>1. \A q \in Peers : f[q] = 0
      <4> SUFFICES ASSUME NEW q \in Peers
                   PROVE  AtWork(executing[q], o, j) = 0
        OBVIOUS
      <4>1. {i \in DOMAIN executing[q] : executing[q][i].owner = o /\ executing[q][i].id = j} = {}
        BY <1>1, <1>2
      <4> QED
        BY <4>1, FS_EmptySet DEF AtWork
    <3>2. WorkCount(executing, o, j) = SumFunctionOnSet(f, Peers)
      BY DEF WorkCount, SumFunction
    <3> HIDE DEF f
    <3> QED
      BY <3>1, <3>2, SumZero, PeersAssumption
  <2> QED
    BY <2>1, <2>2, <2>3 DEF Copied
<1>4. \A o \in Peers, j \in JobIds : j \notin DOMAIN jobs[o]
  BY <1>1, <1>2
<1> QED
  BY <1>1, <1>3, <1>4 DEF CopyInv, AllSafe, AllRecorded, Safe, Recorded, OffStranger

LEMMA AlwaysCopies == Spec => [](TypeOK /\ AwaitInv /\ CopyInv)
<1> DEFINE Together == /\ TypeOK /\ AwaitInv /\ CapacityRespected
                       /\ IdInv /\ AcquaintInv /\ CopyInv
<1>1. Init => Together
  BY InitType, InitAwait, InitFits, InitIds, InitAcquaint, InitCopies
<1>2. Together /\ [Next]_vars => Together'
  <2> SUFFICES ASSUME Together, [Next]_vars
               PROVE  Together'
    OBVIOUS
  <2>1. TypeOK'
    BY NextType
  <2>2. AwaitInv' /\ CapacityRespected' /\ IdInv' /\ AcquaintInv' /\ CopyInv'
    BY <2>1, NextAwait, NextFits, NextIds, NextAcquaint, NextCopies
  <2> QED
    BY <2>1, <2>2
<1>3. Together => TypeOK /\ AwaitInv /\ CopyInv
  OBVIOUS
<1> HIDE DEF Together
<1> QED
  BY <1>1, <1>2, <1>3, PTL DEF Spec

\* No job is lost while no process ends and no message is lost: whatever is delegated,
\* refused, timed out, queued again and handed out again, a job in m_jobs is queued, on
\* its way, at work or reported somewhere.
THEOREM JobsAreNotLost == Spec => []NoJobLost
<1>1. TypeOK /\ AwaitInv /\ CopyInv => NoJobLost
  <2> SUFFICES ASSUME TypeOK, AwaitInv, CopyInv, AllUp, spent["lose"] = 0,
                      NEW p \in Peers, NEW j \in DOMAIN jobs[p]
               PROVE  Copies(p, j) >= 1
    BY DEF NoJobLost
  <2>1. NotEnded /\ j \in JobIds /\ NetFinite
    BY DEF AllUp, Alive, NotEnded, TypeOK, FiniteMap, AwaitInv
  <2>2. Safe(p, j)
    BY <2>1 DEF CopyInv, AllSafe
  <2> QED
    BY <2>1, <2>2, CopiesAreCopied DEF Safe
<1> QED
  BY <1>1, AlwaysCopies, PTL

\* Until a first job times out no job is handed out twice, and process_job_request finds
\* queued exactly the jobs m_jobs has nobody on record for.
THEOREM JobsAreHandedOutOnce == Spec => []OneCopyUntilTimeout
<1>1. TypeOK /\ AwaitInv /\ CopyInv => OneCopyUntilTimeout
  <2> SUFFICES ASSUME TypeOK, AwaitInv, CopyInv, spent["expire"] = 0,
                      NEW p \in Peers, NEW j \in DOMAIN jobs[p]
               PROVE  /\ Copies(p, j) <= 1
                      /\ (jobs[p][j].exec = None) <=> (\E i \in DOMAIN queue[p] : queue[p][i] = j)
    BY DEF OneCopyUntilTimeout
  <2>1. j \in JobIds /\ NetFinite /\ queue[p] \in Seq(JobIds)
    BY DEF TypeOK, FiniteMap, AwaitInv
  <2>2. Recorded(p, j)
    BY <2>1 DEF CopyInv, AllRecorded
  <2>3. QueuedIn(queue[p], j) >= 1 <=> \E i \in DOMAIN queue[p] : queue[p][i] = j
    BY <2>1, QueuedInType DEF Range
  <2>4. Copies(p, j) <= 1
    BY <2>1, <2>2, CopiesAreCopied DEF Recorded
  <2>5. jobs[p][j].exec = None <=> QueuedIn(queue[p], j) >= 1
    BY <2>2 DEF Recorded
  <2> QED
    BY <2>3, <2>4, <2>5
<1> QED
  BY <1>1, AlwaysCopies, PTL

\* Until a first job times out, m_jobs of a job's owner names whoever is at work on it:
\* what on_receive_ping asserts of the jobs that a ping names.
THEOREM WorkersAreOnRecord == Spec => []ExecutorOnRecord
<1>1. TypeOK /\ AwaitInv /\ CopyInv => ExecutorOnRecord
  <2> SUFFICES ASSUME TypeOK, AwaitInv, CopyInv, spent["expire"] = 0,
                      NEW q \in Peers, NEW i \in DOMAIN executing[q]
               PROVE  LET x == executing[q][i]
                      IN  x.id \in DOMAIN jobs[x.owner] /\ jobs[x.owner][x.id].exec = q
    BY DEF ExecutorOnRecord
  <2> DEFINE o == executing[q][i].owner
             j == executing[q][i].id
  <2>1. o \in Peers /\ j \in JobIds /\ IsFiniteSet(DOMAIN executing[q]) /\ NetFinite
    BY DEF TypeOK, FiniteMap, RunningJob, AwaitInv
  <2>2. AtWork(executing[q], o, j) \in Nat /\ AtWork(executing[q], o, j) >= 1
    BY <2>1, AtWorkType
  <2> HIDE DEF o, j
  <2>3. Recorded(o, j)
    BY <2>1 DEF CopyInv, AllRecorded
  <2>4. HeldBy(q, o, j) >= 1
    <3>1. Load(OfferWeight(q, o, j), net, posted) \in Nat
      BY <2>1, MailType, CarryIsSteady, LoadIsNat
    <3> QED
      BY <2>2, <3>1 DEF HeldBy
  <2>5. Copied(o, j) >= 1
    <3>1. /\ QueuedIn(queue[o], j) \in Nat /\ HeldBy(q, o, j) \in Nat /\ Copied(o, j) \in Nat
          /\ QueuedIn(queue[o], j) + HeldBy(q, o, j) <= Copied(o, j)
      BY <2>1, HeldIsCopied
    <3> QED
      BY <2>4, <3>1
  <2>6. j \in DOMAIN jobs[o] /\ jobs[o][j].exec = q
    BY <2>3, <2>4, <2>5 DEF Recorded
  <2> QED
    BY <2>6 DEF o, j
<1> QED
  BY <1>1, AlwaysCopies, PTL

-----------------------------------------------------------------------------
(* The owner's watch over its jobs. *)

Watched(p, j) == Holds(p, j) \/ jobs[p][j].exec \in Peers \ {p}

\* LostJobsTimeOut is inductive once peers that have not started are included.
WatchInv ==
    \A p \in Peers : status[p] \in {"off", "up"} => \A j \in DOMAIN jobs[p] : Watched(p, j)

\* A step changes what one peer has, which goes on watching its jobs or ends.
OthersSame(p) ==
    \A q \in Peers \ {p} : /\ jobs'[q] = jobs[q] /\ queue'[q] = queue[q]
                           /\ executing'[q] = executing[q] /\ posted'[q] = posted[q]
Watches(p) ==
    /\ OthersSame(p)
    /\ \/ status'[p] \notin {"off", "up"}
       \/ \A j \in DOMAIN jobs'[p] : (j \in DOMAIN jobs[p] => Watched(p, j)) => Watched(p, j)'

\* What p has of its jobs, it still has.
QueueStays(p) == \A k \in DOMAIN queue[p] : \E l \in DOMAIN queue'[p] : queue'[p][l] = queue[p][k]
ThreadsStay(p) ==
    \A i \in DOMAIN executing[p] : /\ i \in DOMAIN executing'[p]
                                   /\ executing'[p][i].owner = executing[p][i].owner
                                   /\ executing'[p][i].id = executing[p][i].id
Reappears(p, m) == \E l \in DOMAIN posted'[p] : posted'[p][l] = m
PostsStay(p) == \A k \in DOMAIN posted[p] : posted[p][k].type \in Carrying => Reappears(p, posted[p][k])
SameExec(p) ==
    /\ DOMAIN jobs'[p] = DOMAIN jobs[p]
    /\ \A j \in DOMAIN jobs[p] : jobs'[p][j].exec = jobs[p][j].exec

LEMMA WatchKept ==
    ASSUME WatchInv, Elapses, NEW p \in Peers, Watches(p)
    PROVE  WatchInv'
<1> SUFFICES ASSUME NEW q \in Peers, status'[q] \in {"off", "up"}, NEW j \in DOMAIN jobs'[q]
             PROVE  Watched(q, j)'
  BY DEF WatchInv
<1>1. \A i \in DOMAIN jobs[q] : Watched(q, i)
  BY DEF WatchInv, Elapses
<1>2. CASE q = p
  BY <1>1, <1>2 DEF Watches
<1>3. CASE q # p
  BY <1>1, <1>3 DEF Watches, OthersSame, Watched, Holds, Carries
<1> QED
  BY <1>2, <1>3

LEMMA StillHolds ==
    ASSUME NEW p \in Peers, QueueStays(p), ThreadsStay(p), PostsStay(p), NEW j, Holds(p, j)
    PROVE  Holds(p, j)'
<1>1. ASSUME NEW k \in DOMAIN queue[p], queue[p][k] = j
      PROVE  Holds(p, j)'
  BY <1>1 DEF QueueStays, Holds
<1>2. ASSUME NEW k \in DOMAIN posted[p], Carries(p, j, posted[p][k])
      PROVE  Holds(p, j)'
  <2>1. Reappears(p, posted[p][k])
    BY <1>2 DEF PostsStay, Carries, Carrying
  <2> QED
    BY <1>2, <2>1 DEF Reappears, Holds, Carries
<1>3. ASSUME NEW i \in DOMAIN executing[p], executing[p][i].owner = p, executing[p][i].id = j
      PROVE  Holds(p, j)'
  BY <1>3 DEF ThreadsStay, Holds
<1> QED
  BY <1>1, <1>2, <1>3 DEF Holds

LEMMA StillWatches ==
    ASSUME NEW p \in Peers, OthersSame(p), QueueStays(p), ThreadsStay(p), PostsStay(p), SameExec(p)
    PROVE  Watches(p)
<1> SUFFICES ASSUME NEW j \in DOMAIN jobs'[p], Watched(p, j)
             PROVE  Watched(p, j)'
  BY DEF Watches, SameExec
<1>1. CASE Holds(p, j)
  BY <1>1, StillHolds DEF Watched
<1>2. CASE jobs[p][j].exec \in Peers \ {p}
  BY <1>2 DEF SameExec, Watched
<1> QED
  BY <1>1, <1>2 DEF Watched

\* The parts of two sequences that are joined.
LEMMA JoinedParts ==
    ASSUME NEW S, NEW r \in Seq(S), NEW T, NEW u \in Seq(T), NEW t, t = r \o u
    PROVE  /\ DOMAIN t = 1..(Len(r) + Len(u))
           /\ \A k \in 1..Len(r) : t[k] = r[k]
           /\ \A k \in (Len(r) + 1)..(Len(r) + Len(u)) : t[k] = u[k - Len(r)]
<1>1. Len(r) \in Nat /\ Len(u) \in Nat
  OBVIOUS
<1>2. DOMAIN t = 1..(Len(r) + Len(u))
  OBVIOUS
<1>3. \A k \in 1..Len(r) : t[k] = r[k]
  OBVIOUS
<1>4. \A k \in (Len(r) + 1)..(Len(r) + Len(u)) : t[k] = u[k - Len(r)]
  BY <1>1
<1> QED
  BY <1>2, <1>3, <1>4

\* d posts are handled, and more is posted.
Appended(s, d, self) == (IF d = 1 THEN Tail(s) ELSE s) \o self

\* What was posted is there after the first is handled and more is posted, and so is that.
LEMMA PostsAppended ==
    ASSUME NEW S, NEW s \in Seq(S), NEW T, NEW self \in Seq(T), NEW d \in {0, 1}, d = 1 => s # << >>,
           NEW t, t = Appended(s, d, self)
    PROVE  /\ \A k \in DOMAIN s : k = d \/ \E l \in DOMAIN t : t[l] = s[k]
           /\ \A k \in DOMAIN self : \E l \in DOMAIN t : t[l] = self[k]
<1> DEFINE rest == IF d = 1 THEN Tail(s) ELSE s
<1>1. rest \in Seq(S) /\ Len(rest) = Len(s) - d /\ Len(s) \in Nat /\ Len(self) \in Nat
  BY HeadTailProperties
<1>2. \A k \in 1..Len(rest) : rest[k] = s[k + d]
  BY HeadTailProperties
<1> HIDE DEF rest
<1>8. t = rest \o self
  BY DEF rest, Appended
<1>3. /\ DOMAIN t = 1..(Len(rest) + Len(self))
      /\ \A k \in 1..Len(rest) : t[k] = rest[k]
      /\ \A k \in (Len(rest) + 1)..(Len(rest) + Len(self)) : t[k] = self[k - Len(rest)]
  BY <1>1, <1>8, JoinedParts
<1>4. DOMAIN s = 1..Len(s) /\ DOMAIN self = 1..Len(self)
  OBVIOUS
<1> PICK a : a = Len(rest)
  OBVIOUS
<1> PICK b : b = Len(self)
  OBVIOUS
<1> PICK n : n = Len(s)
  OBVIOUS
<1>5. a \in Nat /\ b \in Nat /\ n \in Nat /\ a = n - d
  BY <1>1
<1>6. ASSUME NEW k \in 1..n, k # d
      PROVE  \E l \in DOMAIN t : t[l] = s[k]
  <2> PICK l : l = k - d
    OBVIOUS
  <2>1. l \in 1..a /\ l + d = k /\ l \in 1..(a + b)
    BY <1>5, <1>6
  <2>2. t[l] = rest[l] /\ rest[l] = s[l + d] /\ l \in DOMAIN t
    BY <1>2, <1>3, <2>1
  <2> QED
    BY <2>1, <2>2
<1>7. ASSUME NEW k \in 1..b
      PROVE  \E l \in DOMAIN t : t[l] = self[k]
  <2> PICK l : l = a + k
    OBVIOUS
  <2>1. l \in (a + 1)..(a + b) /\ l - a = k /\ l \in 1..(a + b)
    BY <1>5
  <2>2. t[l] = self[l - a] /\ l \in DOMAIN t
    BY <1>3, <2>1
  <2> QED
    BY <2>1, <2>2
<1> QED
  BY <1>4, <1>6, <1>7

LEMMA ExchangeStays ==
    ASSUME TypeOK, NEW p \in Peers, NEW m, Handled(p, m), NEW out, NEW T, NEW self \in Seq(T),
           Exchange(p, m, out, self)
    PROVE  /\ \A q \in Peers \ {p} : posted'[q] = posted[q]
           /\ \A k \in DOMAIN posted[p] : (Local(m) /\ posted[p][k] = m) \/ Reappears(p, posted[p][k])
           /\ \A k \in DOMAIN self : Reappears(p, self[k])
<1> PICK d : d = IF Local(m) THEN 1 ELSE 0
  OBVIOUS
<1> PICK t : t = Appended(posted[p], d, self)
  OBVIOUS
<1>1. posted[p] \in Seq(Posts(p)) /\ DOMAIN posted = Peers
  BY DEF TypeOK
<1>2. posted' = [posted EXCEPT ![p] = t]
  <2>1. (IF Local(m) THEN Tail(posted[p]) ELSE posted[p]) = IF d = 1 THEN Tail(posted[p]) ELSE posted[p]
    OBVIOUS
  <2> QED
    BY <2>1 DEF Exchange, Appended
<1>3. posted'[p] = t /\ \A q \in Peers \ {p} : posted'[q] = posted[q]
  BY <1>1, <1>2
<1>4. /\ d \in {0, 1} /\ 0 \notin DOMAIN posted[p]
      /\ d = 1 => Local(m) /\ posted[p] # << >> /\ posted[p][1] = m
  BY <1>1, OldestPost DEF Handled
<1>5. /\ \A k \in DOMAIN posted[p] : k = d \/ \E l \in DOMAIN t : t[l] = posted[p][k]
      /\ \A k \in DOMAIN self : \E l \in DOMAIN t : t[l] = self[k]
  BY <1>1, <1>4, PostsAppended
<1> QED
  BY <1>3, <1>4, <1>5 DEF Reappears

LEMMA EmitStays ==
    ASSUME TypeOK, NEW p \in Peers, NEW out, NEW T, NEW self \in Seq(T), Emit(p, out, self)
    PROVE  /\ \A q \in Peers \ {p} : posted'[q] = posted[q]
           /\ PostsStay(p)
<1> PICK t : t = posted[p] \o self
  OBVIOUS
<1>1. posted[p] \in Seq(Posts(p)) /\ DOMAIN posted = Peers
  BY DEF TypeOK
<1>2. posted'[p] = t /\ \A q \in Peers \ {p} : posted'[q] = posted[q]
  BY <1>1 DEF Emit
<1>3. \A k \in DOMAIN posted[p] : k = 0 \/ \E l \in DOMAIN t : t[l] = posted[p][k]
  <2> PICK d : d = 0
    OBVIOUS
  <2>1. t = Appended(posted[p], d, self)
    BY DEF Appended
  <2>2. d \in {0, 1} /\ (d = 1 => posted[p] # << >>)
    OBVIOUS
  <2> QED
    BY <1>1, <2>1, <2>2, PostsAppended
<1>4. 0 \notin DOMAIN posted[p]
  BY <1>1
<1> QED
  BY <1>2, <1>3, <1>4 DEF PostsStay, Reappears

\* Handlers that take no job from anywhere.
LEMMA StillHandled ==
    ASSUME TypeOK, NEW p \in Peers, NEW m, Handled(p, m), m.type \notin Carrying, NEW out,
           NEW T, NEW self \in Seq(T), Exchange(p, m, out, self), UNCHANGED <<queue, executing>>,
           \A q \in Peers \ {p} : jobs'[q] = jobs[q], SameExec(p)
    PROVE  Watches(p)
<1>1. OthersSame(p) /\ PostsStay(p)
  BY ExchangeStays DEF OthersSame, PostsStay
<1>2. QueueStays(p) /\ ThreadsStay(p)
  BY DEF QueueStays, ThreadsStay
<1> QED
  BY <1>1, <1>2, StillWatches

LEMMA SameExecs == ASSUME UNCHANGED jobs PROVE \A p \in Peers : SameExec(p)
BY DEF SameExec

LEMMA DieWatches ==
    ASSUME TypeOK, NEW p \in Peers, NEW m, Handled(p, m), NEW cause, cause \notin {"off", "up"}, Die(m, cause)
    PROVE  Watches(p)
<1>1. m.dst = p /\ status' = [status EXCEPT ![p] = cause] /\ UNCHANGED peerVars
      /\ Exchange(p, m, EmptyBag, << >>)
  BY DEF Handled, Die, Consume
<1>2. << >> \in Seq({})
  OBVIOUS
<1>3. \A q \in Peers \ {p} : posted'[q] = posted[q]
  BY <1>1, <1>2, ExchangeStays
<1> QED
  BY <1>1, <1>3 DEF Watches, OthersSame, peerVars, TypeOK

LEMMA OwnRequestListed == ASSUME NEW p, NEW ask PROVE OwnRequest(p, ask) \in Seq({RequestJobs(p, p, ask[p])})
<1> PICK r : r = RequestJobs(p, p, ask[p])
  OBVIOUS
<1>1. OwnRequest(p, ask) = <<r>> \/ OwnRequest(p, ask) = << >>
  BY DEF OwnRequest
<1>2. <<r>> \in Seq({r}) /\ << >> \in Seq({r})
  OBVIOUS
<1> QED
  BY <1>1, <1>2

LEMMA OnPingWatches ==
    ASSUME TypeOK, NEW p \in Peers, NEW m, Handled(p, m), m.type = "Ping", OnPing(p, m)
    PROVE  Watches(p)
<1>1. CASE Die(m, "assert_ping")
  BY <1>1, DieWatches
<1>2. CASE ~Die(m, "assert_ping")
  <2>1. PICK out, ask : Exchange(p, m, out, OwnRequest(p, ask))
    BY <1>2 DEF OnPing
  <2>2. /\ UNCHANGED <<queue, executing>>
        /\ jobs' = [jobs EXCEPT ![p] = [j \in DOMAIN jobs[p] |->
                       IF j \in m.ids THEN Pinged(jobs[p][j]) ELSE jobs[p][j]]]
    BY <1>2 DEF OnPing
  <2>3. \A j \in DOMAIN jobs[p] : Pinged(jobs[p][j]).exec = jobs[p][j].exec
    BY DEF Pinged, TypeOK, FiniteMap, OwnedJob
  <2>4. SameExec(p) /\ \A q \in Peers \ {p} : jobs'[q] = jobs[q]
    BY <2>2, <2>3 DEF SameExec, TypeOK
  <2> QED
    BY <2>1, <2>2, <2>4, StillHandled, OwnRequestListed DEF Carrying
<1> QED
  BY <1>1, <1>2

\* Messages that carry no job and are answered with requests, or not at all.
LEMMA AskingWatches ==
    ASSUME TypeOK, NEW p \in Peers, NEW m, Handled(p, m),
           \/ m.type = "AvailableWork" /\ OnAvailableWork(p, m)
           \/ m.type = "NoMoreJobs" /\ OnNotifiedNoJobs(p, m)
           \/ m.type = "CancelJob" /\ OnJobRetracted(p, m)
    PROVE  Watches(p)
<1>1. m.type \notin Carrying /\ UNCHANGED <<jobs, queue, executing>>
  BY DEF Carrying, OnAvailableWork, OnNotifiedNoJobs, OnJobRetracted, peerVars
<1>2. \A q \in Peers : SameExec(q) /\ jobs'[q] = jobs[q]
  BY <1>1, SameExecs
<1>3. CASE OnJobRetracted(p, m)
  <2>1. Exchange(p, m, EmptyBag, << >>) /\ << >> \in Seq({})
    BY <1>3 DEF OnJobRetracted, Consume, Handled
  <2> QED
    BY <1>1, <1>2, <2>1, StillHandled
<1>4. CASE OnAvailableWork(p, m) \/ OnNotifiedNoJobs(p, m)
  <2>1. PICK out, ask : Exchange(p, m, out, OwnRequest(p, ask))
    BY <1>4 DEF OnAvailableWork, OnNotifiedNoJobs
  <2> QED
    BY <1>1, <1>2, <2>1, StillHandled, OwnRequestListed
<1> QED
  BY <1>3, <1>4

LEMMA ReportSends ==
    ASSUME NEW p, NEW m, NEW type, NEW job, NEW ask, Report(p, m, type, job, ask)
    PROVE  \E out, T : \E self \in Seq(T) :
              /\ Exchange(p, m, out, self)
              /\ job.owner = p => \E k \in DOMAIN self : self[k] = JobNote(p, p, type, job.id)
<1> DEFINE own == OwnRequest(p, ask)
           note == JobNote(p, job.owner, type, job.id)
           T == {RequestJobs(p, p, ask[p]), note}
<1>1. own \in Seq(T)
  <2>1. own \in Seq({RequestJobs(p, p, ask[p])})
    BY OwnRequestListed
  <2> HIDE DEF own, note
  <2> QED
    BY <2>1
<1> HIDE DEF T, own
<1>2. CASE job.owner = p
  <2> DEFINE self == <<note>> \o own
  <2>1. \E out : Exchange(p, m, out, self)
    BY <1>2 DEF Report, own
  <2>2. <<note>> \in Seq(T)
    BY DEF T
  <2>3. self \in Seq(T) /\ 1 \in DOMAIN self /\ self[1] = note
    <3> HIDE DEF note
    <3> QED
      BY <1>1, <2>2
  <2> HIDE DEF self
  <2> QED
    BY <1>2, <2>1, <2>3
<1>3. CASE job.owner # p
  <2>1. \E out : Exchange(p, m, out, own)
    BY <1>3 DEF Report, own
  <2> QED
    BY <1>1, <1>3, <2>1
<1> QED
  BY <1>2, <1>3

LEMMA UpdateWatches ==
    ASSUME TypeOK, NEW p \in Peers, NEW m, Handled(p, m),
           \/ m.type = "Updated" /\ OnJobUpdate(p, m)
           \/ m.type = "JobUpdate" /\ OnDelegatedJobUpdate(p, m)
    PROVE  Watches(p)
<1>1. CASE Die(m, "assert_local") \/ Die(m, "assert_update")
  BY <1>1, DieWatches
<1>2. CASE ~(Die(m, "assert_local") \/ Die(m, "assert_update"))
  <2>1. m.type \notin Carrying /\ UNCHANGED <<jobs, queue, executing>>
    BY <1>2 DEF Carrying, OnJobUpdate, OnDelegatedJobUpdate, peerVars
  <2>2. \E out, T : \E self \in Seq(T) : Exchange(p, m, out, self)
    <3>1. CASE m.type = "Updated"
      <4>1. Report(p, m, "JobUpdate", executing[p][m.id], NoAsk)
        BY <1>2, <3>1 DEF OnJobUpdate
      <4> QED
        BY <4>1, ReportSends
    <3>2. CASE m.type = "JobUpdate"
      <4>1. Exchange(p, m, EmptyBag, << >>) /\ << >> \in Seq({})
        BY <1>2, <3>2 DEF OnDelegatedJobUpdate, Consume, Handled
      <4> QED
        BY <4>1
    <3> QED
      BY <3>1, <3>2
  <2> QED
    BY <2>1, <2>2, SameExecs, StillHandled
<1> QED
  BY <1>1, <1>2

\* A request is answered: what leaves the queue is recorded with the requester, or posted.
LEMMA OnJobRequestWatches ==
    ASSUME TypeOK, NEW p \in Peers, NEW m, Handled(p, m), m.type = "RequestJobs", OnJobRequest(p, m)
    PROVE  Watches(p)
<1> DEFINE n == IF m.count < Len(queue[p]) THEN m.count ELSE Len(queue[p])
           handed == SubSeq(queue[p], 1, n)
           offers == [i \in 1..n |-> DelegateJob(p, m.src, handed[i], Description(p, handed[i]))]
           no == Refusal(p, m, n)
           reply == offers \o no
<1>1. /\ m.dst = p /\ m.src \in Peers /\ m.count \in Nat
      /\ queue[p] \in Seq(JobIds) /\ Len(queue[p]) \in Nat /\ DOMAIN queue = Peers /\ DOMAIN jobs = Peers
  BY Fields DEF Handled, TypeOK
<1>2. n \in 0..Len(queue[p])
  BY <1>1
<1>3. /\ queue' = [queue EXCEPT ![p] = Remaining(p, n)]
      /\ jobs' = [jobs EXCEPT ![p] = [j \in DOMAIN jobs[p] \cup Range(handed) |->
                     IF j \in Range(handed) THEN Delegated(p, m, j) ELSE jobs[p][j]]]
      /\ \E out, self : Exchange(p, m, out, self) /\ self = IF Local(m) THEN reply ELSE << >>
      /\ executing' = executing
  BY DEF OnJobRequest
<1>4. /\ DOMAIN handed = 1..n /\ \A k \in 1..n : handed[k] = queue[p][k]
      /\ Len(Remaining(p, n)) = Len(queue[p]) - n
      /\ DOMAIN Remaining(p, n) = 1..(Len(queue[p]) - n)
      /\ \A k \in 1..(Len(queue[p]) - n) : Remaining(p, n)[k] = queue[p][n + k]
  <2> HIDE DEF n
  <2> QED
    BY <1>1, <1>2 DEF Remaining
<1> HIDE DEF n, handed
<1>5. DOMAIN queue[p] = 1..Len(queue[p]) /\ n \in Nat
  BY <1>1, <1>2
<1>6. \E T : reply \in Seq(T) /\ \A k \in 1..n : k \in DOMAIN reply /\ reply[k] = offers[k]
  <2> DEFINE T == {offers[i] : i \in 1..n} \cup {NoMoreJobs(p, m.src)}
  <2>1. offers \in Seq(T) /\ Len(offers) = n
    <3>1. offers \in [1..n -> T]
      OBVIOUS
    <3> HIDE DEF offers, T
    <3> QED
      BY <1>5, <3>1
  <2>2. no \in Seq(T)
    <3> PICK r : r = NoMoreJobs(p, m.src)
      OBVIOUS
    <3>1. r \in T /\ (no = <<r>> \/ no = << >>)
      BY DEF Refusal
    <3> HIDE DEF T, no
    <3>2. <<r>> \in Seq(T) /\ << >> \in Seq(T)
      BY <3>1
    <3> QED
      BY <3>1, <3>2
  <2> HIDE DEF T, offers, no
  <2>3. /\ reply \in Seq(T) /\ Len(no) \in Nat
        /\ DOMAIN reply = 1..(Len(offers) + Len(no))
        /\ \A k \in 1..Len(offers) : reply[k] = offers[k]
    BY <2>1, <2>2, JoinedParts
  <2> QED
    BY <1>5, <2>1, <2>3
<1> PICK out, self : Exchange(p, m, out, self) /\ self = IF Local(m) THEN reply ELSE << >>
  BY <1>3
<1> HIDE DEF offers, no
<1>7. \E T : self \in Seq(T)
  <2> HIDE DEF reply
  <2>1. << >> \in Seq({})
    OBVIOUS
  <2> QED
    BY <1>6, <2>1
<1>8. OthersSame(p) /\ PostsStay(p) /\ ThreadsStay(p) /\ \A k \in DOMAIN self : Reappears(p, self[k])
  <2>1. m.type \notin Carrying
    BY DEF Carrying
  <2>2. /\ \A q \in Peers \ {p} : posted'[q] = posted[q]
        /\ \A k \in DOMAIN posted[p] : (Local(m) /\ posted[p][k] = m) \/ Reappears(p, posted[p][k])
        /\ \A k \in DOMAIN self : Reappears(p, self[k])
    <3> PICK T : self \in Seq(T)
      BY <1>7
    <3> QED
      BY ExchangeStays
  <2>3. ThreadsStay(p)
    BY <1>3 DEF ThreadsStay
  <2>4. PostsStay(p)
    BY <2>1, <2>2 DEF PostsStay
  <2>5. \A q \in Peers \ {p} : jobs'[q] = jobs[q] /\ queue'[q] = queue[q] /\ executing'[q] = executing[q]
    BY <1>1, <1>3
  <2> QED
    BY <2>2, <2>3, <2>4, <2>5 DEF OthersSame
<1>9. /\ DOMAIN jobs'[p] = DOMAIN jobs[p] \cup Range(handed)
      /\ \A j \in Range(handed) : jobs'[p][j].exec = m.src
      /\ \A j \in DOMAIN jobs[p] \ Range(handed) : jobs'[p][j] = jobs[p][j]
  BY <1>1, <1>3 DEF Delegated
<1>10. ASSUME NEW j \in Range(handed)
       PROVE  Watched(p, j)'
  <2>1. CASE m.src # p
    BY <1>1, <1>9, <2>1 DEF Watched
  <2>2. CASE m.src = p
    <3>1. self = reply
      BY <1>1, <2>2 DEF Local
    <3>2. PICK k \in 1..n : handed[k] = j
      BY <1>4 DEF Range
    <3> PICK offer : offer = DelegateJob(p, p, j, Description(p, j))
      OBVIOUS
    <3>3. k \in DOMAIN self /\ self[k] = offer
      <4>1. offers[k] = offer
        BY <2>2, <3>2 DEF offers
      <4> HIDE DEF reply
      <4> QED
        BY <1>6, <3>1, <4>1
    <3>4. Carries(p, j, offer)
      BY DEF Carries, DelegateJob
    <3>5. PICK l \in DOMAIN posted'[p] : posted'[p][l] = self[k]
      BY <1>8, <3>3 DEF Reappears
    <3> QED
      BY <3>3, <3>4, <3>5 DEF Watched, Holds, Carries
  <2> QED
    BY <2>1, <2>2
<1>11. ASSUME NEW j \in DOMAIN jobs[p] \ Range(handed), Watched(p, j)
       PROVE  Watched(p, j)'
  <2>1. CASE jobs[p][j].exec \in Peers \ {p}
    BY <1>9, <2>1 DEF Watched
  <2>2. ASSUME NEW k \in DOMAIN queue[p], queue[p][k] = j
        PROVE  Holds(p, j)'
    <3>1. k \in Nat /\ ~(k \in 1..n)
      <4>1. \A i \in 1..n : handed[i] # j
        BY <1>4 DEF Range
      <4> QED
        BY <1>4, <1>5, <2>2, <4>1
    <3> PICK l : l = k - n
      OBVIOUS
    <3>2. l \in 1..(Len(queue[p]) - n) /\ n + l = k
      BY <1>1, <1>2, <1>5, <3>1
    <3>3. queue'[p] = Remaining(p, n)
      BY <1>1, <1>3
    <3>4. l \in DOMAIN queue'[p] /\ queue'[p][l] = j
      BY <1>4, <2>2, <3>2, <3>3
    <3> QED
      BY <3>4 DEF Holds
  <2>3. ASSUME NEW k \in DOMAIN posted[p], Carries(p, j, posted[p][k])
        PROVE  Holds(p, j)'
    <3>1. Reappears(p, posted[p][k])
      BY <1>8, <2>3 DEF PostsStay, Carries, Carrying
    <3> QED
      BY <2>3, <3>1 DEF Reappears, Holds, Carries
  <2>4. ASSUME NEW i \in DOMAIN executing[p], executing[p][i].owner = p, executing[p][i].id = j
        PROVE  Holds(p, j)'
    BY <1>3, <2>4 DEF Holds
  <2> QED
    BY <1>11, <2>1, <2>2, <2>3, <2>4 DEF Watched, Holds
<1> QED
  BY <1>8, <1>9, <1>10, <1>11 DEF Watches

\* A job comes to a thread of its own, also if it is p's.
LEMMA OnReceiveJobWatches ==
    ASSUME TypeOK, TypeOK', AwaitInv, CapacityRespected, IdInv, NEW p \in Peers,
           NEW m, Handled(p, m), m.type = "DelegateJob", OnReceiveJob(p, m)
    PROVE  Watches(p)
<1> DEFINE i == nextId[p]
           ex == executing[p]
           new == [owner |-> m.src, id |-> m.id, desc |-> m.desc, done |-> FALSE]
           fx == [k \in DOMAIN ex \cup {i} |-> IF k = i THEN new ELSE ex[k]]
<1>1. executing' = [executing EXCEPT ![p] = fx] /\ Exchange(p, m, EmptyBag, << >>) /\ UNCHANGED <<jobs, queue>>
  <2>1. Cardinality(DOMAIN executing[p]) < MaxThreads[p] /\ m.dst = p
    BY OnReceiveJobFits DEF Handled
  <2> QED
    BY <2>1 DEF OnReceiveJob, InProgressId, Consume
<1>2. i \notin DOMAIN ex
  <2>1. \A k \in DOMAIN ex : k < i /\ k \in Nat
    BY DEF IdInv, TypeOK, FiniteMap, JobIds
  <2>2. ~(i < i)
    BY DEF TypeOK
  <2> QED
    BY <2>1, <2>2
<1>3. new.owner = m.src /\ new.id = m.id
  OBVIOUS
<1>4. executing'[p] = fx /\ \A q \in Peers \ {p} : executing'[q] = executing[q]
  BY <1>1 DEF TypeOK
<1> HIDE DEF new, i
<1>5. DOMAIN fx = DOMAIN ex \cup {i} /\ fx[i] = new /\ \A k \in DOMAIN ex : fx[k] = ex[k]
  BY <1>2
<1> HIDE DEF fx
<1>6. ThreadsStay(p) /\ QueueStays(p)
  BY <1>1, <1>4, <1>5 DEF ThreadsStay, QueueStays
<1>7. /\ OthersSame(p)
      /\ \A k \in DOMAIN posted[p] : (Local(m) /\ posted[p][k] = m) \/ Reappears(p, posted[p][k])
  <2>1. << >> \in Seq({})
    OBVIOUS
  <2> QED
    BY <1>1, <1>4, <2>1, ExchangeStays DEF OthersSame
<1>8. ASSUME NEW j, Holds(p, j)
      PROVE  Holds(p, j)'
  <2>1. ASSUME NEW k \in DOMAIN queue[p], queue[p][k] = j
        PROVE  Holds(p, j)'
    BY <1>1, <2>1 DEF Holds
  <2>2. ASSUME NEW k \in DOMAIN posted[p], Carries(p, j, posted[p][k])
        PROVE  Holds(p, j)'
    <3>1. CASE Reappears(p, posted[p][k])
      BY <2>2, <3>1 DEF Reappears, Holds, Carries
    <3>2. CASE Local(m) /\ posted[p][k] = m
      <4>1. m.src = p /\ m.id = j
        BY <2>2, <3>2 DEF Carries
      <4>2. i \in DOMAIN executing'[p] /\ executing'[p][i].owner = p /\ executing'[p][i].id = j
        BY <1>3, <1>4, <1>5, <4>1
      <4> QED
        BY <4>2 DEF Holds
    <3> QED
      BY <1>7, <3>1, <3>2
  <2>3. ASSUME NEW k \in DOMAIN executing[p], executing[p][k].owner = p, executing[p][k].id = j
        PROVE  Holds(p, j)'
    BY <1>6, <2>3 DEF ThreadsStay, Holds
  <2> QED
    BY <1>8, <2>1, <2>2, <2>3 DEF Holds
<1> QED
  BY <1>1, <1>7, <1>8 DEF Watches, Watched

\* The worker's report of a job of p's own is posted to p.
LEMMA OnJobProcessingCompletedWatches ==
    ASSUME TypeOK, NEW p \in Peers, NEW m, Handled(p, m),
           m.type = "Finished", OnJobProcessingCompleted(p, m)
    PROVE  Watches(p)
<1>1. CASE Die(m, "assert_local")
  BY <1>1, DieWatches
<1>2. CASE ~Die(m, "assert_local")
  <2> DEFINE rest == [i \in DOMAIN executing[p] \ {m.id} |-> executing[p][i]]
             job == executing[p][m.id]
  <2>1. /\ m.id \in DOMAIN executing[p] /\ executing' = [executing EXCEPT ![p] = rest]
        /\ UNCHANGED <<jobs, queue>>
        /\ \E ask : Report(p, m, "JobCompleted", job, ask)
    BY <1>2 DEF OnJobProcessingCompleted
  <2>2. /\ executing'[p] = rest
        /\ \A q \in Peers \ {p} : executing'[q] = executing[q]
    BY <2>1 DEF TypeOK
  <2>3. PICK out, T : \E self \in Seq(T) :
           /\ Exchange(p, m, out, self)
           /\ job.owner = p => \E k \in DOMAIN self : self[k] = JobNote(p, p, "JobCompleted", job.id)
    BY <2>1, ReportSends
  <2> PICK self \in Seq(T) :
           /\ Exchange(p, m, out, self)
           /\ job.owner = p => \E k \in DOMAIN self : self[k] = JobNote(p, p, "JobCompleted", job.id)
    BY <2>3
  <2>4. /\ \A q \in Peers \ {p} : posted'[q] = posted[q]
        /\ PostsStay(p) /\ \A k \in DOMAIN self : Reappears(p, self[k])
    BY ExchangeStays DEF PostsStay, Carrying
  <2>5. OthersSame(p)
    BY <2>1, <2>2, <2>4 DEF OthersSame
  <2>6. ASSUME NEW j, Holds(p, j)
        PROVE  Holds(p, j)'
    <3>1. ASSUME NEW k \in DOMAIN queue[p], queue[p][k] = j
          PROVE  Holds(p, j)'
      BY <2>1, <3>1 DEF Holds
    <3>2. ASSUME NEW k \in DOMAIN posted[p], Carries(p, j, posted[p][k])
          PROVE  Holds(p, j)'
      <4>1. Reappears(p, posted[p][k])
        BY <2>4, <3>2 DEF PostsStay, Carries, Carrying
      <4> QED
        BY <3>2, <4>1 DEF Reappears, Holds, Carries
    <3>3. ASSUME NEW k \in DOMAIN executing[p], executing[p][k].owner = p, executing[p][k].id = j
          PROVE  Holds(p, j)'
      <4>1. CASE k # m.id
        BY <2>2, <3>3, <4>1 DEF Holds
      <4>2. CASE k = m.id
        <5> DEFINE note == JobNote(p, p, "JobCompleted", j)
        <5>1. \E l \in DOMAIN self : self[l] = note
          BY <3>3, <4>2
        <5>2. Carries(p, j, note)
          BY DEF Carries, JobNote
        <5>3. Reappears(p, note)
          BY <2>4, <5>1
        <5> HIDE DEF note
        <5> QED
          BY <5>2, <5>3 DEF Reappears, Holds, Carries
      <4> QED
        BY <4>1, <4>2
    <3> QED
      BY <2>6, <3>1, <3>2, <3>3 DEF Holds
  <2> QED
    BY <2>1, <2>5, <2>6 DEF Watches, Watched
<1> QED
  BY <1>1, <1>2

\* A job that is done is watched no more.
LEMMA OnDelegatedJobCompletedWatches ==
    ASSUME TypeOK, NEW p \in Peers, NEW m, Handled(p, m),
           m.type = "JobCompleted", OnDelegatedJobCompleted(p, m)
    PROVE  Watches(p)
<1>1. CASE Die(m, "assert_completed")
  BY <1>1, DieWatches
<1>2. CASE ~Die(m, "assert_completed")
  <2>1. /\ jobs' = [jobs EXCEPT ![p] = Without(p, m.id)] /\ UNCHANGED <<queue, executing>>
        /\ Exchange(p, m, EmptyBag, << >>)
    BY <1>2 DEF OnDelegatedJobCompleted, Consume, Handled
  <2>2. /\ DOMAIN jobs'[p] = DOMAIN jobs[p] \ {m.id}
        /\ \A j \in DOMAIN jobs'[p] : jobs'[p][j] = jobs[p][j]
        /\ \A q \in Peers \ {p} : jobs'[q] = jobs[q]
    BY <2>1 DEF Without, TypeOK
  <2>3. /\ \A q \in Peers \ {p} : posted'[q] = posted[q]
        /\ \A k \in DOMAIN posted[p] : (Local(m) /\ posted[p][k] = m) \/ Reappears(p, posted[p][k])
    <3>1. << >> \in Seq({})
      OBVIOUS
    <3> QED
      BY <2>1, <3>1, ExchangeStays
  <2>4. OthersSame(p)
    BY <2>1, <2>2, <2>3 DEF OthersSame
  <2>5. ASSUME NEW j, j # m.id, Holds(p, j)
        PROVE  Holds(p, j)'
    <3>1. ASSUME NEW k \in DOMAIN queue[p], queue[p][k] = j
          PROVE  Holds(p, j)'
      BY <2>1, <3>1 DEF Holds
    <3>2. ASSUME NEW k \in DOMAIN posted[p], Carries(p, j, posted[p][k])
          PROVE  Holds(p, j)'
      <4>1. posted[p][k] # m
        BY <2>5, <3>2 DEF Carries
      <4>2. Reappears(p, posted[p][k])
        BY <2>3, <4>1
      <4> QED
        BY <3>2, <4>2 DEF Reappears, Holds, Carries
    <3>3. ASSUME NEW k \in DOMAIN executing[p], executing[p][k].owner = p, executing[p][k].id = j
          PROVE  Holds(p, j)'
      BY <2>1, <3>3 DEF Holds
    <3> QED
      BY <2>5, <3>1, <3>2, <3>3 DEF Holds
  <2> QED
    BY <2>2, <2>4, <2>5 DEF Watches, Watched
<1> QED
  BY <1>1, <1>2

\* A client's job is queued at once.
LEMMA OnClientJobRequestWatches ==
    ASSUME TypeOK, NEW p \in Peers, NEW m, Handled(p, m), m.type = "Post", OnClientJobRequest(p, m)
    PROVE  Watches(p)
<1> PICK new : new = nextId[p]
  OBVIOUS
<1> DEFINE record == [client |-> m.src, exec |-> None, stale |-> FALSE]
           offer == AvailableWork(p, p, Len(queue[p]) + 1)
<1>1. /\ jobs' = [jobs EXCEPT ![p] = [k \in DOMAIN jobs[p] \cup {new} |-> IF k = new THEN record ELSE jobs[p][k]]]
      /\ queue' = [queue EXCEPT ![p] = Append(queue[p], new)] /\ executing' = executing
      /\ \E out : Exchange(p, m, out, <<offer>>)
  BY DEF OnClientJobRequest
<1>2. DOMAIN jobs = Peers /\ queue[p] \in Seq(JobIds) /\ DOMAIN queue = Peers
  BY DEF TypeOK
<1> HIDE DEF record, offer
<1>3. /\ DOMAIN jobs'[p] = DOMAIN jobs[p] \cup {new}
      /\ \A j \in DOMAIN jobs'[p] : j # new => jobs'[p][j] = jobs[p][j]
      /\ queue'[p] = Append(queue[p], new)
      /\ \A q \in Peers \ {p} : jobs'[q] = jobs[q] /\ queue'[q] = queue[q]
  BY <1>1, <1>2
<1>4. /\ \A k \in DOMAIN queue[p] : k \in DOMAIN queue'[p] /\ queue'[p][k] = queue[p][k]
      /\ \E k \in DOMAIN queue'[p] : queue'[p][k] = new
  BY <1>2, <1>3
<1>5. QueueStays(p) /\ ThreadsStay(p)
  BY <1>1, <1>4 DEF QueueStays, ThreadsStay
<1>6. PostsStay(p) /\ OthersSame(p)
  <2>1. <<offer>> \in Seq({offer})
    OBVIOUS
  <2> QED
    BY <1>1, <1>3, <2>1, ExchangeStays DEF PostsStay, OthersSame, Carrying
<1>7. Watched(p, new)'
  BY <1>4 DEF Watched, Holds
<1>8. ASSUME NEW j \in DOMAIN jobs[p], j # new, Watched(p, j)
      PROVE  Watched(p, j)'
  BY <1>3, <1>5, <1>6, <1>8, StillHolds DEF Watched
<1> QED
  BY <1>3, <1>6, <1>7, <1>8 DEF Watches

\* Jobs that timed out join the queue; they stay on record as before.
LEMMA OnStatusCheckWatches ==
    ASSUME TypeOK, NEW p \in Peers, OnStatusCheck(p)
    PROVE  Watches(p)
<1> DEFINE N == Cardinality(StaleJobs(p))
<1> PICK again \in Requeued(p) :
         /\ queue' = [queue EXCEPT ![p] = queue[p] \o again]
         /\ \E out : Emit(p, out, OwnOffers(p, again))
  BY DEF OnStatusCheck
<1>1. UNCHANGED <<jobs, executing>> /\ queue[p] \in Seq(JobIds) /\ DOMAIN queue = Peers
  BY DEF OnStatusCheck, TypeOK
<1>2. \E T : again \in Seq(T) /\ OwnOffers(p, again) \in Seq(T)
  <2>1. StaleJobs(p) \subseteq DOMAIN jobs[p] /\ IsFiniteSet(DOMAIN jobs[p])
    BY DEF StaleJobs, TypeOK, FiniteMap
  <2>2. N \in Nat
    BY <2>1, FS_Subset, FS_CardinalityType
  <2>3. again \in [1..N -> StaleJobs(p)]
    BY DEF Requeued
  <2> DEFINE T == StaleJobs(p) \cup {AvailableWork(p, p, Len(queue[p]) + a) : a \in 1..N}
             offers == OwnOffers(p, again)
  <2>4. offers \in [1..N -> T]
    BY <2>3 DEF OwnOffers
  <2>5. again \in [1..N -> T]
    BY <2>3
  <2> HIDE DEF T, N, offers
  <2>6. again \in Seq(T) /\ offers \in Seq(T)
    BY <2>2, <2>4, <2>5
  <2> QED
    BY <2>6 DEF offers
<1>3. PICK T : again \in Seq(T) /\ OwnOffers(p, again) \in Seq(T)
  BY <1>2
<1>4. /\ queue'[p] = queue[p] \o again
      /\ \A q \in Peers \ {p} : queue'[q] = queue[q]
  BY <1>1
<1>5. QueueStays(p) /\ ThreadsStay(p)
  <2>1. \A k \in 1..Len(queue[p]) : k \in DOMAIN queue'[p] /\ queue'[p][k] = queue[p][k]
    <3>1. Len(queue[p]) \in Nat /\ Len(again) \in Nat
      BY <1>1, <1>3
    <3> QED
      BY <1>1, <1>3, <1>4, <3>1, JoinedParts
  <2>2. DOMAIN queue[p] = 1..Len(queue[p])
    BY <1>1
  <2> QED
    BY <1>1, <2>1, <2>2 DEF QueueStays, ThreadsStay
<1>6. /\ PostsStay(p)
      /\ \A q \in Peers \ {p} : posted'[q] = posted[q]
  BY <1>3, EmitStays
<1>7. OthersSame(p)
  BY <1>1, <1>4, <1>6 DEF OthersSame
<1> QED
  BY <1>1, <1>5, <1>6, <1>7, StillWatches, SameExecs

\* Nothing of what p has changes but what it posts to itself.
LEMMA EmitWatches ==
    ASSUME TypeOK, NEW p \in Peers, NEW out, NEW T, NEW self \in Seq(T), Emit(p, out, self),
           UNCHANGED <<jobs, queue>>, ThreadsStay(p), \A q \in Peers \ {p} : executing'[q] = executing[q]
    PROVE  Watches(p)
<1>1. OthersSame(p) /\ PostsStay(p)
  BY EmitStays DEF OthersSame
<1>2. QueueStays(p)
  BY DEF QueueStays
<1> QED
  BY <1>1, <1>2, StillWatches, SameExecs

\* The worker's events are posted.
LEMMA WorkerWatches ==
    ASSUME TypeOK, NEW p \in Peers, NEW i \in DOMAIN executing[p],
           WorkerUpdate(p, i) \/ WorkerFinish(p, i)
    PROVE  Watches(p)
<1>1. /\ UNCHANGED <<jobs, queue>>
      /\ \E type : Emit(p, EmptyBag, <<JobNote(p, p, type, i)>>)
  BY DEF WorkerUpdate, WorkerFinish, peerVars
<1>2. ThreadsStay(p) /\ \A q \in Peers \ {p} : executing'[q] = executing[q]
  <2>1. CASE WorkerUpdate(p, i)
    BY <2>1 DEF WorkerUpdate, peerVars, ThreadsStay
  <2>2. CASE WorkerFinish(p, i)
    <3> DEFINE done == [executing[p][i] EXCEPT !.done = TRUE]
    <3>1. executing' = [executing EXCEPT ![p][i] = done]
      BY <2>2 DEF WorkerFinish
    <3>2. executing[p][i] \in RunningJob /\ DOMAIN executing = Peers
      BY DEF TypeOK, FiniteMap
    <3>3. done.owner = executing[p][i].owner /\ done.id = executing[p][i].id
      BY <3>2 DEF RunningJob
    <3> HIDE DEF done
    <3>4. executing'[p] = [executing[p] EXCEPT ![i] = done] /\ \A q \in Peers \ {p} : executing'[q] = executing[q]
      BY <3>1, <3>2
    <3> QED
      BY <3>3, <3>4 DEF ThreadsStay
  <2> QED
    BY <2>1, <2>2
<1> PICK type : Emit(p, EmptyBag, <<JobNote(p, p, type, i)>>)
  BY <1>1
<1> PICK note : note = JobNote(p, p, type, i)
  OBVIOUS
<1>3. <<note>> \in Seq({note})
  OBVIOUS
<1> QED
  BY <1>1, <1>2, <1>3, EmitWatches

\* Nothing that p has of its jobs changes.
LEMMA UntouchedWatches ==
    ASSUME UNCHANGED <<jobs, queue, executing>>, \A q \in Peers : posted'[q] = posted[q]
    PROVE  \A p \in Peers : Watches(p)
<1> SUFFICES ASSUME NEW p \in Peers
             PROVE  Watches(p)
  OBVIOUS
<1>1. QueueStays(p) /\ ThreadsStay(p) /\ PostsStay(p) /\ OthersSame(p)
  BY DEF QueueStays, ThreadsStay, PostsStay, Reappears, OthersSame
<1> QED
  BY <1>1, StillWatches, SameExecs

LEMMA ExpireWatches ==
    ASSUME TypeOK, NEW p \in Peers, NEW j \in DOMAIN jobs[p], Expire(p, j)
    PROVE  Watches(p)
<1> DEFINE aged == [jobs[p][j] EXCEPT !.stale = TRUE]
<1>1. jobs' = [jobs EXCEPT ![p][j] = aged] /\ UNCHANGED <<queue, executing, posted>>
  BY DEF Expire
<1>2. jobs[p][j] \in OwnedJob /\ DOMAIN jobs = Peers
  BY DEF TypeOK, FiniteMap
<1>3. aged.exec = jobs[p][j].exec
  BY <1>2 DEF OwnedJob
<1> HIDE DEF aged
<1>4. jobs'[p] = [jobs[p] EXCEPT ![j] = aged] /\ \A q \in Peers \ {p} : jobs'[q] = jobs[q]
  BY <1>1, <1>2
<1>5. SameExec(p)
  BY <1>3, <1>4 DEF SameExec
<1>6. QueueStays(p) /\ ThreadsStay(p) /\ PostsStay(p) /\ OthersSame(p)
  BY <1>1, <1>4 DEF QueueStays, ThreadsStay, PostsStay, Reappears, OthersSame
<1> QED
  BY <1>5, <1>6, StillWatches

LEMMA PeerMessageWatches ==
    ASSUME TypeOK, TypeOK', AwaitInv, CapacityRespected, IdInv, NEW p \in Peers,
           NEW m, Handled(p, m), OnReceivePeerMessage(p, m)
    PROVE  Watches(p)
BY AskingWatches, OnJobRequestWatches, OnReceiveJobWatches, UpdateWatches,
   OnDelegatedJobCompletedWatches DEF OnReceivePeerMessage

\* A message from another process is dropped, and nothing else happens.
LEMMA DropWatches ==
    ASSUME TypeOK, NEW m \in DOMAIN net, Discard(m) \/ Lose(m)
    PROVE  \A p \in Peers : Watches(p)
<1>1. m.dst \in Peers /\ ~Local(m) /\ Consume(m) /\ UNCHANGED peerVars
  BY Fields DEF Discard, Lose, TypeOK, Parcels, Local, Incoming
<1>2. posted' = [posted EXCEPT ![m.dst] = posted[m.dst] \o << >>]
  BY <1>1 DEF Consume, Exchange
<1>3. posted[m.dst] \in Seq(Posts(m.dst)) /\ DOMAIN posted = Peers
  BY <1>1 DEF TypeOK
<1>4. \A q \in Peers : posted'[q] = posted[q]
  <2>1. posted[m.dst] \o << >> = posted[m.dst]
    BY <1>3
  <2> QED
    BY <1>2, <1>3, <2>1
<1> QED
  BY <1>1, <1>4, UntouchedWatches DEF peerVars

LEMMA ServeWatches ==
    ASSUME TypeOK, TypeOK', AwaitInv, CapacityRespected, IdInv, NEW p \in Peers, Serve(p)
    PROVE  Watches(p)
<1>1. CASE RunPosted(p)
  <2> DEFINE m == Head(posted[p])
  <2>1. m \in Posts(p) /\ posted[p] # << >>
    BY <1>1 DEF RunPosted, TypeOK
  <2>2. Handled(p, m)
    BY <2>1 DEF Posts, Handled, Incoming, Local
  <2>3. \/ OnReceivePeerMessage(p, m)
        \/ m.type = "Updated" /\ OnJobUpdate(p, m)
        \/ m.type = "Finished" /\ OnJobProcessingCompleted(p, m)
    BY <1>1 DEF RunPosted
  <2> HIDE DEF m
  <2> QED
    BY <2>2, <2>3, PeerMessageWatches, UpdateWatches, OnJobProcessingCompletedWatches
<1>2. ASSUME NEW m \in DOMAIN net, m.dst = p, Deliver(m)
      PROVE  Watches(p)
  <2>1. Handled(p, m)
    BY <1>2 DEF TypeOK, Parcels, Handled, Incoming, Local
  <2>2. \/ m.type = "Ping" /\ OnPing(p, m)
        \/ m.type = "Post" /\ OnClientJobRequest(p, m)
        \/ OnReceivePeerMessage(p, m)
    BY <1>2 DEF Deliver
  <2> QED
    BY <2>1, <2>2, PeerMessageWatches, OnPingWatches, OnClientJobRequestWatches
<1>3. ASSUME NEW m \in DOMAIN net, m.dst = p, Discard(m)
      PROVE  Watches(p)
  BY <1>3, DropWatches
<1> QED
  BY <1>1, <1>2, <1>3 DEF Serve

LEMMA NextWatches ==
    ASSUME TypeOK, TypeOK', AwaitInv, CapacityRespected, IdInv, WatchInv, [Next]_vars
    PROVE  WatchInv'
<1>1. (\E p \in Peers : Watches(p)) => WatchInv'
  BY WatchKept, NextElapses
<1>2. CASE UNCHANGED vars
  BY <1>2 DEF vars, WatchInv, Watched, Holds, Carries
<1>3. ASSUME NEW p \in Peers, Start(p)
      PROVE  WatchInv'
  <2>1. /\ UNCHANGED <<jobs, queue, executing>> /\ ThreadsStay(p)
        /\ \E out : Emit(p, out, << >>)
    BY <1>3 DEF Start, peerVars, ThreadsStay
  <2>2. << >> \in Seq({})
    OBVIOUS
  <2> QED
    BY <1>1, <2>1, <2>2, EmitWatches
<1>4. ASSUME NEW p \in Peers, Crash(p)
      PROVE  WatchInv'
  BY <1>1, <1>4, UntouchedWatches DEF Crash, peerVars
<1>5. ASSUME NEW p \in Peers, NEW i \in DOMAIN executing[p], NoExecutorTerminates(p, i)
      PROVE  WatchInv'
  BY <1>1, <1>5, UntouchedWatches DEF NoExecutorTerminates, peerVars
<1>6. ASSUME NEW p \in Peers, NEW i \in DOMAIN executing[p], WorkerUpdate(p, i) \/ WorkerFinish(p, i)
      PROVE  WatchInv'
  BY <1>1, <1>6, WorkerWatches
<1>7. ASSUME NEW p \in Peers, OnStatusCheck(p)
      PROVE  WatchInv'
  BY <1>1, <1>7, OnStatusCheckWatches
<1>8. ASSUME NEW p \in Peers, NEW j \in DOMAIN jobs[p], Expire(p, j)
      PROVE  WatchInv'
  BY <1>1, <1>8, ExpireWatches
<1>9. ASSUME NEW c \in Clients, PostJob(c)
      PROVE  WatchInv'
  <2>1. UNCHANGED <<jobs, queue, executing, posted>> /\ home[c] \in Peers
    BY <1>9 DEF PostJob, peerVars, TypeOK
  <2> QED
    BY <1>1, <2>1, UntouchedWatches
<1>10. ASSUME NEW c \in Clients, NEW p \in Peers, Register(c, p)
       PROVE  WatchInv'
  BY <1>1, <1>10, UntouchedWatches DEF Register, peerVars
<1>11. ASSUME NEW m \in DOMAIN net, Lose(m)
       PROVE  WatchInv'
  <2>1. m.dst \in Peers
    BY Fields DEF TypeOK, Parcels, Incoming
  <2> QED
    BY <1>1, <1>11, <2>1, DropWatches
<1>12. ASSUME NEW p \in Peers, Serve(p)
       PROVE  WatchInv'
  BY <1>1, <1>12, ServeWatches
<1> QED
  BY <1>2, <1>3, <1>4, <1>5, <1>6, <1>7, <1>8, <1>9, <1>10, <1>11, <1>12 DEF Next, Work

\* Of a job that a running peer neither holds itself nor has another peer on record for,
\* nobody would ever notice that it was lost: check_owned_jobs looks at the others only.
THEOREM LostJobsAreNoticed == Spec => []LostJobsTimeOut
<1> DEFINE Together == TypeOK /\ AwaitInv /\ CapacityRespected /\ IdInv /\ WatchInv
<1>1. Init => Together
  <2>1. Init => WatchInv
    <3>1. DOMAIN EmptyMap = {}
      BY DEF EmptyMap
    <3> QED
      BY <3>1 DEF Init, Idle, WatchInv
  <2> QED
    BY <2>1, InitType, InitAwait, InitFits, InitIds
<1>2. Together /\ [Next]_vars => Together'
  <2> SUFFICES ASSUME Together, [Next]_vars
               PROVE  Together'
    OBVIOUS
  <2>1. TypeOK'
    BY NextType
  <2>2. AwaitInv' /\ CapacityRespected' /\ IdInv' /\ WatchInv'
    BY <2>1, NextAwait, NextFits, NextIds, NextWatches
  <2> QED
    BY <2>1, <2>2
<1>3. Together => LostJobsTimeOut
  BY DEF WatchInv, LostJobsTimeOut, Watched, Alive
<1> HIDE DEF Together
<1> QED
  BY <1>1, <1>2, <1>3, PTL DEF Spec

=============================================================================
