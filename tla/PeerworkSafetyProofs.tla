------------------------- MODULE PeerworkSafetyProofs -------------------------
(***************************************************************************)
(* Safety of the work-sharing service, for any number of peers, clients,   *)
(* threads and environment events: every variable has its type, no message *)
(* that moves a job is ignored, ids are never confused, worker threads     *)
(* report on jobs there are, and the network keeps the promise of module   *)
(* JobService to its clients.                                              *)
(***************************************************************************)
EXTENDS PeerworkProperties, FiniteSetTheorems, SequenceTheorems, TLAPS

-----------------------------------------------------------------------------
(* Bags. *)

\* The sum of two bags is a bag of the elements of both.
LEMMA SumIsBag ==
    ASSUME NEW A, NEW B, IsABag(A), IsABag(B)
    PROVE  IsABag(A (+) B) /\ DOMAIN (A (+) B) = DOMAIN A \cup DOMAIN B
BY DEF IsABag, (+)

\* What is left of a bag is a bag.
LEMMA DifferenceIsBag ==
    ASSUME NEW A, NEW B, IsABag(A), IsABag(B)
    PROVE  IsABag(A (-) B) /\ DOMAIN (A (-) B) \subseteq DOMAIN A
BY DEF IsABag, (-)

\* A set makes a bag of its elements.
LEMMA SetIsBag ==
    ASSUME NEW S
    PROVE  IsABag(SetToBag(S)) /\ DOMAIN SetToBag(S) = S
BY DEF IsABag, SetToBag

\* The empty bag is a bag without elements.
LEMMA EmptyIsBag == IsABag(EmptyBag) /\ DOMAIN EmptyBag = {}
BY SetIsBag DEF EmptyBag

\* A sequence makes a bag of its elements.
LEMMA SequenceIsBag ==
    ASSUME NEW T, NEW s \in Seq(T)
    PROVE  IsABag(ToBag(s)) /\ DOMAIN ToBag(s) = Range(s) /\ Range(s) \subseteq T
<1>1. ASSUME NEW x \in Range(s)
      PROVE  Cardinality({i \in DOMAIN s : s[i] = x}) \in {n \in Nat : n > 0}
  <2> DEFINE I == {i \in DOMAIN s : s[i] = x}
  <2>1. IsFiniteSet(DOMAIN s)
    BY FS_Interval
  <2>2. IsFiniteSet(I)
    BY <2>1, FS_Subset
  <2>3. I # {}
    BY <1>1 DEF Range
  <2>4. Cardinality(I) \in Nat /\ Cardinality(I) # 0
    BY <2>2, <2>3, FS_CardinalityType, FS_EmptySet
  <2> QED
    BY <2>4
<1>2. Range(s) \subseteq T
  BY DEF Range
<1> QED
  BY <1>1, <1>2 DEF ToBag, IsABag

\* A sequence has finitely many elements.
LEMMA RangeIsFinite ==
    ASSUME NEW T, NEW s \in Seq(T)
    PROVE  IsFiniteSet(Range(s)) /\ Range(s) \subseteq T
<1>1. s \in Surjection(1..Len(s), Range(s))
  BY DEF Surjection, Range
<1>2. Len(s) \in Nat /\ ExistsSurjection(1..Len(s), Range(s))
  BY <1>1 DEF ExistsSurjection
<1> QED
  BY <1>2, FS_NatSurjection, RangeOfSeq

-----------------------------------------------------------------------------
(* Messages. *)

Incoming == Message \cup LocalEvent \cup ClientPost

\* m is the next of p's own posts, or came to p from another process.
Received(p, m) == m \in Incoming /\ m.dst = p /\ (Local(m) => posted[p] # << >>)

\* A received message has the fields its handler reads.
LEMMA Fields ==
    ASSUME NEW m \in Incoming
    PROVE  /\ m.dst \in Peers
           /\ m.type # "Post" => m.src \in Peers
           /\ m.type = "Post" => m.src \in Clients
           /\ m.type = "Ping" => m.count \in Nat /\ m.peers \subseteq Peers /\ m.ids \subseteq JobIds
           /\ m.type \in {"AvailableWork", "RequestJobs"} => m.count \in Nat
           /\ m.type = "DelegateJob" => m.id \in JobIds /\ m.desc \in {"given", "blank"}
           /\ m.type \in {"JobCompleted", "CancelJob", "JobUpdate", "Updated", "Finished"} =>
                m.id \in JobIds
BY DEF Incoming, Message, LocalEvent, ClientPost

\* The messages that handlers make are messages.
LEMMA Made ==
    ASSUME NEW p \in Peers, NEW q \in Peers
    PROVE  /\ \A n \in Nat : AvailableWork(p, q, n) \in Message /\ RequestJobs(p, q, n) \in Message
           /\ \A j \in JobIds, d \in {"given", "blank"} : DelegateJob(p, q, j, d) \in Message
           /\ NoMoreJobs(p, q) \in Message
           /\ \A j \in JobIds, t \in {"JobCompleted", "CancelJob", "JobUpdate"} :
                JobNote(p, q, t, j) \in Message
           /\ \A j \in JobIds, t \in {"Updated", "Finished"} : JobNote(p, p, t, j) \in LocalEvent
BY DEF Message, LocalEvent, AvailableWork, RequestJobs, DelegateJob, NoMoreJobs, JobNote

\* So are pings.
LEMMA PingMade ==
    ASSUME TypeOK, NEW p \in Peers, NEW q \in Peers, NEW list \in SUBSET Peers
    PROVE  Ping(p, q, list) \in Message
<1>1. Len(queue[p]) \in Nat
  BY DEF TypeOK
<1>2. {executing[p][i].id : i \in {k \in DOMAIN executing[p] : executing[p][k].owner = q}}
        \subseteq JobIds
  BY DEF TypeOK, FiniteMap, RunningJob
<1> QED
  BY <1>1, <1>2 DEF Ping, Message

\* A peer's own posts, and what it may send to other processes.
Outgoing(p) == {m \in Message : m.src = p /\ m.dst # p}

\* Handling m keeps the posts and the messages in flight well-formed.
LEMMA ExchangeType ==
    ASSUME TypeOK, NEW p \in Peers, NEW m, Received(p, m),
           NEW out, IsABag(out), DOMAIN out \subseteq Outgoing(p),
           NEW self \in Seq(Posts(p)),
           Exchange(p, m, out, self)
    PROVE  /\ DOMAIN posted' = Peers /\ \A q \in Peers : posted'[q] \in Seq(Posts(q))
           /\ IsABag(net') /\ DOMAIN net' \subseteq Parcels
<1>1. DOMAIN out \subseteq Parcels
  BY DEF Outgoing, Parcels
<1>2. IsABag(net (-) SetToBag({m})) /\ DOMAIN (net (-) SetToBag({m})) \subseteq Parcels
  BY SetIsBag, DifferenceIsBag DEF TypeOK
<1>3. IsABag(net') /\ DOMAIN net' \subseteq Parcels
  <2> DEFINE rest == IF Local(m) THEN net ELSE net (-) SetToBag({m})
  <2>1. IsABag(rest) /\ DOMAIN rest \subseteq Parcels
    BY <1>2 DEF TypeOK
  <2>2. IsABag(rest (+) out) /\ DOMAIN (rest (+) out) = DOMAIN rest \cup DOMAIN out
    BY <2>1, SumIsBag
  <2>3. net' = rest (+) out
    BY DEF Exchange
  <2> QED
    BY <1>1, <2>1, <2>2, <2>3
<1>4. (IF Local(m) THEN Tail(posted[p]) ELSE posted[p]) \in Seq(Posts(p))
  BY DEF TypeOK, Received
<1>5. (IF Local(m) THEN Tail(posted[p]) ELSE posted[p]) \o self \in Seq(Posts(p))
  BY <1>4
<1> QED
  BY <1>3, <1>5 DEF Exchange, TypeOK

\* So does sending without having received.
LEMMA EmitType ==
    ASSUME TypeOK, NEW p \in Peers,
           NEW out, IsABag(out), DOMAIN out \subseteq Outgoing(p),
           NEW self \in Seq(Posts(p)),
           Emit(p, out, self)
    PROVE  /\ DOMAIN posted' = Peers /\ \A q \in Peers : posted'[q] \in Seq(Posts(q))
           /\ IsABag(net') /\ DOMAIN net' \subseteq Parcels
<1>1. DOMAIN out \subseteq Parcels
  BY DEF Outgoing, Parcels
<1>2. IsABag(net (+) out) /\ DOMAIN (net (+) out) = DOMAIN net \cup DOMAIN out
  BY SumIsBag DEF TypeOK
<1>3. IsABag(net') /\ DOMAIN net' \subseteq Parcels
  BY <1>1, <1>2 DEF Emit, TypeOK
<1>4. posted[p] \o self \in Seq(Posts(p))
  BY DEF TypeOK
<1> QED
  BY <1>3, <1>4 DEF Emit, TypeOK

\* Receiving without sending is a special case.
LEMMA ConsumeType ==
    ASSUME TypeOK, NEW m, Received(m.dst, m), Consume(m)
    PROVE  /\ DOMAIN posted' = Peers /\ \A q \in Peers : posted'[q] \in Seq(Posts(q))
           /\ IsABag(net') /\ DOMAIN net' \subseteq Parcels
<1>1. m.dst \in Peers
  BY Fields DEF Received
<1>2. << >> \in Seq(Posts(m.dst))
  OBVIOUS
<1> QED
  BY <1>1, <1>2, ExchangeType, EmptyIsBag DEF Consume

\* What a client is told is a message to that client.
LEMMA TellClientType ==
    ASSUME TypeOK, NEW p \in Peers, NEW c \in Clients \cup {NoClient}, NEW j \in JobIds,
           NEW t \in {"JobAccepted", "JobStatus", "JobCompleted"}, TellClient(p, c, t, j)
    PROVE  IsABag(inbox') /\ DOMAIN inbox' \subseteq ClientMessage
<1> DEFINE m == [src |-> p, dst |-> c, type |-> t, id |-> j]
<1>1. CASE c = NoClient
  BY <1>1 DEF TellClient, TypeOK
<1>2. CASE c # NoClient
  <2>1. m \in ClientMessage
    BY <1>2 DEF ClientMessage
  <2> DEFINE note == SetToBag({m})
  <2>2. IsABag(note) /\ DOMAIN note = {m}
    BY SetIsBag
  <2> HIDE DEF note
  <2> DEFINE all == inbox (+) note
  <2>3. IsABag(inbox)
    BY DEF TypeOK
  <2>4. IsABag(all) /\ DOMAIN all = DOMAIN inbox \cup DOMAIN note
    BY <2>2, <2>3, SumIsBag
  <2>5. inbox' = all
    BY <1>2 DEF TellClient, note
  <2> HIDE DEF all
  <2> QED
    BY <2>1, <2>2, <2>4, <2>5 DEF TypeOK
<1> QED
  BY <1>1, <1>2

-----------------------------------------------------------------------------
(* Looking for work. *)

\* A peer asks within what it believes others have.
LEMMA AskType ==
    ASSUME NEW p \in Peers, NEW av, NEW op, NEW ex, NEW ask \in Asked(p, av, op, ex)
    PROVE  ask \in [Peers -> Nat] /\ \A q \in Peers : ask[q] <= av[q]
BY PeersAssumption DEF Asked, WithinOffer

\* The books stay well-formed, and the requests sent are messages.
LEMMA LookForWorkType ==
    ASSUME TypeOK, NEW p \in Peers, NEW av \in [Peers -> Nat], NEW op \in [Peers -> Int], NEW ex,
           NEW ask \in Asked(p, av, op, ex), LookForWork(p, av, op, ask)
    PROVE  avail' \in [Peers -> [Peers -> Nat]] /\ open' \in [Peers -> [Peers -> Int]]
<1>1. ask \in [Peers -> Nat] /\ \A q \in Peers : ask[q] <= av[q]
  BY AskType
<1>2. [q \in Peers |-> av[q] - ask[q]] \in [Peers -> Nat]
  BY <1>1
<1>3. [q \in Peers |-> op[q] + ask[q]] \in [Peers -> Int]
  BY <1>1
<1> QED
  BY <1>2, <1>3 DEF LookForWork, TypeOK

LEMMA RequestsType ==
    ASSUME NEW p \in Peers, NEW ask \in [Peers -> Nat]
    PROVE  /\ IsABag(Requests(p, ask)) /\ DOMAIN Requests(p, ask) \subseteq Outgoing(p)
           /\ OwnRequest(p, ask) \in Seq(Posts(p))
<1> DEFINE R == {RequestJobs(p, q, ask[q]) : q \in {r \in Peers \ {p} : ask[r] > 0}}
<1>1. R \subseteq Outgoing(p)
  BY Made DEF Outgoing, RequestJobs
<1>2. RequestJobs(p, p, ask[p]) \in Posts(p)
  BY Made DEF Posts, RequestJobs
<1> QED
  BY <1>1, <1>2, SetIsBag DEF Requests, OwnRequest

-----------------------------------------------------------------------------
(* Every handler keeps the types. *)

\* A process that ends keeps them.
LEMMA DieType ==
    ASSUME TypeOK, NEW m, Received(m.dst, m), NEW cause \in Statuses, Die(m, cause)
    PROVE  TypeOK'
<1>1. status' \in [Peers -> Statuses]
  BY DEF Die, TypeOK
<1> QED
  BY <1>1, ConsumeType DEF Die, TypeOK, peerVars

LEMMA OnPingType ==
    ASSUME TypeOK, NEW p \in Peers, NEW m, Received(p, m), m.type = "Ping", OnPing(p, m)
    PROVE  TypeOK'
<1> DEFINE av == [avail[p] EXCEPT ![m.src] = m.count]
           delegated == \A j \in m.ids : j \in DOMAIN jobs[p] /\ jobs[p][j].exec = m.src
<1>1. m.dst = p /\ m.src \in Peers /\ m.count \in Nat /\ m.peers \subseteq Peers
  BY Fields DEF Received
<1>2. CASE ~delegated
  BY <1>1, <1>2, DieType DEF OnPing, Statuses
<1>3. CASE delegated
  <2>1. PICK ask \in Asked(p, av, open[p], executing[p]) :
          /\ LookForWork(p, av, open[p], ask)
          /\ Exchange(p, m, SetToBag({Ping(p, q, Acquaintance(p, m)) : q \in Newcomers(p, m)})
                              (+) Requests(p, ask), OwnRequest(p, ask))
    BY <1>3 DEF OnPing
  <2>2. av \in [Peers -> Nat] /\ open[p] \in [Peers -> Int]
    BY <1>1 DEF TypeOK
  <2>3. avail' \in [Peers -> [Peers -> Nat]] /\ open' \in [Peers -> [Peers -> Int]]
    BY <2>1, <2>2, LookForWorkType
  <2>4. Acquaintance(p, m) \in SUBSET Peers /\ p \notin Acquaintance(p, m)
    BY <1>1 DEF Acquaintance, TypeOK
  <2> DEFINE pings == {Ping(p, q, Acquaintance(p, m)) : q \in Newcomers(p, m)}
             out == SetToBag(pings) (+) Requests(p, ask)
  <2>5. pings \subseteq Outgoing(p)
    BY <2>4, PingMade DEF Newcomers, Outgoing, Ping
  <2>6. IsABag(SetToBag(pings)) /\ DOMAIN SetToBag(pings) = pings
    BY SetIsBag
  <2>7. ask \in [Peers -> Nat]
    BY AskType
  <2>8. /\ IsABag(Requests(p, ask)) /\ DOMAIN Requests(p, ask) \subseteq Outgoing(p)
        /\ OwnRequest(p, ask) \in Seq(Posts(p))
    BY <2>7, RequestsType
  <2>9. IsABag(out) /\ DOMAIN out \subseteq Outgoing(p)
    BY <2>5, <2>6, <2>8, SumIsBag
  <2>10. /\ DOMAIN posted' = Peers /\ \A q \in Peers : posted'[q] \in Seq(Posts(q))
         /\ IsABag(net') /\ DOMAIN net' \subseteq Parcels
    BY <2>1, <2>8, <2>9, ExchangeType
  <2>11. /\ known' = [known EXCEPT ![p] = Acquaintance(p, m)]
         /\ jobs' = [jobs EXCEPT ![p] = [j \in DOMAIN jobs[p] |->
                       IF j \in m.ids THEN Pinged(jobs[p][j]) ELSE jobs[p][j]]]
         /\ UNCHANGED <<status, queue, nextId, executing, home, inbox, executed, spent>>
    BY <1>3 DEF OnPing
  <2>12. known' \in [Peers -> SUBSET Peers] /\ \A q \in Peers : q \notin known'[q]
    BY <2>4, <2>11 DEF TypeOK
  <2>13. \A job \in OwnedJob : Pinged(job) \in OwnedJob
    BY DEF OwnedJob, Pinged
  <2>14. DOMAIN jobs' = Peers /\ \A q \in Peers : FiniteMap(jobs'[q], JobIds, OwnedJob)
    BY <2>11, <2>13 DEF TypeOK, FiniteMap
  <2> QED
    BY <2>3, <2>10, <2>11, <2>12, <2>14 DEF TypeOK
<1> QED
  BY <1>2, <1>3

LEMMA OnAvailableWorkType ==
    ASSUME TypeOK, NEW p \in Peers, NEW m, Received(p, m), m.type = "AvailableWork",
           OnAvailableWork(p, m)
    PROVE  TypeOK'
<1> DEFINE av == [avail[p] EXCEPT ![m.src] = m.count]
<1>1. m.src \in Peers /\ m.count \in Nat
  BY Fields DEF Received
<1>2. PICK ask \in Asked(p, av, open[p], executing[p]) :
        /\ LookForWork(p, av, open[p], ask)
        /\ Exchange(p, m, Requests(p, ask), OwnRequest(p, ask))
  BY DEF OnAvailableWork
<1>3. av \in [Peers -> Nat] /\ open[p] \in [Peers -> Int]
  BY <1>1 DEF TypeOK
<1>4. avail' \in [Peers -> [Peers -> Nat]] /\ open' \in [Peers -> [Peers -> Int]]
  BY <1>2, <1>3, LookForWorkType
<1>5. /\ IsABag(Requests(p, ask)) /\ DOMAIN Requests(p, ask) \subseteq Outgoing(p)
      /\ OwnRequest(p, ask) \in Seq(Posts(p))
  BY AskType, RequestsType
<1>6. /\ DOMAIN posted' = Peers /\ \A q \in Peers : posted'[q] \in Seq(Posts(q))
      /\ IsABag(net') /\ DOMAIN net' \subseteq Parcels
  BY <1>2, <1>5, ExchangeType
<1> QED
  BY <1>4, <1>6 DEF OnAvailableWork, TypeOK

\* What a request takes from the queue is a part of it.
LEMMA HandedType ==
    ASSUME TypeOK, NEW p \in Peers, NEW n \in 0..Len(queue[p])
    PROVE  /\ SubSeq(queue[p], 1, n) \in Seq(JobIds) /\ Len(SubSeq(queue[p], 1, n)) = n
           /\ Remaining(p, n) \in Seq(JobIds)
<1>1. queue[p] \in Seq(JobIds)
  BY DEF TypeOK
<1> QED
  BY <1>1 DEF Remaining

LEMMA OnJobRequestType ==
    ASSUME TypeOK, NEW p \in Peers, NEW m, Received(p, m), m.type = "RequestJobs",
           OnJobRequest(p, m)
    PROVE  TypeOK'
<1> DEFINE n == IF m.count < Len(queue[p]) THEN m.count ELSE Len(queue[p])
           handed == SubSeq(queue[p], 1, n)
           offers == [i \in 1..n |-> DelegateJob(p, m.src, handed[i], Description(p, handed[i]))]
           reply == offers \o Refusal(p, m, n)
<1>1. m.src \in Peers /\ m.dst = p /\ m.count \in Nat
  BY Fields DEF Received
<1>2. n \in 0..Len(queue[p])
  <2>1. queue[p] \in Seq(JobIds)
    BY DEF TypeOK
  <2>2. Len(queue[p]) \in Nat
    BY <2>1
  <2> QED
    BY <1>1, <2>2
<1>3. handed \in Seq(JobIds) /\ Len(handed) = n /\ Remaining(p, n) \in Seq(JobIds)
  BY <1>2, HandedType
<1>4. /\ queue' = [queue EXCEPT ![p] = Remaining(p, n)]
      /\ jobs' = [jobs EXCEPT ![p] = [j \in DOMAIN jobs[p] \cup Range(handed) |->
                    IF j \in Range(handed) THEN Delegated(p, m, j) ELSE jobs[p][j]]]
      /\ IF Local(m) THEN Exchange(p, m, EmptyBag, reply) ELSE Exchange(p, m, ToBag(reply), << >>)
      /\ UNCHANGED <<status, known, nextId, executing, avail, open, home, inbox, executed, spent>>
  BY DEF OnJobRequest
<1> DEFINE Replies == {x \in Message : x.src = p /\ x.dst = m.src}
<1>5. reply \in Seq(Replies)
  <2>1. \A j \in JobIds, d \in {"given", "blank"} : DelegateJob(p, m.src, j, d) \in Replies
    BY <1>1, Made DEF DelegateJob
  <2>2. \A j : Description(p, j) \in {"given", "blank"}
    BY DEF Description
  <2>3. \A i \in 1..n : handed[i] \in JobIds
    BY <1>3
  <2>4. offers \in Seq(Replies)
    <3>1. \A i \in 1..n : DelegateJob(p, m.src, handed[i], Description(p, handed[i])) \in Replies
      BY <2>1, <2>2, <2>3
    <3> HIDE DEF n, handed, Replies
    <3> QED
      BY <1>2, <3>1
  <2>5. NoMoreJobs(p, m.src) \in Replies
    BY <1>1, Made DEF NoMoreJobs
  <2> HIDE DEF n, handed, offers, Replies
  <2>6. Refusal(p, m, n) \in Seq(Replies)
    BY <2>5 DEF Refusal
  <2> QED
    BY <2>4, <2>6
<1> HIDE DEF n, handed, offers, reply
<1>6. /\ DOMAIN posted' = Peers /\ \A q \in Peers : posted'[q] \in Seq(Posts(q))
      /\ IsABag(net') /\ DOMAIN net' \subseteq Parcels
  <2>1. CASE Local(m)
    <3>1. Replies \subseteq Posts(p)
      BY <1>1, <2>1 DEF Local, Posts
    <3>2. reply \in Seq(Posts(p))
      BY <1>5, <3>1
    <3>3. Exchange(p, m, EmptyBag, reply)
      BY <1>4, <2>1
    <3> QED
      BY <3>2, <3>3, EmptyIsBag, ExchangeType
  <2>2. CASE ~Local(m)
    <3>1. Replies \subseteq Outgoing(p)
      BY <1>1, <2>2 DEF Local, Outgoing
    <3>2. IsABag(ToBag(reply)) /\ DOMAIN ToBag(reply) \subseteq Outgoing(p)
      BY <1>5, <3>1, SequenceIsBag
    <3>3. Exchange(p, m, ToBag(reply), << >>)
      BY <1>4, <2>2
    <3>4. << >> \in Seq(Posts(p))
      OBVIOUS
    <3> QED
      BY <3>2, <3>3, <3>4, ExchangeType
  <2> QED
    BY <2>1, <2>2
<1>7. DOMAIN jobs' = Peers /\ \A q \in Peers : FiniteMap(jobs'[q], JobIds, OwnedJob)
  <2>1. \A j \in JobIds : Delegated(p, m, j) \in OwnedJob
    BY <1>1 DEF Delegated, ClientOf, OwnedJob, TypeOK, FiniteMap
  <2>2. IsFiniteSet(Range(handed)) /\ Range(handed) \subseteq JobIds
    BY <1>3, RangeIsFinite
  <2>3. IsFiniteSet(DOMAIN jobs[p] \cup Range(handed))
    BY <2>2, FS_Union DEF TypeOK, FiniteMap
  <2> QED
    BY <1>4, <2>1, <2>2, <2>3 DEF TypeOK, FiniteMap
<1>8. queue' \in [Peers -> Seq(JobIds)]
  BY <1>3, <1>4 DEF TypeOK
<1> QED
  BY <1>4, <1>6, <1>7, <1>8 DEF TypeOK

\* A request is closed in the books of one peer only.
LEMMA CloseType ==
    ASSUME TypeOK, NEW p \in Peers, NEW q \in Peers
    PROVE  Close(open[p], q) \in [Peers -> Int]
BY DEF Close, TypeOK

LEMMA OnReceiveJobType ==
    ASSUME TypeOK, NEW p \in Peers, NEW m, Received(p, m), m.type = "DelegateJob",
           OnReceiveJob(p, m)
    PROVE  TypeOK'
<1> DEFINE i == InProgressId(p)
           job == [owner |-> m.src, id |-> m.id, desc |-> m.desc, done |-> FALSE]
<1>1. m.src \in Peers /\ m.dst = p /\ m.id \in JobIds /\ m.desc \in {"given", "blank"}
  BY Fields DEF Received
<1>2. nextId' \in [Peers -> Nat]
  <2>1. nextId' = [nextId EXCEPT ![p] = nextId[p] + 1] \/ nextId' = nextId
    BY DEF OnReceiveJob
  <2>2. nextId \in [Peers -> Nat] /\ nextId[p] + 1 \in Nat
    BY DEF TypeOK
  <2> QED
    BY <2>1, <2>2
<1>3. DOMAIN executing' = Peers /\ \A q \in Peers : FiniteMap(executing'[q], JobIds, RunningJob)
  <2>1. CASE Cardinality(DOMAIN executing[p]) < MaxThreads[p]
    <3>1. executing' = [executing EXCEPT ![p] =
             [k \in DOMAIN executing[p] \cup {i} |-> IF k = i THEN job ELSE executing[p][k]]]
      BY <2>1 DEF OnReceiveJob
    <3>2. job \in RunningJob
      BY <1>1 DEF RunningJob
    <3>3. i \in JobIds
      BY DEF InProgressId, JobIds, TypeOK
    <3>4. IsFiniteSet(DOMAIN executing[p] \cup {i})
      BY FS_AddElement DEF TypeOK, FiniteMap
    <3> HIDE DEF i, job
    <3> QED
      BY <3>1, <3>2, <3>3, <3>4 DEF TypeOK, FiniteMap
  <2>2. CASE ~(Cardinality(DOMAIN executing[p]) < MaxThreads[p])
    BY <2>2 DEF OnReceiveJob, TypeOK
  <2> QED
    BY <2>1, <2>2
<1>4. open' \in [Peers -> [Peers -> Int]]
  BY <1>1, CloseType DEF OnReceiveJob, TypeOK
<1>5. Consume(m) /\ Received(m.dst, m)
  BY <1>1 DEF OnReceiveJob
<1>6. UNCHANGED <<status, known, jobs, queue, avail, home, inbox, executed, spent>>
  BY DEF OnReceiveJob
<1> QED
  BY <1>2, <1>3, <1>4, <1>5, <1>6, ConsumeType DEF TypeOK

LEMMA OnNotifiedNoJobsType ==
    ASSUME TypeOK, NEW p \in Peers, NEW m, Received(p, m), m.type = "NoMoreJobs",
           OnNotifiedNoJobs(p, m)
    PROVE  TypeOK'
<1> DEFINE op == Close(open[p], m.src)
<1>1. PICK ask \in Asked(p, avail[p], op, executing[p]) :
        /\ LookForWork(p, avail[p], op, ask)
        /\ Exchange(p, m, Requests(p, ask), OwnRequest(p, ask))
  BY DEF OnNotifiedNoJobs
<1>2. avail[p] \in [Peers -> Nat] /\ op \in [Peers -> Int]
  BY Fields, CloseType DEF Received, TypeOK
<1>3. avail' \in [Peers -> [Peers -> Nat]] /\ open' \in [Peers -> [Peers -> Int]]
  BY <1>1, <1>2, LookForWorkType
<1>4. /\ IsABag(Requests(p, ask)) /\ DOMAIN Requests(p, ask) \subseteq Outgoing(p)
      /\ OwnRequest(p, ask) \in Seq(Posts(p))
  BY AskType, RequestsType
<1>5. /\ DOMAIN posted' = Peers /\ \A q \in Peers : posted'[q] \in Seq(Posts(q))
      /\ IsABag(net') /\ DOMAIN net' \subseteq Parcels
  BY <1>1, <1>4, ExchangeType
<1>6. UNCHANGED <<status, known, jobs, queue, nextId, executing, home, inbox, executed, spent>>
  BY DEF OnNotifiedNoJobs
<1> QED
  BY <1>3, <1>5, <1>6 DEF TypeOK

LEMMA OnDelegatedJobUpdateType ==
    ASSUME TypeOK, NEW p \in Peers, NEW m, Received(p, m), m.type = "JobUpdate",
           OnDelegatedJobUpdate(p, m)
    PROVE  TypeOK'
<1>1. m.dst = p /\ m.id \in JobIds
  BY Fields DEF Received
<1>2. CASE Die(m, "assert_update")
  BY <1>1, <1>2, DieType DEF Statuses
<1>3. CASE /\ m.id \in DOMAIN jobs[p]
           /\ TellClient(p, jobs[p][m.id].client, "JobStatus", m.id)
           /\ Consume(m)
           /\ UNCHANGED <<status, peerVars, home, executed, spent>>
  <2>1. jobs[p][m.id].client \in Clients \cup {NoClient}
    BY <1>3 DEF TypeOK, FiniteMap, OwnedJob
  <2>2. IsABag(inbox') /\ DOMAIN inbox' \subseteq ClientMessage
    BY <1>1, <1>3, <2>1, TellClientType
  <2> QED
    BY <1>1, <1>3, <2>2, ConsumeType DEF TypeOK, peerVars
<1> QED
  BY <1>2, <1>3 DEF OnDelegatedJobUpdate

LEMMA OnDelegatedJobCompletedType ==
    ASSUME TypeOK, NEW p \in Peers, NEW m, Received(p, m), m.type = "JobCompleted",
           OnDelegatedJobCompleted(p, m)
    PROVE  TypeOK'
<1>1. m.dst = p /\ m.id \in JobIds
  BY Fields DEF Received
<1>2. CASE Die(m, "assert_completed")
  BY <1>1, <1>2, DieType DEF Statuses
<1>3. CASE /\ m.id \in DOMAIN jobs[p]
           /\ jobs' = [jobs EXCEPT ![p] = Without(p, m.id)]
           /\ TellClient(p, jobs[p][m.id].client, "JobCompleted", m.id)
           /\ Consume(m)
           /\ UNCHANGED <<status, known, queue, nextId, executing, avail, open, home, executed, spent>>
  <2>1. jobs[p][m.id].client \in Clients \cup {NoClient}
    BY <1>3 DEF TypeOK, FiniteMap, OwnedJob
  <2>2. IsABag(inbox') /\ DOMAIN inbox' \subseteq ClientMessage
    BY <1>1, <1>3, <2>1, TellClientType
  <2>3. IsFiniteSet(DOMAIN jobs[p] \ {m.id})
    BY FS_RemoveElement DEF TypeOK, FiniteMap
  <2>4. DOMAIN jobs' = Peers /\ \A q \in Peers : FiniteMap(jobs'[q], JobIds, OwnedJob)
    BY <1>3, <2>3 DEF Without, TypeOK, FiniteMap
  <2> QED
    BY <1>1, <1>3, <2>2, <2>4, ConsumeType DEF TypeOK
<1> QED
  BY <1>2, <1>3 DEF OnDelegatedJobCompleted

LEMMA OnJobRetractedType ==
    ASSUME TypeOK, NEW p \in Peers, NEW m, Received(p, m), m.type = "CancelJob",
           OnJobRetracted(p, m)
    PROVE  TypeOK'
<1>1. Consume(m) /\ Received(m.dst, m)
  BY DEF OnJobRetracted, Received
<1> QED
  BY <1>1, ConsumeType DEF OnJobRetracted, TypeOK, peerVars

LEMMA OnClientJobRequestType ==
    ASSUME TypeOK, NEW p \in Peers, NEW m, Received(p, m), m.type = "Post",
           OnClientJobRequest(p, m)
    PROVE  TypeOK'
<1> DEFINE j == nextId[p]
           n == Len(queue[p]) + 1
           job == [client |-> m.src, exec |-> None, stale |-> FALSE]
<1>1. m.src \in Clients /\ m.dst = p
  BY Fields DEF Received
<1>2. j \in JobIds /\ j + 1 \in Nat /\ n \in Nat
  BY DEF TypeOK, JobIds
<1>3. nextId' \in [Peers -> Nat]
  BY <1>2 DEF OnClientJobRequest, TypeOK
<1>4. DOMAIN jobs' = Peers /\ \A q \in Peers : FiniteMap(jobs'[q], JobIds, OwnedJob)
  <2>1. jobs' = [jobs EXCEPT ![p] =
                   [k \in DOMAIN jobs[p] \cup {j} |-> IF k = j THEN job ELSE jobs[p][k]]]
    BY DEF OnClientJobRequest
  <2>2. job \in OwnedJob
    BY <1>1 DEF OwnedJob
  <2>3. IsFiniteSet(DOMAIN jobs[p] \cup {j})
    BY FS_AddElement DEF TypeOK, FiniteMap
  <2> HIDE DEF j, job
  <2> QED
    BY <1>2, <2>1, <2>2, <2>3 DEF TypeOK, FiniteMap
<1>5. queue' \in [Peers -> Seq(JobIds)]
  <2>1. Append(queue[p], j) \in Seq(JobIds)
    BY <1>2 DEF TypeOK
  <2> QED
    BY <2>1 DEF OnClientJobRequest, TypeOK
<1>6. /\ DOMAIN posted' = Peers /\ \A q \in Peers : posted'[q] \in Seq(Posts(q))
      /\ IsABag(net') /\ DOMAIN net' \subseteq Parcels
  <2> DEFINE ads == {AvailableWork(p, q, n) : q \in known[p]}
  <2>1. ads \subseteq Outgoing(p)
    <3>1. \A q \in known[p] : q \in Peers /\ q # p
      BY DEF TypeOK
    <3>2. \A q \in Peers : AvailableWork(p, q, n) \in Message
      BY <1>2, Made DEF AvailableWork
    <3>3. \A q \in Peers : AvailableWork(p, q, n).src = p /\ AvailableWork(p, q, n).dst = q
      BY DEF AvailableWork
    <3> QED
      BY <3>1, <3>2, <3>3 DEF Outgoing
  <2>2. IsABag(Advertise(p, n)) /\ DOMAIN Advertise(p, n) \subseteq Outgoing(p)
    BY <2>1, SetIsBag DEF Advertise
  <2>3. AvailableWork(p, p, n) \in Posts(p)
    BY <1>2, Made DEF Posts, AvailableWork
  <2>4. <<AvailableWork(p, p, n)>> \in Seq(Posts(p))
    BY <2>3
  <2>5. Exchange(p, m, Advertise(p, n), <<AvailableWork(p, p, n)>>)
    BY DEF OnClientJobRequest
  <2> QED
    BY <2>2, <2>4, <2>5, ExchangeType
<1>7. IsABag(inbox') /\ DOMAIN inbox' \subseteq ClientMessage
  BY <1>1, <1>2, TellClientType DEF OnClientJobRequest
<1>8. UNCHANGED <<status, known, executing, avail, open, home, executed, spent>>
  BY DEF OnClientJobRequest
<1> QED
  BY <1>3, <1>4, <1>5, <1>6, <1>7, <1>8 DEF TypeOK

\* A report goes to the owner of the job, and requests go out after it.
LEMMA ReportType ==
    ASSUME TypeOK, NEW p \in Peers, NEW m, Received(p, m), NEW job \in RunningJob,
           NEW type \in {"JobCompleted", "JobUpdate"}, NEW ask \in [Peers -> Nat],
           Report(p, m, type, job, ask)
    PROVE  /\ DOMAIN posted' = Peers /\ \A q \in Peers : posted'[q] \in Seq(Posts(q))
           /\ IsABag(net') /\ DOMAIN net' \subseteq Parcels
<1> DEFINE note == JobNote(p, job.owner, type, job.id)
<1>1. note \in Message /\ note.src = p /\ note.dst = job.owner
  BY Made DEF RunningJob, JobNote
<1>2. /\ IsABag(Requests(p, ask)) /\ DOMAIN Requests(p, ask) \subseteq Outgoing(p)
      /\ OwnRequest(p, ask) \in Seq(Posts(p))
  BY RequestsType
<1> HIDE DEF note
<1>3. CASE job.owner = p
  <2>1. note \in Posts(p)
    BY <1>1, <1>3 DEF Posts
  <2>2. <<note>> \o OwnRequest(p, ask) \in Seq(Posts(p))
    BY <1>2, <2>1
  <2>3. Exchange(p, m, Requests(p, ask), <<note>> \o OwnRequest(p, ask))
    BY <1>3 DEF Report, note
  <2> QED
    BY <1>2, <2>2, <2>3, ExchangeType
<1>4. CASE job.owner # p
  <2>1. note \in Outgoing(p)
    BY <1>1, <1>4 DEF Outgoing
  <2> DEFINE letter == SetToBag({note})
             out == letter (+) Requests(p, ask)
  <2>2. IsABag(letter) /\ DOMAIN letter = {note}
    BY SetIsBag
  <2> HIDE DEF letter
  <2>3. IsABag(out) /\ DOMAIN out = DOMAIN letter \cup DOMAIN Requests(p, ask)
    BY <1>2, <2>2, SumIsBag
  <2>4. DOMAIN out \subseteq Outgoing(p)
    BY <1>2, <2>1, <2>2, <2>3
  <2>5. Exchange(p, m, out, OwnRequest(p, ask))
    BY <1>4 DEF Report, note, letter
  <2> QED
    BY <1>2, <2>3, <2>4, <2>5, ExchangeType
<1> QED
  BY <1>3, <1>4

LEMMA OnJobUpdateType ==
    ASSUME TypeOK, NEW p \in Peers, NEW m, Received(p, m), m.type = "Updated", OnJobUpdate(p, m)
    PROVE  TypeOK'
<1>1. m.dst = p
  BY DEF Received
<1>2. CASE Die(m, "assert_local")
  BY <1>1, <1>2, DieType DEF Statuses
<1>3. CASE /\ m.id \in DOMAIN executing[p]
           /\ Report(p, m, "JobUpdate", executing[p][m.id], NoAsk)
           /\ UNCHANGED <<status, peerVars, home, inbox, executed, spent>>
  <2>1. executing[p][m.id] \in RunningJob
    BY <1>3 DEF TypeOK, FiniteMap
  <2>2. NoAsk \in [Peers -> Nat]
    BY DEF NoAsk
  <2> QED
    BY <1>3, <2>1, <2>2, ReportType DEF TypeOK, peerVars
<1> QED
  BY <1>2, <1>3 DEF OnJobUpdate

LEMMA OnJobProcessingCompletedType ==
    ASSUME TypeOK, NEW p \in Peers, NEW m, Received(p, m), m.type = "Finished",
           OnJobProcessingCompleted(p, m)
    PROVE  TypeOK'
<1> DEFINE rest == [i \in DOMAIN executing[p] \ {m.id} |-> executing[p][i]]
<1>1. m.dst = p
  BY DEF Received
<1>2. CASE Die(m, "assert_local")
  BY <1>1, <1>2, DieType DEF Statuses
<1>3. CASE ~Die(m, "assert_local")
  <2>1. PICK ask \in Asked(p, avail[p], open[p], rest) :
          /\ LookForWork(p, avail[p], open[p], ask)
          /\ Report(p, m, "JobCompleted", executing[p][m.id], ask)
    BY <1>3 DEF OnJobProcessingCompleted
  <2>2. /\ m.id \in DOMAIN executing[p]
        /\ executing' = [executing EXCEPT ![p] = rest]
        /\ UNCHANGED <<status, known, jobs, queue, nextId, home, inbox, executed, spent>>
    BY <1>3 DEF OnJobProcessingCompleted
  <2>3. avail' \in [Peers -> [Peers -> Nat]] /\ open' \in [Peers -> [Peers -> Int]]
    BY <2>1, LookForWorkType DEF TypeOK
  <2>4. executing[p][m.id] \in RunningJob
    BY <2>2 DEF TypeOK, FiniteMap
  <2>5. ask \in [Peers -> Nat]
    BY AskType
  <2>6. /\ DOMAIN posted' = Peers /\ \A q \in Peers : posted'[q] \in Seq(Posts(q))
        /\ IsABag(net') /\ DOMAIN net' \subseteq Parcels
    BY <2>1, <2>4, <2>5, ReportType
  <2>7. IsFiniteSet(DOMAIN executing[p] \ {m.id})
    BY FS_RemoveElement DEF TypeOK, FiniteMap
  <2>8. DOMAIN executing' = Peers /\ \A q \in Peers : FiniteMap(executing'[q], JobIds, RunningJob)
    BY <2>2, <2>7 DEF TypeOK, FiniteMap
  <2> QED
    BY <2>2, <2>3, <2>6, <2>8 DEF TypeOK
<1> QED
  BY <1>2, <1>3

-----------------------------------------------------------------------------
(* So do threads, timers and the environment. *)

LEMMA SpendType ==
    ASSUME TypeOK, NEW e \in Events, Spend(e)
    PROVE  spent' \in [Events -> Nat]
BY DEF Spend, TypeOK

LEMMA WorkerType ==
    ASSUME TypeOK, NEW p \in Peers, NEW i \in DOMAIN executing[p],
           WorkerUpdate(p, i) \/ WorkerFinish(p, i) \/ NoExecutorTerminates(p, i)
    PROVE  TypeOK'
<1>1. i \in JobIds /\ executing[p][i] \in RunningJob
  BY DEF TypeOK, FiniteMap
<1>2. ASSUME NEW t \in {"Updated", "Finished"}, Emit(p, EmptyBag, <<JobNote(p, p, t, i)>>)
      PROVE  /\ DOMAIN posted' = Peers /\ \A q \in Peers : posted'[q] \in Seq(Posts(q))
             /\ IsABag(net') /\ DOMAIN net' \subseteq Parcels
  <2>1. JobNote(p, p, t, i) \in Posts(p)
    BY <1>1, Made DEF Posts, JobNote
  <2>2. <<JobNote(p, p, t, i)>> \in Seq(Posts(p))
    BY <2>1
  <2> QED
    BY <1>2, <2>2, EmitType, EmptyIsBag
<1>3. CASE WorkerUpdate(p, i)
  <2>1. spent' \in [Events -> Nat]
    BY <1>3, SpendType DEF WorkerUpdate, Events
  <2> QED
    BY <1>2, <1>3, <2>1 DEF WorkerUpdate, TypeOK, peerVars
<1>4. CASE WorkerFinish(p, i)
  <2> DEFINE job == [executing[p][i] EXCEPT !.done = TRUE]
  <2>1. \A x \in RunningJob : [x EXCEPT !.done = TRUE] \in RunningJob
    BY DEF RunningJob
  <2>2. job \in RunningJob
    BY <1>1, <2>1
  <2>3. executing' = [executing EXCEPT ![p][i] = job]
    BY <1>4 DEF WorkerFinish
  <2>4. executed' \subseteq Peers \X JobIds
    <3>1. executing[p][i].owner \in Peers /\ executing[p][i].id \in JobIds
      BY <1>1 DEF RunningJob
    <3>2. executed' = executed \cup {<<executing[p][i].owner, executing[p][i].id>>}
      BY <1>4 DEF WorkerFinish
    <3> QED
      BY <3>1, <3>2 DEF TypeOK
  <2> HIDE DEF job
  <2>5. DOMAIN executing' = Peers /\ \A q \in Peers : FiniteMap(executing'[q], JobIds, RunningJob)
    BY <2>2, <2>3 DEF TypeOK, FiniteMap
  <2>6. UNCHANGED <<status, known, jobs, queue, nextId, avail, open, home, inbox, spent>>
    BY <1>4 DEF WorkerFinish
  <2> QED
    BY <1>2, <1>4, <2>4, <2>5, <2>6 DEF WorkerFinish, TypeOK
<1>5. CASE NoExecutorTerminates(p, i)
  <2>1. status' \in [Peers -> Statuses]
    BY <1>5 DEF NoExecutorTerminates, Statuses, TypeOK
  <2> QED
    BY <1>5, <2>1 DEF NoExecutorTerminates, TypeOK, peerVars
<1> QED
  BY <1>3, <1>4, <1>5

LEMMA ExpireType ==
    ASSUME TypeOK, NEW p \in Peers, NEW j \in DOMAIN jobs[p], Expire(p, j)
    PROVE  TypeOK'
<1> DEFINE job == [jobs[p][j] EXCEPT !.stale = TRUE]
<1>1. \A x \in OwnedJob : [x EXCEPT !.stale = TRUE] \in OwnedJob
  BY DEF OwnedJob
<1>2. job \in OwnedJob
  BY <1>1 DEF TypeOK, FiniteMap
<1>3. jobs' = [jobs EXCEPT ![p][j] = job]
  BY DEF Expire
<1> HIDE DEF job
<1>4. DOMAIN jobs' = Peers /\ \A q \in Peers : FiniteMap(jobs'[q], JobIds, OwnedJob)
  BY <1>2, <1>3 DEF TypeOK, FiniteMap
<1>5. spent' \in [Events -> Nat]
  BY SpendType DEF Expire, Events
<1>6. UNCHANGED <<status, known, queue, nextId, executing, avail, open, posted, net,
                  home, inbox, executed>>
  BY DEF Expire
<1> QED
  BY <1>4, <1>5, <1>6 DEF TypeOK

LEMMA OnStatusCheckType ==
    ASSUME TypeOK, NEW p \in Peers, OnStatusCheck(p)
    PROVE  TypeOK'
<1>1. PICK again \in Requeued(p) :
        /\ queue' = [queue EXCEPT ![p] = queue[p] \o again]
        /\ Emit(p, SetToBag(StatusPings(p) \cup Retractions(p) \cup Offers(p, again)),
                OwnOffers(p, again))
  BY DEF OnStatusCheck
<1>2. StaleJobs(p) \subseteq JobIds /\ Cardinality(StaleJobs(p)) \in Nat
  <2>1. StaleJobs(p) \subseteq DOMAIN jobs[p] /\ IsFiniteSet(DOMAIN jobs[p])
    BY DEF StaleJobs, TypeOK, FiniteMap
  <2>2. IsFiniteSet(StaleJobs(p))
    BY <2>1, FS_Subset
  <2> QED
    BY <2>1, <2>2, FS_CardinalityType DEF TypeOK, FiniteMap
<1>3. again \in Seq(JobIds) /\ DOMAIN again = 1..Cardinality(StaleJobs(p))
  BY <1>2 DEF Requeued
<1>4. queue' \in [Peers -> Seq(JobIds)]
  <2>1. queue[p] \o again \in Seq(JobIds)
    BY <1>3 DEF TypeOK
  <2> QED
    BY <1>1, <2>1 DEF TypeOK
<1>5. known[p] \in SUBSET Peers /\ p \notin known[p]
  BY DEF TypeOK
<1>6. \A a \in DOMAIN again : Len(queue[p]) + a \in Nat
  BY <1>2, <1>3 DEF TypeOK
<1> DEFINE all == StatusPings(p) \cup Retractions(p) \cup Offers(p, again)
<1>7. all \subseteq Outgoing(p)
  <2>1. StatusPings(p) \subseteq Outgoing(p)
    BY <1>5, PingMade DEF StatusPings, Outgoing, Ping
  <2>2. Retractions(p) \subseteq Outgoing(p)
    <3>1. \A j \in StaleJobs(p) : jobs[p][j].exec \in Peers \ {p} /\ j \in JobIds
      BY DEF StaleJobs, TypeOK, FiniteMap, OwnedJob
    <3>2. \A q \in Peers \ {p}, j \in JobIds : JobNote(p, q, "CancelJob", j) \in Outgoing(p)
      BY DEF Outgoing, JobNote, Message
    <3> QED
      BY <3>1, <3>2 DEF Retractions
  <2>3. Offers(p, again) \subseteq Outgoing(p)
    <3>1. \A q \in known[p], k \in Nat : AvailableWork(p, q, k) \in Outgoing(p)
      BY <1>5, Made DEF Outgoing, AvailableWork
    <3> QED
      BY <1>6, <3>1 DEF Offers
  <2> QED
    BY <2>1, <2>2, <2>3
<1>8. OwnOffers(p, again) \in Seq(Posts(p))
  <2>1. \A k \in Nat : AvailableWork(p, p, k) \in Posts(p)
    BY Made DEF Posts, AvailableWork
  <2> QED
    BY <1>2, <1>3, <1>6, <2>1 DEF OwnOffers
<1>9. IsABag(SetToBag(all)) /\ DOMAIN SetToBag(all) = all
  BY SetIsBag
<1>10. /\ DOMAIN posted' = Peers /\ \A q \in Peers : posted'[q] \in Seq(Posts(q))
       /\ IsABag(net') /\ DOMAIN net' \subseteq Parcels
  BY <1>1, <1>7, <1>8, <1>9, EmitType
<1>11. spent' \in [Events -> Nat]
  BY SpendType DEF OnStatusCheck, Events
<1>12. UNCHANGED <<status, known, jobs, nextId, executing, avail, open, home, inbox, executed>>
  BY DEF OnStatusCheck
<1> QED
  BY <1>4, <1>10, <1>11, <1>12 DEF TypeOK

LEMMA EnvironmentType ==
    ASSUME TypeOK,
           \/ \E p \in Peers : Start(p) \/ Crash(p)
           \/ \E c \in Clients : PostJob(c) \/ \E p \in Peers : Register(c, p)
    PROVE  TypeOK'
<1>1. ASSUME NEW p \in Peers, Start(p)
      PROVE  TypeOK'
  <2> DEFINE pings == {Ping(p, q, {}) : q \in Contacts[p]}
  <2>1. pings \subseteq Outgoing(p)
    BY PingMade, PeersAssumption DEF Outgoing, Ping
  <2>2. IsABag(SetToBag(pings)) /\ DOMAIN SetToBag(pings) = pings
    BY SetIsBag
  <2>3. << >> \in Seq(Posts(p))
    OBVIOUS
  <2>4. Emit(p, SetToBag(pings), << >>)
    BY <1>1 DEF Start
  <2> HIDE DEF pings
  <2>5. /\ DOMAIN posted' = Peers /\ \A q \in Peers : posted'[q] \in Seq(Posts(q))
        /\ IsABag(net') /\ DOMAIN net' \subseteq Parcels
    BY <2>1, <2>2, <2>3, <2>4, EmitType
  <2>6. status' \in [Peers -> Statuses]
    BY <1>1 DEF Start, Statuses, TypeOK
  <2> QED
    BY <1>1, <2>5, <2>6 DEF Start, TypeOK, peerVars
<1>2. ASSUME NEW p \in Peers, Crash(p)
      PROVE  TypeOK'
  <2>1. status' \in [Peers -> Statuses]
    BY <1>2 DEF Crash, Statuses, TypeOK
  <2>2. spent' \in [Events -> Nat]
    BY <1>2, SpendType DEF Crash, Events
  <2> QED
    BY <1>2, <2>1, <2>2 DEF Crash, TypeOK, peerVars
<1>3. ASSUME NEW c \in Clients, PostJob(c)
      PROVE  TypeOK'
  <2> DEFINE m == [src |-> c, dst |-> home[c], type |-> "Post"]
             letter == SetToBag({m})
             all == net (+) letter
  <2>1. c \notin Peers /\ home[c] \in Peers
    BY <1>3, PeersAssumption DEF PostJob, TypeOK
  <2>2. m \in Parcels
    BY <2>1 DEF Parcels, ClientPost
  <2>3. IsABag(letter) /\ DOMAIN letter = {m}
    BY SetIsBag
  <2>4. net' = all
    BY <1>3 DEF PostJob
  <2> HIDE DEF letter, m
  <2>5. IsABag(net)
    BY DEF TypeOK
  <2>6. IsABag(all) /\ DOMAIN all = DOMAIN net \cup DOMAIN letter
    BY <2>3, <2>5, SumIsBag
  <2>7. spent' \in [Events -> Nat]
    BY <1>3, SpendType DEF PostJob, Events
  <2> HIDE DEF all
  <2>8. IsABag(net') /\ DOMAIN net' \subseteq Parcels
    BY <2>2, <2>3, <2>4, <2>6 DEF TypeOK
  <2> QED
    BY <1>3, <2>7, <2>8 DEF PostJob, TypeOK, peerVars
<1>4. ASSUME NEW c \in Clients, NEW p \in Peers, Register(c, p)
      PROVE  TypeOK'
  BY <1>4 DEF Register, TypeOK, peerVars
<1> QED
  BY <1>1, <1>2, <1>3, <1>4

\* Losing or discarding a message keeps the types.
LEMMA DropType ==
    ASSUME TypeOK, NEW m \in DOMAIN net, Lose(m) \/ Discard(m)
    PROVE  TypeOK'
<1>1. Received(m.dst, m)
  BY DEF TypeOK, Parcels, Received, Incoming, Local
<1>2. CASE Lose(m)
  <2>1. spent' \in [Events -> Nat]
    BY <1>2, SpendType DEF Lose, Events
  <2> QED
    BY <1>1, <1>2, <2>1, ConsumeType DEF Lose, TypeOK, peerVars
<1>3. CASE Discard(m)
  BY <1>1, <1>3, ConsumeType DEF Discard, TypeOK, peerVars
<1> QED
  BY <1>2, <1>3

-----------------------------------------------------------------------------
(* Type correctness. *)

LEMMA PeerMessageType ==
    ASSUME TypeOK, NEW p \in Peers, NEW m, Received(p, m), OnReceivePeerMessage(p, m)
    PROVE  TypeOK'
BY OnAvailableWorkType, OnJobRequestType, OnReceiveJobType, OnNotifiedNoJobsType,
   OnDelegatedJobUpdateType, OnDelegatedJobCompletedType, OnJobRetractedType
   DEF OnReceivePeerMessage

\* Whatever a peer is given to handle, the types are kept.
LEMMA ServeType ==
    ASSUME TypeOK, NEW p \in Peers, Serve(p)
    PROVE  TypeOK'
<1>1. CASE RunPosted(p)
  <2> DEFINE m == Head(posted[p])
  <2>1. m \in Posts(p) /\ posted[p] # << >>
    BY <1>1 DEF RunPosted, TypeOK
  <2>2. Received(p, m)
    BY <2>1 DEF Posts, Received, Incoming
  <2>3. \/ OnReceivePeerMessage(p, m)
        \/ m.type = "Updated" /\ OnJobUpdate(p, m)
        \/ m.type = "Finished" /\ OnJobProcessingCompleted(p, m)
    BY <1>1 DEF RunPosted
  <2> HIDE DEF m
  <2> QED
    BY <2>2, <2>3, PeerMessageType, OnJobUpdateType, OnJobProcessingCompletedType
<1>2. ASSUME NEW m \in DOMAIN net, m.dst = p, Deliver(m)
      PROVE  TypeOK'
  <2>1. Received(p, m)
    BY <1>2 DEF TypeOK, Parcels, Received, Incoming, Local
  <2>2. \/ m.type = "Ping" /\ OnPing(p, m)
        \/ m.type = "Post" /\ OnClientJobRequest(p, m)
        \/ OnReceivePeerMessage(p, m)
    BY <1>2 DEF Deliver
  <2> QED
    BY <2>1, <2>2, PeerMessageType, OnPingType, OnClientJobRequestType
<1>3. ASSUME NEW m \in DOMAIN net, Discard(m)
      PROVE  TypeOK'
  BY <1>3, DropType
<1> QED
  BY <1>1, <1>2, <1>3 DEF Serve

\* Every step keeps the types.
LEMMA NextType == TypeOK /\ [Next]_vars => TypeOK'
<1> SUFFICES ASSUME TypeOK, [Next]_vars
             PROVE  TypeOK'
  OBVIOUS
<1>1. ASSUME NEW p \in Peers, Work(p)
      PROVE  TypeOK'
  BY <1>1, WorkerType DEF Work
<1>2. ASSUME NEW p \in Peers, NEW i \in DOMAIN executing[p], WorkerUpdate(p, i)
      PROVE  TypeOK'
  BY <1>2, WorkerType
<1>3. ASSUME NEW m \in DOMAIN net, Lose(m)
      PROVE  TypeOK'
  BY <1>3, DropType
<1>4. CASE UNCHANGED vars
  BY <1>4 DEF vars, TypeOK
<1> QED
  BY <1>1, <1>2, <1>3, <1>4, ServeType, OnStatusCheckType, ExpireType, EnvironmentType DEF Next

LEMMA InitType == Init => TypeOK
<1> SUFFICES ASSUME Init
             PROVE  TypeOK
  OBVIOUS
<1>1. \A D, R : FiniteMap(EmptyMap, D, R)
  BY FS_EmptySet DEF FiniteMap, EmptyMap
<1>2. IsABag(net) /\ DOMAIN net = {} /\ IsABag(inbox) /\ DOMAIN inbox = {}
  BY EmptyIsBag DEF Init, Idle
<1>3. \A T : << >> \in Seq(T)
  OBVIOUS
<1> QED
  BY <1>1, <1>2, <1>3 DEF Init, Idle, TypeOK, NoAsk, Statuses, JobIds

\* The containers of every peer keep their shape, for any number of peers,
\* clients and threads, whatever is lost and whoever crashes: no count of
\* available jobs falls below zero, and no peer sends to itself by network.
THEOREM TypeCorrect == Spec => []TypeOK
BY InitType, NextType, PTL DEF Spec

-----------------------------------------------------------------------------
(* What is under way, within a process or between two. *)

InFlight == DOMAIN net \cup UNION {Range(posted[p]) : p \in Peers}

\* m is what p handles next: its own oldest post, or a message in the network.
Handled(p, m) ==
    /\ m \in Incoming /\ m.dst = p
    /\ IF Local(m) THEN posted[p] # << >> /\ m = Head(posted[p]) ELSE m \in DOMAIN net

LEMMA HandledIsReceived ==
    ASSUME TypeOK, NEW p \in Peers, NEW m, Handled(p, m)
    PROVE  Received(p, m) /\ m \in InFlight
<1>1. CASE Local(m)
  <2>1. m = posted[p][1] /\ 1 \in DOMAIN posted[p]
    BY <1>1 DEF Handled, TypeOK
  <2> QED
    BY <1>1, <2>1 DEF Handled, Received, InFlight, Range
<1>2. CASE ~Local(m)
  BY <1>2 DEF Handled, Received, InFlight
<1> QED
  BY <1>1, <1>2

\* What a worker thread posts to its peer.
IsEvent(m) == m.type \in {"Updated", "Finished"}

Quiet(self) == \A k \in DOMAIN self : ~IsEvent(self[k])

\* The events of p's workers stay in their order, and d posts are handled.
EventsGoOn(p, d) ==
    /\ DOMAIN posted'[p] \subseteq Nat \ {0}
    /\ \A k \in DOMAIN posted'[p] :
           IF k + d \in DOMAIN posted[p] THEN posted'[p][k] = posted[p][k + d]
           ELSE ~IsEvent(posted'[p][k])

\* Posting more at the end, or after the first post is handled.
LEMMA PostsGoOn ==
    ASSUME NEW T, NEW s \in Seq(T), NEW self \in Seq(T), NEW d \in {0, 1}, d = 1 => s # << >>
    PROVE  LET t == (IF d = 1 THEN Tail(s) ELSE s) \o self IN
           /\ DOMAIN t \subseteq Nat \ {0}
           /\ \A k \in DOMAIN t :
                  \/ k + d \in DOMAIN s /\ t[k] = s[k + d]
                  \/ k + d \notin DOMAIN s /\ \E l \in DOMAIN self : t[k] = self[l]
           /\ Range(t) \subseteq Range(s) \cup Range(self)
<1> DEFINE rest == IF d = 1 THEN Tail(s) ELSE s
           t == rest \o self
<1>1. rest \in Seq(T) /\ Len(rest) = Len(s) - d /\ Len(s) \in Nat /\ Len(self) \in Nat
  BY HeadTailProperties
<1>2. \A k \in 1..Len(rest) : rest[k] = s[k + d]
  BY HeadTailProperties
<1> HIDE DEF rest
<1>3. /\ DOMAIN t = 1..(Len(rest) + Len(self))
      /\ \A k \in 1..Len(rest) : t[k] = rest[k]
      /\ \A k \in (Len(rest) + 1)..(Len(rest) + Len(self)) : t[k] = self[k - Len(rest)]
  BY <1>1
<1> HIDE DEF t
<1>4. DOMAIN s = 1..Len(s) /\ DOMAIN self = 1..Len(self)
  OBVIOUS
<1>5. ASSUME NEW k \in DOMAIN t
      PROVE  \/ k + d \in DOMAIN s /\ t[k] = s[k + d]
             \/ k + d \notin DOMAIN s /\ \E l \in DOMAIN self : t[k] = self[l]
  <2>1. CASE k \in 1..Len(rest)
    BY <1>1, <1>2, <1>3, <1>4, <2>1
  <2>2. CASE k \notin 1..Len(rest)
    <3>1. k - Len(rest) \in DOMAIN self /\ t[k] = self[k - Len(rest)]
      <4>1. k \in (Len(rest) + 1)..(Len(rest) + Len(self))
        BY <1>1, <1>3, <2>2
      <4>2. t[k] = self[k - Len(rest)]
        BY <1>3, <4>1
      <4> QED
        BY <1>1, <1>4, <4>1, <4>2
    <3>2. k + d \notin DOMAIN s
      BY <1>1, <1>3, <1>4, <2>2
    <3> QED
      BY <3>1, <3>2
  <2> QED
    BY <2>1, <2>2
<1>6. DOMAIN t \subseteq Nat \ {0}
  BY <1>1, <1>3
<1>7. Range(t) \subseteq Range(s) \cup Range(self)
  BY <1>5 DEF Range
<1> QED
  BY <1>5, <1>6, <1>7 DEF t, rest

\* Handling m adds what is sent.
LEMMA ExchangeFlow ==
    ASSUME TypeOK, NEW p \in Peers, NEW m, Received(p, m),
           NEW out, IsABag(out), NEW self \in Seq(Posts(p)),
           Exchange(p, m, out, self)
    PROVE  /\ InFlight' \subseteq InFlight \cup DOMAIN out \cup Range(self)
           /\ Quiet(self) => \A q \in Peers : EventsGoOn(q, IF q = p /\ Local(m) THEN 1 ELSE 0)
<1> DEFINE rest == IF Local(m) THEN net ELSE net (-) SetToBag({m})
           d == IF Local(m) THEN 1 ELSE 0
           t == (IF d = 1 THEN Tail(posted[p]) ELSE posted[p]) \o self
<1>1. IsABag(rest) /\ DOMAIN rest \subseteq DOMAIN net
  BY SetIsBag, DifferenceIsBag DEF TypeOK
<1>2. DOMAIN net' \subseteq DOMAIN net \cup DOMAIN out
  <2> HIDE DEF rest
  <2>1. DOMAIN (rest (+) out) = DOMAIN rest \cup DOMAIN out
    BY <1>1, SumIsBag
  <2>2. net' = rest (+) out
    BY DEF Exchange, rest
  <2> QED
    BY <1>1, <2>1, <2>2
<1>3. posted' = [posted EXCEPT ![p] = t] /\ DOMAIN posted = Peers
  <2>1. t = (IF Local(m) THEN Tail(posted[p]) ELSE posted[p]) \o self
    <3>1. CASE Local(m)
      BY <3>1
    <3>2. CASE ~Local(m)
      BY <3>2
    <3> QED
      BY <3>1, <3>2
  <2> HIDE DEF t
  <2> QED
    BY <2>1 DEF Exchange, TypeOK
<1>4. posted[p] \in Seq(Posts(p)) /\ (d = 1 => posted[p] # << >>)
  BY DEF TypeOK, Received
<1>5. /\ DOMAIN t \subseteq Nat \ {0}
      /\ \A k \in DOMAIN t :
             \/ k + d \in DOMAIN posted[p] /\ t[k] = posted[p][k + d]
             \/ k + d \notin DOMAIN posted[p] /\ \E l \in DOMAIN self : t[k] = self[l]
      /\ Range(t) \subseteq Range(posted[p]) \cup Range(self)
  <2>1. d \in {0, 1}
    OBVIOUS
  <2> HIDE DEF d
  <2> QED
    BY <1>4, <2>1, PostsGoOn
<1> HIDE DEF t
<1>6. posted'[p] = t /\ \A q \in Peers : q # p => posted'[q] = posted[q]
  BY <1>3
<1>7. \A q \in Peers : Range(posted'[q]) \subseteq Range(posted[q]) \cup Range(self)
  <2>1. Range(posted'[p]) = Range(t)
    BY <1>6
  <2>2. \A q \in Peers : q # p => Range(posted'[q]) = Range(posted[q])
    BY <1>6
  <2> QED
    BY <1>5, <2>1, <2>2
<1>8. InFlight' \subseteq InFlight \cup DOMAIN out \cup Range(self)
  <2>1. InFlight' = DOMAIN net' \cup UNION {Range(posted'[q]) : q \in Peers}
    BY DEF InFlight, Range
  <2> QED
    BY <1>2, <1>7, <2>1 DEF InFlight
<1>9. ASSUME Quiet(self), NEW q \in Peers
      PROVE  EventsGoOn(q, IF q = p /\ Local(m) THEN 1 ELSE 0)
  <2>1. CASE q = p
    BY <1>5, <1>6, <1>9, <2>1 DEF EventsGoOn, Quiet
  <2>2. CASE q # p
    <3>1. posted[q] \in Seq(Posts(q)) /\ posted'[q] = posted[q]
      BY <1>6, <2>2 DEF TypeOK
    <3>2. DOMAIN posted[q] \subseteq Nat \ {0} /\ \A k \in DOMAIN posted[q] : k + 0 = k
      BY <3>1
    <3> QED
      BY <2>2, <3>1, <3>2 DEF EventsGoOn
  <2> QED
    BY <2>1, <2>2
<1> QED
  BY <1>8, <1>9

GoOn(p, m) == \A q \in Peers : EventsGoOn(q, IF q = p /\ Local(m) THEN 1 ELSE 0)

\* Sending without having received adds what is sent.
LEMMA EmitFlow ==
    ASSUME TypeOK, NEW p \in Peers, NEW out, IsABag(out), NEW self \in Seq(Posts(p)),
           Emit(p, out, self)
    PROVE  /\ InFlight' \subseteq InFlight \cup DOMAIN out \cup Range(self)
           /\ Quiet(self) => \A q \in Peers : EventsGoOn(q, 0)
<1> DEFINE t == posted[p] \o self
<1>1. DOMAIN net' = DOMAIN net \cup DOMAIN out
  BY SumIsBag DEF Emit, TypeOK
<1>2. posted' = [posted EXCEPT ![p] = t] /\ DOMAIN posted = Peers
  BY DEF Emit, TypeOK
<1>3. posted[p] \in Seq(Posts(p))
  BY DEF TypeOK
<1>4. /\ DOMAIN t \subseteq Nat \ {0}
      /\ \A k \in DOMAIN t :
             \/ k + 0 \in DOMAIN posted[p] /\ t[k] = posted[p][k + 0]
             \/ k + 0 \notin DOMAIN posted[p] /\ \E l \in DOMAIN self : t[k] = self[l]
      /\ Range(t) \subseteq Range(posted[p]) \cup Range(self)
  <2> DEFINE d == 0
  <2>1. d \in {0, 1} /\ d # 1 /\ t = (IF d = 1 THEN Tail(posted[p]) ELSE posted[p]) \o self
    OBVIOUS
  <2> HIDE DEF d, t
  <2>2. /\ DOMAIN t \subseteq Nat \ {0}
        /\ \A k \in DOMAIN t :
               \/ k + d \in DOMAIN posted[p] /\ t[k] = posted[p][k + d]
               \/ k + d \notin DOMAIN posted[p] /\ \E l \in DOMAIN self : t[k] = self[l]
        /\ Range(t) \subseteq Range(posted[p]) \cup Range(self)
    BY <1>3, <2>1, PostsGoOn
  <2> QED
    BY <2>2 DEF d
<1> HIDE DEF t
<1>5. posted'[p] = t /\ \A q \in Peers : q # p => posted'[q] = posted[q]
  BY <1>2
<1>6. \A q \in Peers : Range(posted'[q]) \subseteq Range(posted[q]) \cup Range(self)
  <2>1. Range(posted'[p]) = Range(t)
    BY <1>5
  <2>2. \A q \in Peers : q # p => Range(posted'[q]) = Range(posted[q])
    BY <1>5
  <2> QED
    BY <1>4, <2>1, <2>2
<1>7. InFlight' \subseteq InFlight \cup DOMAIN out \cup Range(self)
  <2>1. InFlight' = DOMAIN net' \cup UNION {Range(posted'[q]) : q \in Peers}
    BY DEF InFlight, Range
  <2> QED
    BY <1>1, <1>6, <2>1 DEF InFlight
<1>8. ASSUME Quiet(self), NEW q \in Peers
      PROVE  EventsGoOn(q, 0)
  <2>1. CASE q = p
    BY <1>4, <1>5, <1>8, <2>1 DEF EventsGoOn, Quiet
  <2>2. CASE q # p
    <3>1. posted[q] \in Seq(Posts(q)) /\ posted'[q] = posted[q]
      BY <1>5, <2>2 DEF TypeOK
    <3>2. DOMAIN posted[q] \subseteq Nat \ {0} /\ \A k \in DOMAIN posted[q] : k + 0 = k
      BY <3>1
    <3> QED
      BY <2>2, <3>1, <3>2 DEF EventsGoOn
  <2> QED
    BY <2>1, <2>2
<1> QED
  BY <1>7, <1>8

LEMMA ConsumeFlow ==
    ASSUME TypeOK, NEW p \in Peers, NEW m, Received(p, m), Consume(m)
    PROVE  InFlight' \subseteq InFlight /\ GoOn(p, m)
<1>1. m.dst = p
  BY DEF Received
<1>2. << >> \in Seq(Posts(p)) /\ Range(<< >>) = {} /\ Quiet(<< >>)
  BY DEF Range, Quiet
<1>3. Exchange(p, m, EmptyBag, << >>)
  BY <1>1 DEF Consume
<1> QED
  BY <1>2, <1>3, ExchangeFlow, EmptyIsBag DEF GoOn

\* The requests of ask, the one to p itself included.
Asks(p, ask) == {RequestJobs(p, q, ask[q]) : q \in {r \in Peers : ask[r] > 0}}

LEMMA AsksAreSent ==
    ASSUME NEW p \in Peers, NEW ask \in [Peers -> Nat]
    PROVE  /\ DOMAIN Requests(p, ask) \subseteq Asks(p, ask)
           /\ Range(OwnRequest(p, ask)) \subseteq Asks(p, ask)
           /\ Quiet(OwnRequest(p, ask))
<1>1. DOMAIN Requests(p, ask) \subseteq Asks(p, ask)
  BY SetIsBag DEF Requests, Asks
<1>2. CASE ask[p] > 0
  <2> DEFINE own == RequestJobs(p, p, ask[p])
  <2>1. own \in Asks(p, ask) /\ ~IsEvent(own)
    BY <1>2 DEF Asks, RequestJobs, IsEvent
  <2>2. OwnRequest(p, ask) = <<own>>
    BY <1>2 DEF OwnRequest
  <2> HIDE DEF own
  <2> QED
    BY <1>1, <2>1, <2>2 DEF Range, Quiet
<1>3. CASE ~(ask[p] > 0)
  BY <1>1, <1>3 DEF OwnRequest, Range, Quiet
<1> QED
  BY <1>2, <1>3

\* A handler that ends with look_for_work sends other things before.
LEMMA AskFlow ==
    ASSUME TypeOK, NEW p \in Peers, NEW m, Received(p, m), NEW ask \in [Peers -> Nat],
           NEW more, IsABag(more), Exchange(p, m, more (+) Requests(p, ask), OwnRequest(p, ask))
    PROVE  InFlight' \subseteq InFlight \cup DOMAIN more \cup Asks(p, ask) /\ GoOn(p, m)
<1>1. IsABag(Requests(p, ask)) /\ OwnRequest(p, ask) \in Seq(Posts(p))
  BY RequestsType
<1> DEFINE out == more (+) Requests(p, ask)
<1>2. IsABag(out) /\ DOMAIN out = DOMAIN more \cup DOMAIN Requests(p, ask)
  BY <1>1, SumIsBag
<1>3. Exchange(p, m, out, OwnRequest(p, ask))
  OBVIOUS
<1> HIDE DEF out
<1>4. /\ InFlight' \subseteq InFlight \cup DOMAIN out \cup Range(OwnRequest(p, ask))
      /\ GoOn(p, m)
  BY <1>1, <1>2, <1>3, ExchangeFlow, AsksAreSent DEF GoOn
<1> QED
  BY <1>2, <1>4, AsksAreSent

LEMMA OnlyAskFlow ==
    ASSUME TypeOK, NEW p \in Peers, NEW m, Received(p, m), NEW ask \in [Peers -> Nat],
           Exchange(p, m, Requests(p, ask), OwnRequest(p, ask))
    PROVE  InFlight' \subseteq InFlight \cup Asks(p, ask) /\ GoOn(p, m)
<1>1. IsABag(Requests(p, ask)) /\ OwnRequest(p, ask) \in Seq(Posts(p))
  BY RequestsType
<1>2. /\ InFlight' \subseteq InFlight \cup DOMAIN Requests(p, ask) \cup Range(OwnRequest(p, ask))
      /\ GoOn(p, m)
  BY <1>1, ExchangeFlow, AsksAreSent DEF GoOn
<1> QED
  BY <1>2, AsksAreSent

\* A report goes out before the requests.
LEMMA ReportFlow ==
    ASSUME TypeOK, NEW p \in Peers, NEW m, Received(p, m), NEW job \in RunningJob,
           NEW type \in {"JobCompleted", "JobUpdate"}, NEW ask \in [Peers -> Nat],
           Report(p, m, type, job, ask)
    PROVE  /\ InFlight' \subseteq
                  InFlight \cup {JobNote(p, job.owner, type, job.id)} \cup Asks(p, ask)
           /\ GoOn(p, m)
<1> DEFINE note == JobNote(p, job.owner, type, job.id)
<1>1. note \in Message /\ note.src = p /\ note.dst = job.owner /\ ~IsEvent(note)
  BY Made DEF RunningJob, JobNote, IsEvent
<1> HIDE DEF note
<1>2. CASE job.owner = p
  <2> DEFINE first == <<note>>
             self == first \o OwnRequest(p, ask)
  <2>1. OwnRequest(p, ask) \in Seq(Posts(p)) /\ IsABag(Requests(p, ask))
    BY RequestsType
  <2>2. first \in Seq(Posts(p)) /\ Range(first) = {note}
    BY <1>1, <1>2 DEF Posts, Range
  <2>5. Exchange(p, m, Requests(p, ask), self)
    BY <1>2 DEF Report, note
  <2> HIDE DEF first
  <2>3. self \in Seq(Posts(p))
    BY <2>1, <2>2
  <2>4. Range(self) = {note} \cup Range(OwnRequest(p, ask))
    BY <2>1, <2>2, RangeConcatenation
  <2> HIDE DEF self
  <2>6. Quiet(self)
    <3>1. \A x \in Range(OwnRequest(p, ask)) : ~IsEvent(x)
      BY AsksAreSent DEF Quiet, Range
    <3> QED
      BY <1>1, <2>4, <3>1 DEF Quiet, Range
  <2>7. InFlight' \subseteq InFlight \cup DOMAIN Requests(p, ask) \cup Range(self) /\ GoOn(p, m)
    BY <2>1, <2>3, <2>5, <2>6, ExchangeFlow DEF GoOn
  <2> QED
    BY <2>4, <2>7, AsksAreSent DEF note
<1>3. CASE job.owner # p
  <2> DEFINE letter == SetToBag({note})
  <2>1. IsABag(letter) /\ DOMAIN letter = {note}
    BY SetIsBag
  <2>2. Exchange(p, m, letter (+) Requests(p, ask), OwnRequest(p, ask))
    BY <1>3 DEF Report, note
  <2> HIDE DEF letter
  <2> QED
    BY <2>1, <2>2, AskFlow DEF note
<1> QED
  BY <1>2, <1>3

\* A request is answered with jobs of the queue.
LEMMA OnJobRequestFlow ==
    ASSUME TypeOK, NEW p \in Peers, NEW m, Received(p, m), m.type = "RequestJobs",
           OnJobRequest(p, m)
    PROVE  LET Answers == {DelegateJob(p, m.src, j, Description(p, j)) : j \in Range(queue[p])}
           IN  /\ InFlight' \subseteq InFlight \cup Answers \cup {NoMoreJobs(p, m.src)}
               /\ GoOn(p, m)
               /\ Range(queue'[p]) \subseteq Range(queue[p])
               /\ \A q \in Peers : q # p => queue'[q] = queue[q]
               /\ \A j \in DOMAIN jobs'[p] :
                      \/ j \in DOMAIN jobs[p] /\ jobs'[p][j] = jobs[p][j]
                      \/ j \in Range(queue[p]) /\ jobs'[p][j].exec = m.src
               /\ \A j \in DOMAIN jobs'[p] : jobs'[p][j].client = ClientOf(p, j)
               /\ \A q \in Peers : q # p => jobs'[q] = jobs[q]
<1> DEFINE n == IF m.count < Len(queue[p]) THEN m.count ELSE Len(queue[p])
           handed == SubSeq(queue[p], 1, n)
           offers == [i \in 1..n |-> DelegateJob(p, m.src, handed[i], Description(p, handed[i]))]
           reply == offers \o Refusal(p, m, n)
           Answers == {DelegateJob(p, m.src, j, Description(p, j)) : j \in Range(queue[p])}
           All == Answers \cup {NoMoreJobs(p, m.src)}
<1>1. m.src \in Peers /\ m.dst = p /\ m.count \in Nat
  BY Fields DEF Received
<1>2. queue[p] \in Seq(JobIds) /\ Len(queue[p]) \in Nat /\ n \in 0..Len(queue[p])
  <2>1. queue[p] \in Seq(JobIds)
    BY DEF TypeOK
  <2>2. Len(queue[p]) \in Nat
    BY <2>1
  <2> QED
    BY <1>1, <2>1, <2>2
<1>3. handed \in Seq(JobIds) /\ Len(handed) = n /\ Remaining(p, n) \in Seq(JobIds)
  BY <1>2, HandedType
<1>4. /\ queue' = [queue EXCEPT ![p] = Remaining(p, n)]
      /\ jobs' = [jobs EXCEPT ![p] = [j \in DOMAIN jobs[p] \cup Range(handed) |->
                    IF j \in Range(handed) THEN Delegated(p, m, j) ELSE jobs[p][j]]]
      /\ IF Local(m) THEN Exchange(p, m, EmptyBag, reply) ELSE Exchange(p, m, ToBag(reply), << >>)
  BY DEF OnJobRequest
<1>5. Range(handed) \subseteq Range(queue[p]) /\ Range(Remaining(p, n)) \subseteq Range(queue[p])
  <2> HIDE DEF n
  <2>1. \A i \in 1..n : handed[i] = queue[p][i]
    BY <1>2
  <2>2. DOMAIN handed = 1..n /\ 1..n \subseteq DOMAIN queue[p]
    BY <1>2, <1>3
  <2> DEFINE rest == SubSeq(queue[p], n + 1, Len(queue[p]))
  <2>3. DOMAIN rest = 1..(Len(queue[p]) - n)
    BY <1>2
  <2>4. \A i \in 1..(Len(queue[p]) - n) : rest[i] = queue[p][n + i] /\ n + i \in DOMAIN queue[p]
    BY <1>2
  <2> HIDE DEF rest, handed
  <2>5. Range(handed) \subseteq Range(queue[p])
    BY <2>1, <2>2 DEF Range
  <2>6. Range(rest) \subseteq Range(queue[p])
    BY <2>3, <2>4 DEF Range
  <2> QED
    BY <2>5, <2>6 DEF Remaining, rest
<1>6. reply \in Seq(All)
  <2>2. \A i \in 1..n : handed[i] \in Range(queue[p])
    BY <1>3, <1>5 DEF Range
  <2> HIDE DEF n, handed
  <2>3. \A i \in 1..n : DelegateJob(p, m.src, handed[i], Description(p, handed[i])) \in All
    BY <2>2
  <2> HIDE DEF All
  <2>4. offers \in Seq(All)
    BY <1>2, <2>3
  <2>5. NoMoreJobs(p, m.src) \in All
    BY DEF All
  <2>6. Refusal(p, m, n) \in Seq(All)
    BY <2>5 DEF Refusal
  <2> QED
    BY <2>4, <2>6
<1>7. \A x \in All : ~IsEvent(x) /\ x \in Message /\ x.src = p /\ x.dst = m.src
  <2>1. Range(queue[p]) \subseteq JobIds
    BY <1>2, RangeOfSeq
  <2>2. \A j \in JobIds, d \in {"given", "blank"} : DelegateJob(p, m.src, j, d) \in Message
    BY <1>1, Made
  <2>3. NoMoreJobs(p, m.src) \in Message
    BY <1>1, Made
  <2> DEFINE Fine(x) == ~IsEvent(x) /\ x \in Message /\ x.src = p /\ x.dst = m.src
  <2>4. \A j \in JobIds, d \in {"given", "blank"} : Fine(DelegateJob(p, m.src, j, d))
    BY <2>2 DEF IsEvent, DelegateJob
  <2>5. Fine(NoMoreJobs(p, m.src))
    BY <2>3 DEF IsEvent, NoMoreJobs
  <2> HIDE DEF Fine
  <2>6. \A j : Description(p, j) \in {"given", "blank"}
    BY DEF Description
  <2>7. \A x \in All : Fine(x)
    BY <2>1, <2>4, <2>5, <2>6
  <2> QED
    BY <2>7 DEF Fine
<1> HIDE DEF n, handed, offers, reply, All
<1>8. Range(reply) \subseteq All /\ Quiet(reply)
  BY <1>6, <1>7 DEF Quiet, Range
<1>9. InFlight' \subseteq InFlight \cup All /\ GoOn(p, m)
  <2>1. CASE Local(m)
    <3>1. reply \in Seq(Posts(p))
      BY <1>1, <1>6, <1>7, <2>1 DEF Local, Posts
    <3>2. Exchange(p, m, EmptyBag, reply)
      BY <1>4, <2>1
    <3> QED
      BY <1>8, <3>1, <3>2, EmptyIsBag, ExchangeFlow DEF GoOn
  <2>2. CASE ~Local(m)
    <3>1. IsABag(ToBag(reply)) /\ DOMAIN ToBag(reply) = Range(reply)
      BY <1>6, SequenceIsBag
    <3>2. Exchange(p, m, ToBag(reply), << >>)
      BY <1>4, <2>2
    <3>3. << >> \in Seq(Posts(p)) /\ Range(<< >>) = {} /\ Quiet(<< >>)
      BY DEF Range, Quiet
    <3>4. InFlight' \subseteq InFlight \cup DOMAIN ToBag(reply) \cup Range(<< >>) /\ GoOn(p, m)
      BY <3>1, <3>2, <3>3, ExchangeFlow DEF GoOn
    <3> QED
      BY <1>8, <3>1, <3>3, <3>4
  <2> QED
    BY <2>1, <2>2
<1>10. /\ Range(queue'[p]) \subseteq Range(queue[p])
       /\ \A q \in Peers : q # p => queue'[q] = queue[q]
  BY <1>4, <1>5 DEF TypeOK
<1>11. \A j \in DOMAIN jobs'[p] :
           \/ j \in DOMAIN jobs[p] /\ jobs'[p][j] = jobs[p][j]
           \/ j \in Range(queue[p]) /\ jobs'[p][j].exec = m.src
  BY <1>4, <1>5 DEF TypeOK, Delegated
<1>12. \A q \in Peers : q # p => jobs'[q] = jobs[q]
  BY <1>4
<1>13. \A j \in DOMAIN jobs'[p] : jobs'[p][j].client = ClientOf(p, j)
  <2>1. jobs'[p] = [j \in DOMAIN jobs[p] \cup Range(handed) |->
                      IF j \in Range(handed) THEN Delegated(p, m, j) ELSE jobs[p][j]]
    BY <1>4 DEF TypeOK
  <2>2. \A j : Delegated(p, m, j).client = ClientOf(p, j)
    BY DEF Delegated
  <2>3. \A j \in DOMAIN jobs[p] : jobs[p][j].client = ClientOf(p, j)
    BY DEF ClientOf
  <2> QED
    BY <2>1, <2>2, <2>3
<1> QED
  BY <1>9, <1>10, <1>11, <1>12, <1>13 DEF All

\* A job of a client is advertised.
LEMMA OnClientJobRequestFlow ==
    ASSUME TypeOK, NEW p \in Peers, NEW m, Received(p, m), m.type = "Post",
           OnClientJobRequest(p, m)
    PROVE  /\ InFlight' \subseteq
                  InFlight \cup {AvailableWork(p, q, Len(queue[p]) + 1) : q \in known[p] \cup {p}}
           /\ GoOn(p, m)
<1> DEFINE n == Len(queue[p]) + 1
           ads == {AvailableWork(p, q, n) : q \in known[p]}
           own == AvailableWork(p, p, n)
           self == <<own>>
<1>1. IsABag(Advertise(p, n)) /\ DOMAIN Advertise(p, n) = ads
  BY SetIsBag DEF Advertise
<1>2. n \in Nat
  BY DEF TypeOK
<1>3. Exchange(p, m, Advertise(p, n), self)
  BY DEF OnClientJobRequest
<1> HIDE DEF n
<1>4. own \in Posts(p) /\ ~IsEvent(own)
  BY <1>2, Made DEF Posts, AvailableWork, IsEvent
<1> HIDE DEF own
<1>5. self \in Seq(Posts(p)) /\ Range(self) = {own} /\ Quiet(self)
  BY <1>4 DEF Range, Quiet
<1> HIDE DEF self
<1>6. InFlight' \subseteq InFlight \cup DOMAIN Advertise(p, n) \cup Range(self) /\ GoOn(p, m)
  BY <1>1, <1>3, <1>5, ExchangeFlow DEF GoOn
<1>7. ads \cup {own} = {AvailableWork(p, q, n) : q \in known[p] \cup {p}}
  BY DEF own
<1> QED
  BY <1>1, <1>5, <1>6, <1>7 DEF n

\* A status check pings, retracts and advertises.
LEMMA OnStatusCheckFlow ==
    ASSUME TypeOK, NEW p \in Peers, OnStatusCheck(p)
    PROVE  /\ InFlight' \subseteq InFlight \cup StatusPings(p) \cup Retractions(p)
                  \cup {AvailableWork(p, q, k) : q \in known[p] \cup {p}, k \in Nat}
           /\ \A q \in Peers : EventsGoOn(q, 0)
           /\ Range(queue'[p]) \subseteq Range(queue[p]) \cup DOMAIN jobs[p]
           /\ \A q \in Peers : q # p => queue'[q] = queue[q]
<1>1. PICK again \in Requeued(p) :
        /\ queue' = [queue EXCEPT ![p] = queue[p] \o again]
        /\ Emit(p, SetToBag(StatusPings(p) \cup Retractions(p) \cup Offers(p, again)),
                OwnOffers(p, again))
  BY DEF OnStatusCheck
<1>2. StaleJobs(p) \subseteq JobIds /\ Cardinality(StaleJobs(p)) \in Nat
  <2>1. StaleJobs(p) \subseteq DOMAIN jobs[p] /\ IsFiniteSet(DOMAIN jobs[p])
    BY DEF StaleJobs, TypeOK, FiniteMap
  <2>2. IsFiniteSet(StaleJobs(p))
    BY <2>1, FS_Subset
  <2> QED
    BY <2>1, <2>2, FS_CardinalityType DEF TypeOK, FiniteMap
<1>3. again \in Seq(StaleJobs(p)) /\ DOMAIN again = 1..Cardinality(StaleJobs(p))
  BY <1>2 DEF Requeued
<1>4. \A a \in DOMAIN again : Len(queue[p]) + a \in Nat
  BY <1>2, <1>3 DEF TypeOK
<1> DEFINE Ads == {AvailableWork(p, q, k) : q \in known[p] \cup {p}, k \in Nat}
           all == StatusPings(p) \cup Retractions(p) \cup Offers(p, again)
<1>5. Offers(p, again) \subseteq Ads
  BY <1>4 DEF Offers
<1>6. OwnOffers(p, again) \in Seq(Posts(p)) /\ Range(OwnOffers(p, again)) \subseteq Ads
      /\ Quiet(OwnOffers(p, again))
  <2>1. \A k \in Nat : /\ AvailableWork(p, p, k) \in Posts(p) \cap Ads
                       /\ ~IsEvent(AvailableWork(p, p, k))
    BY Made DEF Posts, AvailableWork, IsEvent
  <2> HIDE DEF Ads
  <2>2. \A a \in DOMAIN again : OwnOffers(p, again)[a] = AvailableWork(p, p, Len(queue[p]) + a)
    BY DEF OwnOffers
  <2>3. OwnOffers(p, again) \in Seq(Posts(p)) /\ DOMAIN OwnOffers(p, again) = DOMAIN again
    BY <1>2, <1>3, <1>4, <2>1 DEF OwnOffers
  <2> QED
    BY <1>4, <2>1, <2>2, <2>3 DEF Range, Quiet
<1>7. IsABag(SetToBag(all)) /\ DOMAIN SetToBag(all) = all
  BY SetIsBag
<1>8. /\ InFlight' \subseteq InFlight \cup all \cup Range(OwnOffers(p, again))
      /\ \A q \in Peers : EventsGoOn(q, 0)
  BY <1>1, <1>6, <1>7, EmitFlow
<1>9. Range(queue'[p]) \subseteq Range(queue[p]) \cup DOMAIN jobs[p]
  <2>1. queue[p] \in Seq(JobIds) /\ again \in Seq(JobIds)
    BY <1>2, <1>3 DEF TypeOK
  <2>2. Range(again) \subseteq DOMAIN jobs[p]
    BY <1>3, RangeOfSeq DEF StaleJobs
  <2>3. queue'[p] = queue[p] \o again
    BY <1>1 DEF TypeOK
  <2> QED
    BY <2>1, <2>2, <2>3, RangeConcatenation
<1>10. \A q \in Peers : q # p => queue'[q] = queue[q]
  BY <1>1
<1> QED
  BY <1>5, <1>6, <1>8, <1>9, <1>10

-----------------------------------------------------------------------------
(* No work is ignored. *)

Mutual(p, q) == p = q \/ (p \in known[q] /\ q \in known[p])

MutualNext(p, q) == p = q \/ (p \in known'[q] /\ q \in known'[p])

\* A peer knows those it offers work to, and work moves between peers that know each
\* other.  The ping a peer sends when it starts is to strangers, but offers none.
Friendly(m) ==
    /\ m.type = "Ping" /\ m.count > 0 => m.src = m.dst \/ m.dst \in known[m.src]
    /\ m.type = "AvailableWork" => m.src = m.dst \/ m.dst \in known[m.src]
    /\ m.type \in WorkTypes => Mutual(m.src, m.dst)

\* NoWorkIgnored is not inductive: whom a request, a job or a report goes to depends on
\* the books of its sender.
AcquaintInv ==
    /\ \A m \in InFlight : Friendly(m)
    /\ \A p, q \in Peers : avail[p][q] > 0 => Mutual(p, q)
    /\ \A p \in Peers : \A i \in DOMAIN executing[p] : Mutual(p, executing[p][i].owner)
    /\ \A p \in Peers : \A j \in DOMAIN jobs[p] :
           jobs[p][j].exec = None \/ Mutual(p, jobs[p][j].exec)
    /\ \A p \in Peers : status[p] = "off" => queue[p] = << >>

LEMMA InFlightType == TypeOK => InFlight \subseteq Incoming
<1> SUFFICES ASSUME TypeOK
             PROVE  InFlight \subseteq Incoming
  OBVIOUS
<1>1. DOMAIN net \subseteq Incoming
  BY DEF TypeOK, Parcels, Incoming
<1>2. \A p \in Peers : Range(posted[p]) \subseteq Posts(p)
  BY RangeOfSeq DEF TypeOK
<1> QED
  BY <1>1, <1>2 DEF InFlight, Posts, Incoming

\* What a step must show of what it changes.
Grown == \A q \in Peers : known[q] \subseteq known'[q]
NewsFriendly == \A m \in InFlight' : m \in InFlight \/ Friendly(m)'
OffersFriendly ==
    \A p, q \in Peers : avail'[p][q] > 0 => avail[p][q] > 0 \/ MutualNext(p, q)
WorkFriendly ==
    \A p \in Peers : \A i \in DOMAIN executing'[p] :
        \/ i \in DOMAIN executing[p] /\ executing'[p][i].owner = executing[p][i].owner
        \/ MutualNext(p, executing'[p][i].owner)
JobsFriendly ==
    \A p \in Peers : \A j \in DOMAIN jobs'[p] :
        \/ j \in DOMAIN jobs[p] /\ jobs'[p][j].exec = jobs[p][j].exec
        \/ jobs'[p][j].exec = None
        \/ MutualNext(p, jobs'[p][j].exec)
OffIdle == \A p \in Peers : status'[p] = "off" => status[p] = "off" /\ queue'[p] = queue[p]

\* Acquaintances are never lost.
LEMMA AcquaintKept ==
    ASSUME TypeOK, AcquaintInv, Grown, NewsFriendly, OffersFriendly, WorkFriendly,
           JobsFriendly, OffIdle
    PROVE  AcquaintInv'
<1>1. \A p, q \in Peers : Mutual(p, q) => MutualNext(p, q)
  BY DEF Grown, Mutual, MutualNext
<1>2. ASSUME NEW m \in InFlight'
      PROVE  Friendly(m)'
  <2>1. CASE m \in InFlight
    <3>1. Friendly(m) /\ m \in Incoming
      BY <2>1, InFlightType DEF AcquaintInv
    <3>2. m.dst \in Peers /\ (m.type # "Post" => m.src \in Peers)
      BY <3>1, Fields
    <3>3. m.type \in WorkTypes \cup {"Ping", "AvailableWork"} => m.src \in Peers
      BY <3>2 DEF WorkTypes
    <3> QED
      BY <1>1, <3>1, <3>2, <3>3 DEF Friendly, Grown, Mutual, MutualNext
  <2>2. CASE m \notin InFlight
    BY <2>2 DEF NewsFriendly
  <2> QED
    BY <2>1, <2>2
<1>3. \A p, q \in Peers : avail'[p][q] > 0 => MutualNext(p, q)
  BY <1>1 DEF AcquaintInv, OffersFriendly
<1>4. \A p \in Peers : \A i \in DOMAIN executing'[p] : MutualNext(p, executing'[p][i].owner)
  <2>1. \A p \in Peers : \A i \in DOMAIN executing[p] : executing[p][i].owner \in Peers
    BY DEF TypeOK, FiniteMap, RunningJob
  <2> QED
    BY <1>1, <2>1 DEF AcquaintInv, WorkFriendly
<1>5. \A p \in Peers : \A j \in DOMAIN jobs'[p] :
          jobs'[p][j].exec = None \/ MutualNext(p, jobs'[p][j].exec)
  <2>1. \A p \in Peers : \A j \in DOMAIN jobs[p] : jobs[p][j].exec \in Peers \cup {None}
    BY DEF TypeOK, FiniteMap, OwnedJob
  <2> QED
    BY <1>1, <2>1 DEF AcquaintInv, JobsFriendly
<1>6. \A p \in Peers : status'[p] = "off" => queue'[p] = << >>
  BY DEF AcquaintInv, OffIdle
<1> QED
  BY <1>2, <1>3, <1>4, <1>5, <1>6 DEF AcquaintInv, Mutual, MutualNext

\* A peer only asks those it has an offer of.
LEMMA AsksFriendly ==
    ASSUME NEW p \in Peers, NEW av \in [Peers -> Nat], NEW op, NEW ex,
           NEW ask \in Asked(p, av, op, ex),
           LookForWork(p, av, op, ask), TypeOK,
           \A q \in Peers : av[q] > 0 => avail[p][q] > 0 \/ MutualNext(p, q),
           AcquaintInv, Grown
    PROVE  (\A m \in Asks(p, ask) : Friendly(m)') /\ OffersFriendly
<1>1. ask \in [Peers -> Nat] /\ \A q \in Peers : ask[q] <= av[q]
  BY AskType
<1>2. \A q \in Peers : av[q] > 0 => MutualNext(p, q)
  BY DEF AcquaintInv, Grown, Mutual, MutualNext
<1>3. ASSUME NEW q \in Peers, ask[q] > 0
      PROVE  Friendly(RequestJobs(p, q, ask[q]))'
  <2>1. av[q] > 0
    BY <1>1, <1>3
  <2>2. MutualNext(p, q)
    BY <1>2, <2>1
  <2> QED
    BY <2>2 DEF Friendly, RequestJobs, WorkTypes, Mutual, MutualNext
<1>4. OffersFriendly
  <2>1. avail' = [avail EXCEPT ![p] = [q \in Peers |-> av[q] - ask[q]]]
    BY DEF LookForWork
  <2>2. \A q \in Peers : avail'[p][q] = av[q] - ask[q]
    BY <2>1 DEF TypeOK
  <2>3. \A q \in Peers : avail'[p][q] > 0 => av[q] > 0
    BY <1>1, <2>2
  <2>4. \A r \in Peers : r # p => avail'[r] = avail[r]
    BY <2>1
  <2> QED
    BY <1>2, <2>3, <2>4 DEF OffersFriendly
<1> QED
  BY <1>3, <1>4 DEF Asks

\* What is not in the books changes nothing of them.
LEMMA BooksKept ==
    ASSUME TypeOK, AcquaintInv, UNCHANGED <<known, jobs, queue, executing, avail>>, NewsFriendly,
           \A q \in Peers : status'[q] = "off" => status[q] = "off"
    PROVE  AcquaintInv'
<1>1. Grown /\ OffersFriendly /\ WorkFriendly /\ JobsFriendly /\ OffIdle
  BY DEF Grown, OffersFriendly, WorkFriendly, JobsFriendly, OffIdle
<1> QED
  BY <1>1, AcquaintKept

LEMMA DieAcquaint ==
    ASSUME TypeOK, AcquaintInv, NEW p \in Peers, NEW m, Received(p, m), NEW cause, cause # "off",
           Die(m, cause)
    PROVE  AcquaintInv'
<1>1. m.dst = p /\ Consume(m) /\ status' = [status EXCEPT ![p] = cause]
  BY DEF Received, Die
<1>2. NewsFriendly
  BY <1>1, ConsumeFlow DEF NewsFriendly
<1>3. \A q \in Peers : status'[q] = "off" => status[q] = "off"
  BY <1>1 DEF TypeOK
<1> QED
  BY <1>2, <1>3, BooksKept DEF Die, peerVars

LEMMA OnPingAcquaint ==
    ASSUME TypeOK, AcquaintInv, NEW p \in Peers, NEW m, Handled(p, m), ~Local(m),
           m.type = "Ping", OnPing(p, m)
    PROVE  AcquaintInv'
<1> DEFINE av == [avail[p] EXCEPT ![m.src] = m.count]
           delegated == \A j \in m.ids : j \in DOMAIN jobs[p] /\ jobs[p][j].exec = m.src
<1>1. /\ m.dst = p /\ m.src \in Peers /\ m.count \in Nat /\ m.src # p
      /\ Received(p, m) /\ m \in InFlight
  BY HandledIsReceived, Fields DEF Received, Local
<1>2. CASE ~delegated
  <2>1. Die(m, "assert_ping")
    BY <1>2 DEF OnPing
  <2> QED
    BY <1>1, <2>1, DieAcquaint
<1>3. CASE delegated
  <2>1. PICK ask \in Asked(p, av, open[p], executing[p]) :
          /\ LookForWork(p, av, open[p], ask)
          /\ Exchange(p, m, SetToBag({Ping(p, q, Acquaintance(p, m)) : q \in Newcomers(p, m)})
                              (+) Requests(p, ask), OwnRequest(p, ask))
    BY <1>3 DEF OnPing
  <2>2. /\ known' = [known EXCEPT ![p] = Acquaintance(p, m)]
        /\ jobs' = [jobs EXCEPT ![p] = [j \in DOMAIN jobs[p] |->
                      IF j \in m.ids THEN Pinged(jobs[p][j]) ELSE jobs[p][j]]]
        /\ UNCHANGED <<status, queue, executing>>
    BY <1>3 DEF OnPing
  <2>3. /\ known'[p] = Acquaintance(p, m) /\ \A q \in Peers : q # p => known'[q] = known[q]
        /\ m.src \in known'[p]
    BY <1>1, <2>2 DEF TypeOK, Acquaintance
  <2>4. Grown
    BY <2>3 DEF Grown, TypeOK, Acquaintance
  <2>5. av \in [Peers -> Nat] /\ ask \in [Peers -> Nat]
    BY <1>1, AskType DEF TypeOK
  <2>6. \A q \in Peers : av[q] > 0 => avail[p][q] > 0 \/ MutualNext(p, q)
    <3>1. av[m.src] > 0 => MutualNext(p, m.src)
      BY <1>1, <2>3, <2>4 DEF AcquaintInv, Friendly, Grown, MutualNext, TypeOK
    <3>2. \A q \in Peers : q # m.src => av[q] = avail[p][q]
      BY DEF TypeOK
    <3> QED
      BY <3>1, <3>2
  <2>7. (\A x \in Asks(p, ask) : Friendly(x)') /\ OffersFriendly
    BY <2>1, <2>4, <2>5, <2>6, AsksFriendly
  <2> DEFINE pings == {Ping(p, q, Acquaintance(p, m)) : q \in Newcomers(p, m)}
  <2>8. IsABag(SetToBag(pings)) /\ DOMAIN SetToBag(pings) = pings
    BY SetIsBag
  <2>9. InFlight' \subseteq InFlight \cup pings \cup Asks(p, ask)
    BY <1>1, <2>1, <2>5, <2>8, AskFlow
  <2>10. \A x \in pings : Friendly(x)'
    <3>1. \A q \in Newcomers(p, m) : q \in known'[p]
      BY <2>3 DEF Newcomers
    <3> QED
      BY <3>1 DEF Friendly, Ping, WorkTypes
  <2>11. NewsFriendly
    BY <2>7, <2>9, <2>10 DEF NewsFriendly
  <2>12. WorkFriendly /\ OffIdle
    BY <2>2 DEF WorkFriendly, OffIdle
  <2>13. JobsFriendly
    <3>1. \A x \in OwnedJob : Pinged(x).exec = x.exec
      BY DEF OwnedJob, Pinged
    <3>2. \A j \in DOMAIN jobs[p] : jobs[p][j] \in OwnedJob
      BY DEF TypeOK, FiniteMap
    <3>3. \A j \in DOMAIN jobs'[p] : j \in DOMAIN jobs[p] /\ jobs'[p][j].exec = jobs[p][j].exec
      BY <2>2, <3>1, <3>2 DEF TypeOK
    <3>4. \A q \in Peers : q # p => jobs'[q] = jobs[q]
      BY <2>2
    <3> QED
      BY <3>3, <3>4 DEF JobsFriendly
  <2> QED
    BY <2>4, <2>7, <2>11, <2>12, <2>13, AcquaintKept
<1> QED
  BY <1>2, <1>3

\* The handlers below change no acquaintance.
LEMMA SameKnown ==
    ASSUME UNCHANGED known
    PROVE  Grown /\ \A p, q : MutualNext(p, q) <=> Mutual(p, q)
BY DEF Grown, Mutual, MutualNext

LEMMA OnAvailableWorkAcquaint ==
    ASSUME TypeOK, AcquaintInv, NEW p \in Peers, NEW m, Handled(p, m), IsPeerKnown(p, m.src),
           m.type = "AvailableWork", OnAvailableWork(p, m)
    PROVE  AcquaintInv'
<1> DEFINE av == [avail[p] EXCEPT ![m.src] = m.count]
<1>1. /\ m.dst = p /\ m.src \in Peers /\ m.count \in Nat
      /\ Received(p, m) /\ m \in InFlight
  BY HandledIsReceived, Fields DEF Received
<1>2. PICK ask \in Asked(p, av, open[p], executing[p]) :
        /\ LookForWork(p, av, open[p], ask)
        /\ Exchange(p, m, Requests(p, ask), OwnRequest(p, ask))
  BY DEF OnAvailableWork
<1>3. UNCHANGED <<status, known, jobs, queue, executing>>
  BY DEF OnAvailableWork
<1>4. av \in [Peers -> Nat] /\ ask \in [Peers -> Nat]
  BY <1>1, AskType DEF TypeOK
<1>5. Mutual(p, m.src)
  BY <1>1 DEF AcquaintInv, Friendly, IsPeerKnown, Mutual
<1>6. \A q \in Peers : av[q] > 0 => avail[p][q] > 0 \/ MutualNext(p, q)
  <2>1. \A q \in Peers : q # m.src => av[q] = avail[p][q]
    BY DEF TypeOK
  <2> QED
    BY <1>3, <1>5, <2>1, SameKnown
<1>7. (\A x \in Asks(p, ask) : Friendly(x)') /\ OffersFriendly
  BY <1>2, <1>3, <1>4, <1>6, SameKnown, AsksFriendly
<1>8. NewsFriendly
  BY <1>1, <1>2, <1>4, <1>7, OnlyAskFlow DEF NewsFriendly
<1>9. WorkFriendly /\ JobsFriendly /\ OffIdle
  BY <1>3 DEF WorkFriendly, JobsFriendly, OffIdle
<1> QED
  BY <1>3, <1>7, <1>8, <1>9, SameKnown, AcquaintKept

LEMMA OnNotifiedNoJobsAcquaint ==
    ASSUME TypeOK, AcquaintInv, NEW p \in Peers, NEW m, Handled(p, m),
           OnNotifiedNoJobs(p, m)
    PROVE  AcquaintInv'
<1>1. Received(p, m)
  BY HandledIsReceived
<1>2. PICK ask \in Asked(p, avail[p], Close(open[p], m.src), executing[p]) :
        /\ LookForWork(p, avail[p], Close(open[p], m.src), ask)
        /\ Exchange(p, m, Requests(p, ask), OwnRequest(p, ask))
  BY DEF OnNotifiedNoJobs
<1>3. UNCHANGED <<status, known, jobs, queue, executing>>
  BY DEF OnNotifiedNoJobs
<1>4. avail[p] \in [Peers -> Nat] /\ ask \in [Peers -> Nat]
  BY AskType DEF TypeOK
<1>5. (\A x \in Asks(p, ask) : Friendly(x)') /\ OffersFriendly
  BY <1>2, <1>3, <1>4, SameKnown, AsksFriendly
<1>6. NewsFriendly
  BY <1>1, <1>2, <1>4, <1>5, OnlyAskFlow DEF NewsFriendly
<1>7. WorkFriendly /\ JobsFriendly /\ OffIdle
  BY <1>3 DEF WorkFriendly, JobsFriendly, OffIdle
<1> QED
  BY <1>3, <1>5, <1>6, <1>7, SameKnown, AcquaintKept

LEMMA OnJobRequestAcquaint ==
    ASSUME TypeOK, AcquaintInv, NEW p \in Peers, NEW m, Handled(p, m), Alive(p),
           m.type = "RequestJobs", OnJobRequest(p, m)
    PROVE  AcquaintInv'
<1>1. m.src \in Peers /\ m.dst = p /\ Received(p, m) /\ m \in InFlight
  BY HandledIsReceived, Fields DEF Received
<1>2. UNCHANGED <<status, known, executing, avail>>
  BY DEF OnJobRequest
<1> DEFINE Answers == {DelegateJob(p, m.src, j, Description(p, j)) : j \in Range(queue[p])}
<1>3. /\ InFlight' \subseteq InFlight \cup Answers \cup {NoMoreJobs(p, m.src)}
      /\ \A q \in Peers : q # p => queue'[q] = queue[q]
      /\ \A j \in DOMAIN jobs'[p] :
             \/ j \in DOMAIN jobs[p] /\ jobs'[p][j] = jobs[p][j]
             \/ j \in Range(queue[p]) /\ jobs'[p][j].exec = m.src
      /\ \A q \in Peers : q # p => jobs'[q] = jobs[q]
  BY <1>1, OnJobRequestFlow
<1>4. Mutual(p, m.src) /\ MutualNext(p, m.src)
  <2>1. Mutual(m.src, p)
    BY <1>1 DEF AcquaintInv, Friendly, WorkTypes
  <2> QED
    BY <1>2, <2>1, SameKnown DEF Mutual
<1>5. \A x \in Answers \cup {NoMoreJobs(p, m.src)} : Friendly(x)'
  <2>1. Friendly(NoMoreJobs(p, m.src))'
    BY <1>4 DEF Friendly, NoMoreJobs, WorkTypes, Mutual, MutualNext
  <2>2. \A j, d : Friendly(DelegateJob(p, m.src, j, d))'
    BY <1>4 DEF Friendly, DelegateJob, WorkTypes, Mutual, MutualNext
  <2> QED
    BY <2>1, <2>2
<1>6. NewsFriendly
  BY <1>3, <1>5 DEF NewsFriendly
<1>7. JobsFriendly
  BY <1>3, <1>4 DEF JobsFriendly
<1>8. WorkFriendly /\ OffersFriendly
  BY <1>2 DEF WorkFriendly, OffersFriendly
<1>9. OffIdle
  <2>1. status'[p] # "off"
    BY <1>2 DEF Alive
  <2> QED
    BY <1>2, <1>3, <2>1 DEF OffIdle
<1> QED
  BY <1>2, <1>6, <1>7, <1>8, <1>9, SameKnown, AcquaintKept

LEMMA OnReceiveJobAcquaint ==
    ASSUME TypeOK, AcquaintInv, NEW p \in Peers, NEW m, Handled(p, m),
           m.type = "DelegateJob", OnReceiveJob(p, m)
    PROVE  AcquaintInv'
<1>1. m.src \in Peers /\ m.dst = p /\ Received(p, m) /\ m \in InFlight
  BY HandledIsReceived, Fields DEF Received
<1>2. UNCHANGED <<status, known, jobs, queue, avail>> /\ Consume(m)
  BY DEF OnReceiveJob
<1>3. NewsFriendly
  BY <1>1, <1>2, ConsumeFlow DEF NewsFriendly
<1>4. MutualNext(p, m.src)
  <2>1. Mutual(m.src, p)
    BY <1>1 DEF AcquaintInv, Friendly, WorkTypes
  <2> QED
    BY <1>2, <2>1, SameKnown DEF Mutual
<1>5. WorkFriendly
  <2>1. CASE UNCHANGED executing
    BY <2>1 DEF WorkFriendly
  <2>2. CASE ~UNCHANGED executing
    <3> DEFINE k == InProgressId(p)
               job == [owner |-> m.src, id |-> m.id, desc |-> m.desc, done |-> FALSE]
    <3>1. executing' = [executing EXCEPT ![p] =
            [i \in DOMAIN executing[p] \cup {k} |-> IF i = k THEN job ELSE executing[p][i]]]
      BY <2>2 DEF OnReceiveJob
    <3>2. job.owner = m.src
      OBVIOUS
    <3> HIDE DEF k, job
    <3>3. \A i \in DOMAIN executing'[p] :
             \/ i \in DOMAIN executing[p] /\ executing'[p][i].owner = executing[p][i].owner
             \/ executing'[p][i].owner = m.src
      BY <3>1, <3>2 DEF TypeOK
    <3>4. \A q \in Peers : q # p => executing'[q] = executing[q]
      BY <3>1
    <3> QED
      BY <1>4, <3>3, <3>4 DEF WorkFriendly
  <2> QED
    BY <2>1, <2>2
<1>6. OffersFriendly /\ JobsFriendly /\ OffIdle
  BY <1>2 DEF OffersFriendly, JobsFriendly, OffIdle
<1> QED
  BY <1>2, <1>3, <1>5, <1>6, SameKnown, AcquaintKept

LEMMA OnDelegatedJobUpdateAcquaint ==
    ASSUME TypeOK, AcquaintInv, NEW p \in Peers, NEW m, Handled(p, m),
           OnDelegatedJobUpdate(p, m) \/ OnJobRetracted(p, m)
    PROVE  AcquaintInv'
<1>1. Received(p, m)
  BY HandledIsReceived
<1>2. CASE Die(m, "assert_update")
  BY <1>1, <1>2, DieAcquaint
<1>3. CASE Consume(m) /\ UNCHANGED <<status, peerVars>>
  <2>1. NewsFriendly
    BY <1>1, <1>3, ConsumeFlow DEF NewsFriendly
  <2> QED
    BY <1>3, <2>1, BooksKept DEF peerVars
<1> QED
  BY <1>2, <1>3 DEF OnDelegatedJobUpdate, OnJobRetracted

LEMMA OnDelegatedJobCompletedAcquaint ==
    ASSUME TypeOK, AcquaintInv, NEW p \in Peers, NEW m, Handled(p, m),
           OnDelegatedJobCompleted(p, m)
    PROVE  AcquaintInv'
<1>1. Received(p, m)
  BY HandledIsReceived
<1>2. CASE Die(m, "assert_completed")
  BY <1>1, <1>2, DieAcquaint
<1>3. CASE ~Die(m, "assert_completed")
  <2>1. /\ Consume(m) /\ UNCHANGED <<status, known, queue, executing, avail>>
        /\ jobs' = [jobs EXCEPT ![p] = Without(p, m.id)]
    BY <1>3 DEF OnDelegatedJobCompleted
  <2>2. NewsFriendly
    BY <1>1, <2>1, ConsumeFlow DEF NewsFriendly
  <2>3. \A j \in DOMAIN jobs'[p] : j \in DOMAIN jobs[p] /\ jobs'[p][j] = jobs[p][j]
    BY <2>1 DEF Without, TypeOK
  <2>4. JobsFriendly
    BY <2>1, <2>3 DEF JobsFriendly
  <2>5. WorkFriendly /\ OffersFriendly /\ OffIdle
    BY <2>1 DEF WorkFriendly, OffersFriendly, OffIdle
  <2> QED
    BY <2>1, <2>2, <2>4, <2>5, SameKnown, AcquaintKept
<1> QED
  BY <1>2, <1>3

LEMMA OnClientJobRequestAcquaint ==
    ASSUME TypeOK, AcquaintInv, NEW p \in Peers, NEW m, Handled(p, m), Alive(p),
           m.type = "Post", OnClientJobRequest(p, m)
    PROVE  AcquaintInv'
<1>1. Received(p, m)
  BY HandledIsReceived
<1> DEFINE j == nextId[p]
           job == [client |-> m.src, exec |-> None, stale |-> FALSE]
           n == Len(queue[p]) + 1
           longer == Append(queue[p], j)
<1>2. /\ UNCHANGED <<status, known, executing, avail>>
      /\ queue' = [queue EXCEPT ![p] = longer]
      /\ jobs' = [jobs EXCEPT ![p] = [k \in DOMAIN jobs[p] \cup {j} |->
                    IF k = j THEN job ELSE jobs[p][k]]]
  BY DEF OnClientJobRequest
<1>3. job.exec = None
  OBVIOUS
<1>4. InFlight' \subseteq InFlight \cup {AvailableWork(p, q, n) : q \in known[p] \cup {p}}
  BY <1>1, OnClientJobRequestFlow
<1> HIDE DEF j, job, n, longer
<1>5. ASSUME NEW x \in {AvailableWork(p, q, n) : q \in known[p] \cup {p}}
      PROVE  Friendly(x)'
  <2>1. x.type = "AvailableWork" /\ x.src = p /\ x.dst \in known[p] \cup {p}
    BY DEF AvailableWork
  <2> QED
    BY <1>2, <2>1 DEF Friendly, WorkTypes
<1>6. NewsFriendly
  BY <1>4, <1>5 DEF NewsFriendly
<1>7. JobsFriendly
  <2>1. \A k \in DOMAIN jobs'[p] :
           \/ k \in DOMAIN jobs[p] /\ jobs'[p][k] = jobs[p][k]
           \/ jobs'[p][k].exec = None
    BY <1>2, <1>3 DEF TypeOK
  <2>2. \A q \in Peers : q # p => jobs'[q] = jobs[q]
    BY <1>2
  <2> QED
    BY <2>1, <2>2 DEF JobsFriendly
<1>8. OffIdle
  <2>1. \A q \in Peers : q # p => queue'[q] = queue[q]
    BY <1>2
  <2>2. status'[p] # "off"
    BY <1>2 DEF Alive
  <2> QED
    BY <1>2, <2>1, <2>2 DEF OffIdle
<1>9. WorkFriendly /\ OffersFriendly
  BY <1>2 DEF WorkFriendly, OffersFriendly
<1> QED
  BY <1>2, <1>6, <1>7, <1>8, <1>9, SameKnown, AcquaintKept

\* A note to the owner of a job at work is to an acquaintance.
LEMMA NoteFriendly ==
    ASSUME TypeOK, AcquaintInv, UNCHANGED known, NEW p \in Peers, NEW i \in DOMAIN executing[p],
           NEW type \in {"JobCompleted", "JobUpdate"}, NEW id,
           NEW x, x = JobNote(p, executing[p][i].owner, type, id)
    PROVE  Friendly(x)'
<1>1. Mutual(p, executing[p][i].owner)
  BY DEF AcquaintInv
<1>2. x.type = type /\ x.src = p /\ x.dst = executing[p][i].owner
  BY DEF JobNote
<1>3. Mutual(x.src, x.dst)
  BY <1>1, <1>2
<1> QED
  BY <1>2, <1>3 DEF Friendly, WorkTypes, Mutual

LEMMA OnJobUpdateAcquaint ==
    ASSUME TypeOK, AcquaintInv, NEW p \in Peers, NEW m, Handled(p, m), OnJobUpdate(p, m)
    PROVE  AcquaintInv'
<1>1. Received(p, m)
  BY HandledIsReceived
<1>2. CASE Die(m, "assert_local")
  BY <1>1, <1>2, DieAcquaint
<1>3. CASE ~Die(m, "assert_local")
  <2> DEFINE job == executing[p][m.id]
  <2>1. /\ m.id \in DOMAIN executing[p] /\ Report(p, m, "JobUpdate", job, NoAsk)
        /\ UNCHANGED <<status, peerVars>>
    BY <1>3 DEF OnJobUpdate
  <2>2. NoAsk \in [Peers -> Nat] /\ Asks(p, NoAsk) = {} /\ job \in RunningJob
    BY <2>1 DEF NoAsk, Asks, TypeOK, FiniteMap
  <2>3. \A x : x = JobNote(p, job.owner, "JobUpdate", job.id) => Friendly(x)'
    BY <2>1, NoteFriendly DEF peerVars
  <2> HIDE DEF job
  <2>4. NewsFriendly
    BY <1>1, <2>1, <2>2, <2>3, ReportFlow DEF NewsFriendly
  <2> QED
    BY <2>1, <2>4, BooksKept DEF peerVars
<1> QED
  BY <1>2, <1>3

LEMMA OnJobProcessingCompletedAcquaint ==
    ASSUME TypeOK, AcquaintInv, NEW p \in Peers, NEW m, Handled(p, m),
           OnJobProcessingCompleted(p, m)
    PROVE  AcquaintInv'
<1>1. Received(p, m)
  BY HandledIsReceived
<1>2. CASE Die(m, "assert_local")
  BY <1>1, <1>2, DieAcquaint
<1>3. CASE ~Die(m, "assert_local")
  <2> DEFINE job == executing[p][m.id]
             rest == [i \in DOMAIN executing[p] \ {m.id} |-> executing[p][i]]
  <2>1. /\ m.id \in DOMAIN executing[p] /\ executing' = [executing EXCEPT ![p] = rest]
        /\ UNCHANGED <<status, known, jobs, queue>>
    BY <1>3 DEF OnJobProcessingCompleted
  <2>2. PICK ask \in Asked(p, avail[p], open[p], rest) :
          LookForWork(p, avail[p], open[p], ask) /\ Report(p, m, "JobCompleted", job, ask)
    BY <1>3 DEF OnJobProcessingCompleted
  <2>3. job \in RunningJob
    BY <2>1 DEF TypeOK, FiniteMap
  <2>4. \A x : x = JobNote(p, job.owner, "JobCompleted", job.id) => Friendly(x)'
    BY <2>1, NoteFriendly
  <2>5. WorkFriendly
    <3>1. \A i \in DOMAIN executing'[p] :
             i \in DOMAIN executing[p] /\ executing'[p][i] = executing[p][i]
      BY <2>1 DEF TypeOK
    <3>2. \A q \in Peers : q # p => executing'[q] = executing[q]
      BY <2>1
    <3> QED
      BY <3>1, <3>2 DEF WorkFriendly
  <2> HIDE DEF job, rest
  <2>6. avail[p] \in [Peers -> Nat] /\ ask \in [Peers -> Nat]
    BY AskType DEF TypeOK
  <2>7. (\A x \in Asks(p, ask) : Friendly(x)') /\ OffersFriendly
    BY <2>1, <2>2, <2>6, SameKnown, AsksFriendly
  <2>8. NewsFriendly
    BY <1>1, <2>2, <2>3, <2>4, <2>6, <2>7, ReportFlow DEF NewsFriendly
  <2>9. JobsFriendly /\ OffIdle
    BY <2>1 DEF JobsFriendly, OffIdle
  <2> QED
    BY <2>1, <2>5, <2>7, <2>8, <2>9, SameKnown, AcquaintKept
<1> QED
  BY <1>2, <1>3

LEMMA PeerMessageAcquaint ==
    ASSUME TypeOK, AcquaintInv, NEW p \in Peers, NEW m, Handled(p, m), Alive(p),
           IsPeerKnown(p, m.src), OnReceivePeerMessage(p, m)
    PROVE  AcquaintInv'
BY OnAvailableWorkAcquaint, OnJobRequestAcquaint, OnReceiveJobAcquaint, OnNotifiedNoJobsAcquaint,
   OnDelegatedJobUpdateAcquaint, OnDelegatedJobCompletedAcquaint DEF OnReceivePeerMessage

LEMMA DropAcquaint ==
    ASSUME TypeOK, AcquaintInv, NEW m \in DOMAIN net, Lose(m) \/ Discard(m)
    PROVE  AcquaintInv'
<1>1. m.dst \in Peers /\ Received(m.dst, m)
  BY DEF TypeOK, Parcels, Received, Incoming, Local, Message, ClientPost
<1>2. Consume(m) /\ UNCHANGED <<status, peerVars>>
  BY DEF Lose, Discard
<1>3. NewsFriendly
  BY <1>1, <1>2, ConsumeFlow DEF NewsFriendly
<1> QED
  BY <1>2, <1>3, BooksKept DEF peerVars

LEMMA ServeAcquaint ==
    ASSUME TypeOK, AcquaintInv, NEW p \in Peers, Serve(p)
    PROVE  AcquaintInv'
<1>1. CASE RunPosted(p)
  <2> DEFINE m == Head(posted[p])
  <2>1. m \in Posts(p) /\ posted[p] # << >>
    BY <1>1 DEF RunPosted, TypeOK
  <2>2. Handled(p, m) /\ m.src = p /\ Alive(p)
    BY <1>1, <2>1 DEF Posts, Handled, Incoming, Local, RunPosted
  <2>3. \/ OnReceivePeerMessage(p, m)
        \/ m.type = "Updated" /\ OnJobUpdate(p, m)
        \/ m.type = "Finished" /\ OnJobProcessingCompleted(p, m)
    BY <1>1 DEF RunPosted
  <2> HIDE DEF m
  <2>4. IsPeerKnown(p, m.src)
    BY <2>2 DEF IsPeerKnown
  <2> QED
    BY <2>2, <2>3, <2>4, PeerMessageAcquaint, OnJobUpdateAcquaint, OnJobProcessingCompletedAcquaint
<1>2. ASSUME NEW m \in DOMAIN net, m.dst = p, Deliver(m)
      PROVE  AcquaintInv'
  <2>1. Handled(p, m) /\ ~Local(m) /\ Alive(p)
    BY <1>2 DEF TypeOK, Parcels, Handled, Incoming, Local, Deliver
  <2>2. \/ m.type = "Ping" /\ OnPing(p, m)
        \/ m.type = "Post" /\ OnClientJobRequest(p, m)
        \/ IsPeerKnown(p, m.src) /\ OnReceivePeerMessage(p, m)
    BY <1>2 DEF Deliver
  <2> QED
    BY <2>1, <2>2, PeerMessageAcquaint, OnPingAcquaint, OnClientJobRequestAcquaint
<1>3. ASSUME NEW m \in DOMAIN net, Discard(m)
      PROVE  AcquaintInv'
  BY <1>3, DropAcquaint
<1> QED
  BY <1>1, <1>2, <1>3 DEF Serve

\* A worker posts an event to its own peer.
LEMMA EventFlow ==
    ASSUME TypeOK, NEW p \in Peers, NEW i \in DOMAIN executing[p],
           NEW type \in {"Updated", "Finished"}, Emit(p, EmptyBag, <<JobNote(p, p, type, i)>>)
    PROVE  InFlight' \subseteq InFlight \cup {JobNote(p, p, type, i)}
<1> DEFINE note == JobNote(p, p, type, i)
           self == <<note>>
<1>1. note \in Posts(p)
  BY Made DEF Posts, JobNote, TypeOK, FiniteMap
<1> HIDE DEF note
<1>2. self \in Seq(Posts(p)) /\ Range(self) = {note}
  BY <1>1 DEF Range
<1>3. Emit(p, EmptyBag, self)
  BY DEF note
<1> HIDE DEF self
<1> QED
  BY <1>2, <1>3, EmitFlow, EmptyIsBag DEF note

LEMMA WorkerAcquaint ==
    ASSUME TypeOK, AcquaintInv, NEW p \in Peers, NEW i \in DOMAIN executing[p],
           WorkerUpdate(p, i) \/ WorkerFinish(p, i) \/ NoExecutorTerminates(p, i)
    PROVE  AcquaintInv'
<1>1. ASSUME NEW type \in {"Updated", "Finished"}, Emit(p, EmptyBag, <<JobNote(p, p, type, i)>>)
      PROVE  NewsFriendly
  <2>1. \A x : x = JobNote(p, p, type, i) => Friendly(x)'
    BY DEF Friendly, JobNote, WorkTypes
  <2> QED
    BY <1>1, <2>1, EventFlow DEF NewsFriendly
<1>2. CASE WorkerUpdate(p, i)
  BY <1>1, <1>2, BooksKept DEF WorkerUpdate, peerVars
<1>3. CASE WorkerFinish(p, i)
  <2>1. /\ executing' = [executing EXCEPT ![p][i] = [executing[p][i] EXCEPT !.done = TRUE]]
        /\ UNCHANGED <<status, known, jobs, queue, avail>>
    BY <1>3 DEF WorkerFinish
  <2> DEFINE job == [executing[p][i] EXCEPT !.done = TRUE]
  <2>2. job.owner = executing[p][i].owner
    BY DEF TypeOK, FiniteMap, RunningJob
  <2>3. executing' = [executing EXCEPT ![p][i] = job]
    BY <2>1
  <2> HIDE DEF job
  <2>4. \A q \in Peers : \A k \in DOMAIN executing'[q] :
            k \in DOMAIN executing[q] /\ executing'[q][k].owner = executing[q][k].owner
    BY <2>2, <2>3 DEF TypeOK
  <2>5. NewsFriendly
    BY <1>1, <1>3 DEF WorkerFinish
  <2>6. WorkFriendly /\ JobsFriendly /\ OffersFriendly /\ OffIdle
    BY <2>1, <2>4 DEF WorkFriendly, JobsFriendly, OffersFriendly, OffIdle
  <2> QED
    BY <2>1, <2>5, <2>6, SameKnown, AcquaintKept
<1>4. CASE NoExecutorTerminates(p, i)
  <2>1. UNCHANGED <<peerVars, posted, net>>
    BY <1>4 DEF NoExecutorTerminates
  <2>2. NewsFriendly
    BY <2>1 DEF NewsFriendly, InFlight
  <2>3. \A q \in Peers : status'[q] = "off" => status[q] = "off"
    BY <1>4 DEF NoExecutorTerminates, TypeOK
  <2> QED
    BY <2>1, <2>2, <2>3, BooksKept DEF peerVars
<1> QED
  BY <1>2, <1>3, <1>4

LEMMA ExpireAcquaint ==
    ASSUME TypeOK, AcquaintInv, NEW p \in Peers, NEW j \in DOMAIN jobs[p], Expire(p, j)
    PROVE  AcquaintInv'
<1> DEFINE job == [jobs[p][j] EXCEPT !.stale = TRUE]
<1>1. job.exec = jobs[p][j].exec
  BY DEF TypeOK, FiniteMap, OwnedJob
<1>2. jobs' = [jobs EXCEPT ![p][j] = job]
  BY DEF Expire
<1>3. UNCHANGED <<status, known, queue, executing, avail, posted, net>>
  BY DEF Expire
<1> HIDE DEF job
<1>4. \A q \in Peers : \A k \in DOMAIN jobs'[q] :
          k \in DOMAIN jobs[q] /\ jobs'[q][k].exec = jobs[q][k].exec
  BY <1>1, <1>2 DEF TypeOK
<1>5. NewsFriendly
  BY <1>3 DEF NewsFriendly, InFlight
<1>6. WorkFriendly /\ JobsFriendly /\ OffersFriendly /\ OffIdle
  BY <1>3, <1>4 DEF WorkFriendly, JobsFriendly, OffersFriendly, OffIdle
<1> QED
  BY <1>3, <1>5, <1>6, SameKnown, AcquaintKept

LEMMA OnStatusCheckAcquaint ==
    ASSUME TypeOK, AcquaintInv, NEW p \in Peers, OnStatusCheck(p)
    PROVE  AcquaintInv'
<1> DEFINE Ads == {AvailableWork(p, q, k) : q \in known[p] \cup {p}, k \in Nat}
<1>1. /\ UNCHANGED <<status, known, jobs, executing, avail>>
      /\ Alive(p)
  BY DEF OnStatusCheck
<1>2. /\ InFlight' \subseteq InFlight \cup StatusPings(p) \cup Retractions(p) \cup Ads
      /\ \A q \in Peers : q # p => queue'[q] = queue[q]
  BY OnStatusCheckFlow
<1>3. ASSUME NEW x \in StatusPings(p) \cup Ads
      PROVE  Friendly(x)'
  <2>1. x.type \in {"Ping", "AvailableWork"} /\ x.src = p /\ x.dst \in known[p] \cup {p}
    BY <1>3 DEF StatusPings, Ping, AvailableWork
  <2> QED
    BY <1>1, <2>1 DEF Friendly, WorkTypes
<1>4. ASSUME NEW x \in Retractions(p)
      PROVE  Friendly(x)'
  <2>1. PICK j \in StaleJobs(p) : x = JobNote(p, jobs[p][j].exec, "CancelJob", j)
    BY <1>4 DEF Retractions
  <2>2. j \in DOMAIN jobs[p] /\ jobs[p][j].exec # None
    BY DEF StaleJobs
  <2>3. Mutual(p, jobs[p][j].exec)
    BY <2>2 DEF AcquaintInv
  <2>4. x.type = "CancelJob" /\ x.src = p /\ x.dst = jobs[p][j].exec
    BY <2>1 DEF JobNote
  <2>5. Mutual(x.src, x.dst)
    BY <2>3, <2>4
  <2> QED
    BY <1>1, <2>4, <2>5 DEF Friendly, WorkTypes, Mutual
<1>5. NewsFriendly
  BY <1>2, <1>3, <1>4 DEF NewsFriendly
<1>6. OffIdle
  <2>1. status'[p] # "off"
    BY <1>1 DEF Alive
  <2> QED
    BY <1>1, <1>2, <2>1 DEF OffIdle
<1>7. WorkFriendly /\ JobsFriendly /\ OffersFriendly
  BY <1>1 DEF WorkFriendly, JobsFriendly, OffersFriendly
<1> QED
  BY <1>1, <1>5, <1>6, <1>7, SameKnown, AcquaintKept

LEMMA EnvironmentAcquaint ==
    ASSUME TypeOK, AcquaintInv,
           \/ \E p \in Peers : Start(p) \/ Crash(p)
           \/ \E c \in Clients : PostJob(c) \/ \E p \in Peers : Register(c, p)
    PROVE  AcquaintInv'
<1>1. ASSUME NEW p \in Peers, Start(p)
      PROVE  AcquaintInv'
  <2> DEFINE pings == {Ping(p, q, {}) : q \in Contacts[p]}
  <2>1. IsABag(SetToBag(pings)) /\ DOMAIN SetToBag(pings) = pings
    BY SetIsBag
  <2>2. << >> \in Seq(Posts(p)) /\ Range(<< >>) = {}
    BY DEF Range
  <2>3. Emit(p, SetToBag(pings), << >>) /\ UNCHANGED peerVars
    BY <1>1 DEF Start
  <2>4. InFlight' \subseteq InFlight \cup pings
    BY <2>1, <2>2, <2>3, EmitFlow
  <2>5. ASSUME NEW x \in pings
        PROVE  Friendly(x)'
    <3>1. queue[p] = << >>
      BY <1>1 DEF AcquaintInv, Start
    <3>2. x.type = "Ping" /\ x.count = 0
      BY <3>1 DEF Ping
    <3> QED
      BY <3>2 DEF Friendly, WorkTypes
  <2>6. NewsFriendly
    BY <2>4, <2>5 DEF NewsFriendly
  <2>7. \A q \in Peers : status'[q] = "off" => status[q] = "off"
    BY <1>1 DEF Start, TypeOK
  <2> QED
    BY <2>3, <2>6, <2>7, BooksKept DEF peerVars
<1>2. ASSUME NEW p \in Peers, Crash(p)
      PROVE  AcquaintInv'
  <2>1. UNCHANGED <<peerVars, posted, net>>
    BY <1>2 DEF Crash
  <2>2. NewsFriendly
    BY <2>1 DEF NewsFriendly, InFlight
  <2>3. \A q \in Peers : status'[q] = "off" => status[q] = "off"
    BY <1>2 DEF Crash, TypeOK
  <2> QED
    BY <2>1, <2>2, <2>3, BooksKept DEF peerVars
<1>3. ASSUME NEW c \in Clients, PostJob(c)
      PROVE  AcquaintInv'
  <2>1. PICK m : m = [src |-> c, dst |-> home[c], type |-> "Post"]
    OBVIOUS
  <2> DEFINE letter == SetToBag({m})
  <2>2. net' = net (+) letter /\ UNCHANGED <<status, peerVars, posted>>
    BY <1>3, <2>1 DEF PostJob
  <2>3. IsABag(letter) /\ DOMAIN letter = {m}
    BY SetIsBag
  <2> HIDE DEF letter
  <2>4. DOMAIN (net (+) letter) = DOMAIN net \cup DOMAIN letter
    BY <2>3, SumIsBag DEF TypeOK
  <2>5. InFlight' \subseteq InFlight \cup {m}
    BY <2>2, <2>3, <2>4 DEF InFlight
  <2>6. m.type = "Post"
    BY <2>1
  <2>7. Friendly(m)'
    BY <2>6 DEF Friendly, WorkTypes
  <2>8. NewsFriendly
    BY <2>5, <2>7 DEF NewsFriendly
  <2> QED
    BY <2>2, <2>8, BooksKept DEF peerVars
<1>4. ASSUME NEW c \in Clients, NEW p \in Peers, Register(c, p)
      PROVE  AcquaintInv'
  <2>1. UNCHANGED <<status, peerVars, posted, net>>
    BY <1>4 DEF Register
  <2>2. NewsFriendly
    BY <2>1 DEF NewsFriendly, InFlight
  <2> QED
    BY <2>1, <2>2, BooksKept DEF peerVars
<1> QED
  BY <1>1, <1>2, <1>3, <1>4

LEMMA NextAcquaint == TypeOK /\ AcquaintInv /\ [Next]_vars => AcquaintInv'
<1> SUFFICES ASSUME TypeOK, AcquaintInv, [Next]_vars
             PROVE  AcquaintInv'
  OBVIOUS
<1>1. ASSUME NEW p \in Peers, Work(p)
      PROVE  AcquaintInv'
  BY <1>1, WorkerAcquaint DEF Work
<1>2. ASSUME NEW p \in Peers, NEW i \in DOMAIN executing[p], WorkerUpdate(p, i)
      PROVE  AcquaintInv'
  BY <1>2, WorkerAcquaint
<1>3. ASSUME NEW m \in DOMAIN net, Lose(m)
      PROVE  AcquaintInv'
  BY <1>3, DropAcquaint
<1>4. CASE UNCHANGED vars
  <2>1. UNCHANGED <<status, peerVars, posted, net>>
    BY <1>4 DEF vars, peerVars
  <2>2. NewsFriendly
    BY <2>1 DEF NewsFriendly, InFlight
  <2> QED
    BY <2>1, <2>2, BooksKept DEF peerVars
<1> QED
  BY <1>1, <1>2, <1>3, <1>4, ServeAcquaint, OnStatusCheckAcquaint, ExpireAcquaint,
     EnvironmentAcquaint DEF Next

LEMMA InitAcquaint == Init => AcquaintInv
<1> SUFFICES ASSUME Init
             PROVE  AcquaintInv
  OBVIOUS
<1>1. \A p \in Peers : DOMAIN jobs[p] = {} /\ DOMAIN executing[p] = {}
  BY DEF Init, Idle, EmptyMap
<1>2. \A p, q \in Peers : avail[p][q] = 0
  BY DEF Init, Idle, NoAsk
<1>3. InFlight = {}
  <2>1. DOMAIN net = {}
    BY EmptyIsBag DEF Init, Idle
  <2>2. \A p \in Peers : Range(posted[p]) = {}
    BY DEF Init, Idle, Range
  <2> QED
    BY <2>1, <2>2 DEF InFlight
<1>4. \A p \in Peers : queue[p] = << >>
  BY DEF Init, Idle
<1> QED
  BY <1>1, <1>2, <1>3, <1>4 DEF AcquaintInv

\* No message that moves a job is ignored by its receiver as one from an unknown peer,
\* whatever order pings, requests and jobs arrive in and whoever crashes.
THEOREM WorkIsNeverIgnored == Spec => []NoWorkIgnored
<1>1. TypeOK /\ AcquaintInv => NoWorkIgnored
  <2> SUFFICES ASSUME TypeOK, AcquaintInv, NEW m \in DOMAIN net, m.type \in WorkTypes
               PROVE  m.src \in known[m.dst]
    BY DEF NoWorkIgnored
  <2>1. Mutual(m.src, m.dst)
    BY DEF AcquaintInv, Friendly, InFlight
  <2>2. m.src # m.dst
    BY DEF TypeOK, Parcels
  <2> QED
    BY <2>1, <2>2 DEF Mutual
<1> QED
  BY <1>1, InitType, NextType, InitAcquaint, NextAcquaint, PTL DEF Spec

-----------------------------------------------------------------------------
(* Worker threads report on jobs there are. *)

\* The events of p's workers name jobs in progress; a Finished event is the last one of
\* its job, whose executor has returned.
EventOrder(p) ==
    /\ \A i \in DOMAIN executing[p] : i < nextId[p]
    /\ \A k \in DOMAIN posted[p] : IsEvent(posted[p][k]) => posted[p][k].id \in DOMAIN executing[p]
    /\ \A k \in DOMAIN posted[p] : posted[p][k].type = "Finished" =>
           /\ executing[p][posted[p][k].id].done
           /\ \A l \in DOMAIN posted[p] :
                  l > k /\ IsEvent(posted[p][l]) => posted[p][l].id # posted[p][k].id

EventInv == \A p \in Peers : EventOrder(p) /\ status[p] # "assert_local"

\* Jobs in progress stay in progress.
WorkGoesOn(p) ==
    /\ \A i \in DOMAIN executing[p] :
           /\ i \in DOMAIN executing'[p]
           /\ executing[p][i].done => executing'[p][i].done
    /\ \A i \in DOMAIN executing'[p] : i < nextId'[p]

LEMMA EventsKept ==
    ASSUME TypeOK, NEW p \in Peers, EventOrder(p), NEW d \in {0, 1}, EventsGoOn(p, d), WorkGoesOn(p)
    PROVE  EventOrder(p)'
<1>1. \A k \in DOMAIN posted'[p] : IsEvent(posted'[p][k]) =>
          k \in Nat /\ k + d \in DOMAIN posted[p] /\ posted'[p][k] = posted[p][k + d]
  BY DEF EventsGoOn
<1>2. ASSUME NEW k \in DOMAIN posted'[p], IsEvent(posted'[p][k])
      PROVE  posted'[p][k].id \in DOMAIN executing'[p]
  BY <1>1, <1>2 DEF EventOrder, WorkGoesOn
<1>3. ASSUME NEW k \in DOMAIN posted'[p], posted'[p][k].type = "Finished"
      PROVE  executing'[p][posted'[p][k].id].done
  <2>1. IsEvent(posted'[p][k])
    BY <1>3 DEF IsEvent
  <2> QED
    BY <1>1, <1>3, <2>1 DEF EventOrder, WorkGoesOn
<1>4. ASSUME NEW k \in DOMAIN posted'[p], posted'[p][k].type = "Finished",
             NEW l \in DOMAIN posted'[p], l > k, IsEvent(posted'[p][l])
      PROVE  posted'[p][l].id # posted'[p][k].id
  <2>1. IsEvent(posted'[p][k])
    BY <1>4 DEF IsEvent
  <2>2. l + d > k + d
    BY <1>1, <1>4, <2>1
  <2> QED
    BY <1>1, <1>4, <2>1, <2>2 DEF EventOrder
<1> QED
  BY <1>2, <1>3, <1>4 DEF EventOrder, WorkGoesOn

\* A handler that leaves the jobs in progress alone.
LEMMA QuietStep ==
    ASSUME TypeOK, EventInv, NEW p \in Peers, NEW m, GoOn(p, m),
           \A q \in Peers : WorkGoesOn(q), \A q \in Peers : status'[q] # "assert_local"
    PROVE  EventInv'
<1>1. ASSUME NEW q \in Peers
      PROVE  EventOrder(q)'
  <2>1. PICK d \in {0, 1} : EventsGoOn(q, d)
    BY DEF GoOn
  <2> QED
    BY <2>1, EventsKept DEF EventInv
<1> QED
  BY <1>1 DEF EventInv

LEMMA SameWork ==
    ASSUME EventInv, UNCHANGED <<executing, nextId>>
    PROVE  \A q \in Peers : WorkGoesOn(q)
BY DEF EventInv, EventOrder, WorkGoesOn

LEMMA DieEvents ==
    ASSUME TypeOK, EventInv, NEW p \in Peers, NEW m, Received(p, m),
           NEW cause, cause # "assert_local", Die(m, cause)
    PROVE  EventInv'
<1>1. Consume(m) /\ UNCHANGED <<executing, nextId>>
      /\ status' = [status EXCEPT ![m.dst] = cause]
  BY DEF Die, peerVars
<1>2. \A q \in Peers : status'[q] # "assert_local"
  BY <1>1 DEF EventInv, TypeOK
<1> QED
  BY <1>1, <1>2, ConsumeFlow, SameWork, QuietStep

\* The handlers that end with look_for_work.
LEMMA AskingEvents ==
    ASSUME TypeOK, EventInv, NEW p \in Peers, NEW m, Received(p, m),
           OnAvailableWork(p, m) \/ OnNotifiedNoJobs(p, m)
    PROVE  EventInv'
<1>1. PICK av, op : \E ask \in Asked(p, av, op, executing[p]) :
        Exchange(p, m, Requests(p, ask), OwnRequest(p, ask))
  BY DEF OnAvailableWork, OnNotifiedNoJobs
<1>2. UNCHANGED <<status, executing, nextId>>
  BY DEF OnAvailableWork, OnNotifiedNoJobs
<1>3. GoOn(p, m)
  BY <1>1, AskType, OnlyAskFlow
<1> QED
  BY <1>2, <1>3, SameWork, QuietStep DEF EventInv

LEMMA OnPingEvents ==
    ASSUME TypeOK, EventInv, NEW p \in Peers, NEW m, Received(p, m), OnPing(p, m)
    PROVE  EventInv'
<1> DEFINE pings == SetToBag({Ping(p, q, Acquaintance(p, m)) : q \in Newcomers(p, m)})
           av == [avail[p] EXCEPT ![m.src] = m.count]
<1>1. CASE Die(m, "assert_ping")
  BY <1>1, DieEvents
<1>2. CASE ~Die(m, "assert_ping")
  <2>1. PICK ask \in Asked(p, av, open[p], executing[p]) :
          Exchange(p, m, pings (+) Requests(p, ask), OwnRequest(p, ask))
    BY <1>2 DEF OnPing
  <2>2. UNCHANGED <<status, executing, nextId>>
    BY <1>2 DEF OnPing
  <2>3. IsABag(pings)
    BY SetIsBag
  <2> HIDE DEF pings, av
  <2>4. GoOn(p, m)
    BY <2>1, <2>3, AskType, AskFlow
  <2> QED
    BY <2>2, <2>4, SameWork, QuietStep DEF EventInv
<1> QED
  BY <1>1, <1>2

LEMMA OnReceiveJobEvents ==
    ASSUME TypeOK, EventInv, NEW p \in Peers, NEW m, Received(p, m), m.type = "DelegateJob",
           OnReceiveJob(p, m)
    PROVE  EventInv'
<1>1. Consume(m) /\ UNCHANGED status
  BY DEF OnReceiveJob
<1>2. GoOn(p, m)
  BY <1>1, ConsumeFlow
<1>3. \A q \in Peers : WorkGoesOn(q)
  <2>1. CASE UNCHANGED <<executing, nextId>>
    BY <2>1, SameWork
  <2>2. CASE ~UNCHANGED <<executing, nextId>>
    <3> DEFINE k == nextId[p]
               job == [owner |-> m.src, id |-> m.id, desc |-> m.desc, done |-> FALSE]
    <3>1. /\ executing' = [executing EXCEPT ![p] =
                [i \in DOMAIN executing[p] \cup {k} |-> IF i = k THEN job ELSE executing[p][i]]]
          /\ nextId' = [nextId EXCEPT ![p] = k + 1]
      BY <2>2 DEF OnReceiveJob, InProgressId
    <3> HIDE DEF job
    <3>2. /\ DOMAIN executing'[p] = DOMAIN executing[p] \cup {k}
          /\ \A i \in DOMAIN executing[p] : i # k => executing'[p][i] = executing[p][i]
          /\ nextId'[p] = k + 1
      BY <3>1 DEF TypeOK
    <3>3. k \in Nat /\ \A i \in DOMAIN executing[p] : i \in Nat /\ i < k
      BY DEF TypeOK, EventInv, EventOrder, FiniteMap, JobIds
    <3> HIDE DEF k
    <3>4. \A i \in DOMAIN executing[p] :
              i \in DOMAIN executing'[p] /\ executing'[p][i] = executing[p][i]
      BY <3>2, <3>3
    <3>5. \A i \in DOMAIN executing'[p] : i < nextId'[p]
      BY <3>2, <3>3
    <3>6. WorkGoesOn(p)
      BY <3>4, <3>5 DEF WorkGoesOn
    <3>7. \A q \in Peers : q # p => executing'[q] = executing[q] /\ nextId'[q] = nextId[q]
      BY <3>1 DEF TypeOK
    <3>8. \A q \in Peers : q # p => WorkGoesOn(q)
      BY <3>7 DEF WorkGoesOn, EventInv, EventOrder
    <3> QED
      BY <3>6, <3>8
  <2> QED
    BY <2>1, <2>2
<1> QED
  BY <1>1, <1>2, <1>3, QuietStep DEF EventInv

LEMMA OtherEvents ==
    ASSUME TypeOK, EventInv, NEW p \in Peers, NEW m, Received(p, m),
           \/ m.type = "RequestJobs" /\ OnJobRequest(p, m)
           \/ OnDelegatedJobUpdate(p, m)
           \/ OnDelegatedJobCompleted(p, m)
           \/ OnJobRetracted(p, m)
    PROVE  EventInv'
<1>1. ASSUME NEW cause \in {"assert_update", "assert_completed"}, Die(m, cause)
      PROVE  EventInv'
  BY <1>1, DieEvents
<1>2. ASSUME GoOn(p, m), UNCHANGED <<status, executing, nextId>>
      PROVE  EventInv'
  BY <1>2, SameWork, QuietStep DEF EventInv
<1>3. CASE m.type = "RequestJobs" /\ OnJobRequest(p, m)
  <2>1. UNCHANGED <<status, executing, nextId>>
    BY <1>3 DEF OnJobRequest
  <2> QED
    BY <1>2, <1>3, <2>1, OnJobRequestFlow
<1>4. CASE OnDelegatedJobUpdate(p, m)
  BY <1>1, <1>2, <1>4, ConsumeFlow DEF OnDelegatedJobUpdate, peerVars
<1>5. CASE OnDelegatedJobCompleted(p, m)
  BY <1>1, <1>2, <1>5, ConsumeFlow DEF OnDelegatedJobCompleted
<1>6. CASE OnJobRetracted(p, m)
  BY <1>2, <1>6, ConsumeFlow DEF OnJobRetracted, peerVars
<1> QED
  BY <1>3, <1>4, <1>5, <1>6

LEMMA OnClientJobRequestEvents ==
    ASSUME TypeOK, EventInv, NEW p \in Peers, NEW m, Received(p, m), m.type = "Post",
           OnClientJobRequest(p, m)
    PROVE  EventInv'
<1>1. /\ UNCHANGED <<status, executing>>
      /\ nextId' = [nextId EXCEPT ![p] = nextId[p] + 1]
  BY DEF OnClientJobRequest
<1>2. \A q \in Peers : nextId'[q] \in Nat /\ nextId[q] \in Nat /\ nextId'[q] >= nextId[q]
  <2>1. nextId \in [Peers -> Nat]
    BY DEF TypeOK
  <2> SUFFICES ASSUME NEW q \in Peers
               PROVE  nextId'[q] \in Nat /\ nextId[q] \in Nat /\ nextId'[q] >= nextId[q]
    OBVIOUS
  <2>2. nextId[q] \in Nat /\ nextId'[q] \in {nextId[q], nextId[q] + 1}
    BY <1>1, <2>1
  <2> QED
    BY <2>2
<1>3. \A q \in Peers : \A i \in DOMAIN executing[q] : i \in Nat /\ i < nextId'[q]
  <2>1. \A q \in Peers : \A i \in DOMAIN executing[q] : i \in Nat
    BY DEF TypeOK, FiniteMap, JobIds
  <2>2. \A q \in Peers : \A i \in DOMAIN executing[q] : i < nextId[q]
    BY DEF EventInv, EventOrder
  <2> QED
    BY <1>2, <2>1, <2>2
<1>4. \A q \in Peers : WorkGoesOn(q)
  BY <1>1, <1>3 DEF WorkGoesOn
<1> QED
  BY <1>1, <1>4, OnClientJobRequestFlow, QuietStep DEF EventInv

\* A peer handles its workers' events in their order.
LEMMA OldestPost ==
    ASSUME TypeOK, NEW p \in Peers, posted[p] # << >>
    PROVE  1 \in DOMAIN posted[p] /\ Head(posted[p]) = posted[p][1]
BY DEF TypeOK

LEMMA OnJobUpdateEvents ==
    ASSUME TypeOK, EventInv, NEW p \in Peers, NEW m, Received(p, m), posted[p] # << >>,
           m = Head(posted[p]), m.type = "Updated", OnJobUpdate(p, m)
    PROVE  EventInv'
<1>1. m.id \in DOMAIN executing[p]
  BY OldestPost DEF EventInv, EventOrder, IsEvent
<1> DEFINE job == executing[p][m.id]
<1>2. Report(p, m, "JobUpdate", job, NoAsk) /\ UNCHANGED <<status, executing, nextId>>
  BY <1>1 DEF OnJobUpdate, peerVars
<1>3. NoAsk \in [Peers -> Nat] /\ job \in RunningJob
  BY <1>1 DEF NoAsk, TypeOK, FiniteMap
<1> HIDE DEF job
<1>4. GoOn(p, m)
  BY <1>2, <1>3, ReportFlow
<1> QED
  BY <1>2, <1>4, SameWork, QuietStep DEF EventInv

LEMMA OnJobProcessingCompletedEvents ==
    ASSUME TypeOK, EventInv, NEW p \in Peers, NEW m, Received(p, m), Local(m), posted[p] # << >>,
           m = Head(posted[p]), m.type = "Finished", OnJobProcessingCompleted(p, m)
    PROVE  EventInv'
<1>1. 1 \in DOMAIN posted[p] /\ m = posted[p][1] /\ IsEvent(m)
  BY OldestPost DEF IsEvent
<1>2. m.id \in DOMAIN executing[p]
  BY <1>1 DEF EventInv, EventOrder
<1> DEFINE job == executing[p][m.id]
           rest == [i \in DOMAIN executing[p] \ {m.id} |-> executing[p][i]]
<1>3. /\ executing' = [executing EXCEPT ![p] = rest] /\ UNCHANGED <<status, nextId>>
      /\ \E ask \in Asked(p, avail[p], open[p], rest) : Report(p, m, "JobCompleted", job, ask)
  BY <1>2 DEF OnJobProcessingCompleted
<1>4. job \in RunningJob
  BY <1>2 DEF TypeOK, FiniteMap
<1>5. /\ DOMAIN executing'[p] = DOMAIN executing[p] \ {m.id}
      /\ \A i \in DOMAIN executing'[p] : executing'[p][i] = executing[p][i]
      /\ \A q \in Peers : q # p => executing'[q] = executing[q]
  BY <1>3 DEF TypeOK
<1> HIDE DEF job, rest
<1>6. GoOn(p, m)
  BY <1>3, <1>4, AskType, ReportFlow
<1>7. ASSUME NEW q \in Peers, q # p
      PROVE  EventOrder(q)'
  <2>1. EventsGoOn(q, 0)
    BY <1>6, <1>7 DEF GoOn
  <2>2. WorkGoesOn(q)
    BY <1>3, <1>5, <1>7 DEF WorkGoesOn, EventInv, EventOrder
  <2> QED
    BY <2>1, <2>2, EventsKept DEF EventInv
<1>8. EventOrder(p)'
  <2>1. EventOrder(p) /\ EventsGoOn(p, 1)
    BY <1>6 DEF GoOn, EventInv
  <2>2. \A k \in DOMAIN posted'[p] : IsEvent(posted'[p][k]) =>
            k \in Nat /\ k > 0 /\ k + 1 \in DOMAIN posted[p] /\ posted'[p][k] = posted[p][k + 1]
    BY <2>1 DEF EventsGoOn
  <2>3. ASSUME NEW k \in DOMAIN posted'[p], IsEvent(posted'[p][k])
        PROVE  posted'[p][k].id \in DOMAIN executing'[p]
    <3>1. k + 1 > 1
      BY <2>2, <2>3
    <3>2. posted'[p][k].id # m.id
      BY <1>1, <2>1, <2>2, <2>3, <3>1 DEF EventOrder
    <3> QED
      BY <1>5, <2>1, <2>2, <2>3, <3>2 DEF EventOrder
  <2>4. ASSUME NEW k \in DOMAIN posted'[p], posted'[p][k].type = "Finished"
        PROVE  executing'[p][posted'[p][k].id].done
    <3>1. IsEvent(posted'[p][k])
      BY <2>4 DEF IsEvent
    <3> QED
      BY <1>5, <2>1, <2>2, <2>3, <2>4, <3>1 DEF EventOrder
  <2>5. ASSUME NEW k \in DOMAIN posted'[p], posted'[p][k].type = "Finished",
               NEW l \in DOMAIN posted'[p], l > k, IsEvent(posted'[p][l])
        PROVE  posted'[p][l].id # posted'[p][k].id
    <3>1. IsEvent(posted'[p][k])
      BY <2>5 DEF IsEvent
    <3>2. l + 1 > k + 1
      BY <2>2, <2>5, <3>1
    <3> QED
      BY <2>1, <2>2, <2>5, <3>1, <3>2 DEF EventOrder
  <2>6. \A i \in DOMAIN executing'[p] : i < nextId'[p]
    BY <1>3, <1>5, <2>1 DEF EventOrder
  <2> QED
    BY <2>3, <2>4, <2>5, <2>6 DEF EventOrder
<1> QED
  BY <1>3, <1>7, <1>8 DEF EventInv

LEMMA DropEvents ==
    ASSUME TypeOK, EventInv, NEW m \in DOMAIN net, Lose(m) \/ Discard(m)
    PROVE  EventInv'
<1>1. m.dst \in Peers /\ Received(m.dst, m)
  BY DEF TypeOK, Parcels, Received, Incoming, Local, Message, ClientPost
<1>2. Consume(m) /\ UNCHANGED <<status, executing, nextId>>
  BY DEF Lose, Discard, peerVars
<1> QED
  BY <1>1, <1>2, ConsumeFlow, SameWork, QuietStep DEF EventInv

LEMMA PeerMessageEvents ==
    ASSUME TypeOK, EventInv, NEW p \in Peers, NEW m, Received(p, m), OnReceivePeerMessage(p, m)
    PROVE  EventInv'
BY AskingEvents, OnReceiveJobEvents, OtherEvents DEF OnReceivePeerMessage

LEMMA ServeEvents ==
    ASSUME TypeOK, EventInv, NEW p \in Peers, Serve(p)
    PROVE  EventInv'
<1>1. CASE RunPosted(p)
  <2> DEFINE m == Head(posted[p])
  <2>1. m \in Posts(p) /\ posted[p] # << >>
    BY <1>1 DEF RunPosted, TypeOK
  <2>2. Received(p, m) /\ Local(m) /\ m = Head(posted[p])
    BY <2>1 DEF Posts, Received, Incoming, Local
  <2>3. \/ OnReceivePeerMessage(p, m)
        \/ m.type = "Updated" /\ OnJobUpdate(p, m)
        \/ m.type = "Finished" /\ OnJobProcessingCompleted(p, m)
    BY <1>1 DEF RunPosted
  <2> HIDE DEF m
  <2> QED
    BY <2>1, <2>2, <2>3, PeerMessageEvents, OnJobUpdateEvents, OnJobProcessingCompletedEvents
<1>2. ASSUME NEW m \in DOMAIN net, m.dst = p, Deliver(m)
      PROVE  EventInv'
  <2>1. Received(p, m)
    BY <1>2 DEF TypeOK, Parcels, Received, Incoming, Local
  <2>2. \/ OnPing(p, m)
        \/ m.type = "Post" /\ OnClientJobRequest(p, m)
        \/ OnReceivePeerMessage(p, m)
    BY <1>2 DEF Deliver
  <2> QED
    BY <2>1, <2>2, PeerMessageEvents, OnPingEvents, OnClientJobRequestEvents
<1>3. ASSUME NEW m \in DOMAIN net, Discard(m)
      PROVE  EventInv'
  BY <1>3, DropEvents
<1> QED
  BY <1>1, <1>2, <1>3 DEF Serve

\* An executor calls back or returns: the event it posts is the newest.
LEMMA WorkerEvents ==
    ASSUME TypeOK, EventInv, NEW p \in Peers, NEW i \in DOMAIN executing[p],
           WorkerUpdate(p, i) \/ WorkerFinish(p, i)
    PROVE  EventInv'
<1>1. PICK type \in {"Updated", "Finished"} :
        /\ Emit(p, EmptyBag, <<JobNote(p, p, type, i)>>)
        /\ type = "Finished" => WorkerFinish(p, i)
  BY DEF WorkerUpdate, WorkerFinish
<1>2. PICK note : note = JobNote(p, p, type, i)
  OBVIOUS
<1>3. note.type = type /\ note.id = i /\ IsEvent(note)
  BY <1>2 DEF JobNote, IsEvent
<1>4. posted' = [posted EXCEPT ![p] = Append(posted[p], note)]
  <2>1. posted' = [posted EXCEPT ![p] = posted[p] \o <<note>>]
    BY <1>1, <1>2 DEF Emit
  <2>2. posted[p] \o <<note>> = Append(posted[p], note)
    BY DEF TypeOK
  <2> QED
    BY <2>1, <2>2
<1>5. PICK n \in Nat :
        /\ DOMAIN posted[p] = 1..n /\ DOMAIN posted'[p] = 1..(n + 1)
        /\ posted'[p][n + 1] = note /\ \A k \in 1..n : posted'[p][k] = posted[p][k]
  <2>1. note \in Posts(p)
    BY <1>2, Made DEF Posts, JobNote, TypeOK, FiniteMap
  <2> DEFINE longer == Append(posted[p], note)
             n == Len(posted[p])
  <2>2. /\ n \in Nat /\ DOMAIN posted[p] = 1..n /\ DOMAIN longer = 1..(n + 1)
        /\ longer[n + 1] = note /\ \A k \in 1..n : longer[k] = posted[p][k]
    BY <2>1 DEF TypeOK
  <2>3. posted'[p] = longer
    BY <1>4 DEF TypeOK
  <2> HIDE DEF n, longer
  <2> QED
    BY <2>2, <2>3
<1>6. UNCHANGED <<status, nextId>> /\ ~executing[p][i].done
  BY DEF WorkerUpdate, WorkerFinish, Working, peerVars
<1>7. \A q \in Peers : WorkGoesOn(q)
  <2>1. CASE WorkerUpdate(p, i)
    BY <2>1, SameWork DEF WorkerUpdate, peerVars
  <2>2. CASE WorkerFinish(p, i)
    <3> DEFINE job == [executing[p][i] EXCEPT !.done = TRUE]
    <3>1. executing' = [executing EXCEPT ![p][i] = job]
      BY <2>2 DEF WorkerFinish
    <3>2. job.done
      BY DEF TypeOK, FiniteMap, RunningJob
    <3> HIDE DEF job
    <3>3. \A q \in Peers : DOMAIN executing'[q] = DOMAIN executing[q]
             /\ \A k \in DOMAIN executing[q] : executing[q][k].done => executing'[q][k].done
      BY <3>1, <3>2 DEF TypeOK
    <3> QED
      BY <1>6, <3>3 DEF WorkGoesOn, EventInv, EventOrder
  <2> QED
    BY <2>1, <2>2
<1>8. ASSUME NEW q \in Peers, q # p
      PROVE  EventOrder(q)'
  <2>1. posted'[q] = posted[q] /\ posted[q] \in Seq(Posts(q))
    BY <1>4, <1>8 DEF TypeOK
  <2>2. DOMAIN posted[q] \subseteq Nat \ {0} /\ \A k \in DOMAIN posted[q] : k + 0 = k
    BY <2>1
  <2>3. EventsGoOn(q, 0)
    BY <2>1, <2>2 DEF EventsGoOn
  <2> QED
    BY <1>7, <2>3, EventsKept DEF EventInv
<1>9. EventOrder(p)'
  <2>1. EventOrder(p) /\ WorkGoesOn(p)
    BY <1>7 DEF EventInv
  <2>2. ASSUME NEW k \in DOMAIN posted'[p], IsEvent(posted'[p][k])
        PROVE  posted'[p][k].id \in DOMAIN executing'[p]
    <3>1. CASE k \in 1..n
      BY <1>5, <2>1, <2>2, <3>1 DEF EventOrder, WorkGoesOn
    <3>2. CASE k = n + 1
      BY <1>3, <1>5, <2>1, <3>2 DEF WorkGoesOn
    <3> QED
      BY <1>5, <3>1, <3>2
  <2>3. ASSUME NEW k \in DOMAIN posted'[p], posted'[p][k].type = "Finished"
        PROVE  executing'[p][posted'[p][k].id].done
    <3>1. CASE k \in 1..n
      <4>1. IsEvent(posted[p][k]) /\ posted[p][k].type = "Finished"
        BY <1>5, <2>3, <3>1 DEF IsEvent
      <4> QED
        BY <1>5, <2>1, <3>1, <4>1 DEF EventOrder, WorkGoesOn
    <3>2. CASE k = n + 1
      <4>1. WorkerFinish(p, i)
        BY <1>1, <1>3, <1>5, <2>3, <3>2
      <4> DEFINE job == [executing[p][i] EXCEPT !.done = TRUE]
      <4>2. executing' = [executing EXCEPT ![p][i] = job]
        BY <4>1 DEF WorkerFinish
      <4>3. job.done
        BY DEF TypeOK, FiniteMap, RunningJob
      <4> HIDE DEF job
      <4>4. executing'[p][i].done
        BY <4>2, <4>3 DEF TypeOK
      <4> QED
        BY <1>3, <1>5, <3>2, <4>4
    <3> QED
      BY <1>5, <3>1, <3>2
  <2>4. ASSUME NEW k \in DOMAIN posted'[p], posted'[p][k].type = "Finished",
               NEW l \in DOMAIN posted'[p], l > k, IsEvent(posted'[p][l])
        PROVE  posted'[p][l].id # posted'[p][k].id
    <3>1. k \in 1..n
      BY <1>5, <2>4
    <3>2. IsEvent(posted[p][k]) /\ posted[p][k].type = "Finished" /\ posted'[p][k] = posted[p][k]
      BY <1>5, <2>4, <3>1 DEF IsEvent
    <3>3. CASE l \in 1..n
      BY <1>5, <2>1, <2>4, <3>1, <3>2, <3>3 DEF EventOrder
    <3>4. CASE l = n + 1
      <4>1. executing[p][posted[p][k].id].done
        BY <1>5, <2>1, <3>1, <3>2 DEF EventOrder
      <4> QED
        BY <1>3, <1>5, <1>6, <3>2, <3>4, <4>1
    <3> QED
      BY <1>5, <3>3, <3>4
  <2> QED
    BY <2>1, <2>2, <2>3, <2>4 DEF EventOrder, WorkGoesOn
<1> QED
  BY <1>6, <1>8, <1>9 DEF EventInv

\* Everything else leaves the posts of the workers where they are.
LEMMA StillEvents ==
    ASSUME TypeOK, EventInv, UNCHANGED <<executing, nextId>>,
           \A q \in Peers : EventsGoOn(q, 0) /\ status'[q] # "assert_local"
    PROVE  EventInv'
BY SameWork, EventsKept DEF EventInv

LEMMA UnchangedPosts ==
    ASSUME TypeOK, UNCHANGED posted
    PROVE  \A q \in Peers : EventsGoOn(q, 0)
<1> SUFFICES ASSUME NEW q \in Peers
             PROVE  EventsGoOn(q, 0)
  OBVIOUS
<1>1. posted[q] \in Seq(Posts(q))
  BY DEF TypeOK
<1>2. DOMAIN posted[q] \subseteq Nat \ {0} /\ \A k \in DOMAIN posted[q] : k + 0 = k
  BY <1>1
<1> QED
  BY <1>2 DEF EventsGoOn

LEMMA NextEvents == TypeOK /\ EventInv /\ [Next]_vars => EventInv'
<1> SUFFICES ASSUME TypeOK, EventInv, [Next]_vars
             PROVE  EventInv'
  OBVIOUS
<1>1. ASSUME NEW p \in Peers, NEW i \in DOMAIN executing[p], NoExecutorTerminates(p, i)
      PROVE  EventInv'
  <2>1. \A q \in Peers : status'[q] # "assert_local"
    BY <1>1 DEF NoExecutorTerminates, EventInv, TypeOK
  <2> QED
    BY <1>1, <2>1, UnchangedPosts, StillEvents DEF NoExecutorTerminates, peerVars
<1>2. ASSUME NEW p \in Peers, OnStatusCheck(p)
      PROVE  EventInv'
  <2>1. UNCHANGED <<status, executing, nextId>>
    BY <1>2 DEF OnStatusCheck
  <2> QED
    BY <1>2, <2>1, OnStatusCheckFlow, StillEvents DEF EventInv
<1>3. ASSUME NEW p \in Peers, NEW j \in DOMAIN jobs[p], Expire(p, j)
      PROVE  EventInv'
  BY <1>3, UnchangedPosts, StillEvents DEF Expire, EventInv
<1>4. ASSUME NEW p \in Peers, Start(p)
      PROVE  EventInv'
  <2> DEFINE pings == SetToBag({Ping(p, q, {}) : q \in Contacts[p]})
  <2>1. IsABag(pings) /\ << >> \in Seq(Posts(p)) /\ Quiet(<< >>)
    BY SetIsBag DEF Quiet
  <2>2. Emit(p, pings, << >>) /\ UNCHANGED <<executing, nextId>>
    BY <1>4 DEF Start, peerVars
  <2>3. \A q \in Peers : status'[q] # "assert_local"
    BY <1>4 DEF Start, EventInv, TypeOK
  <2> HIDE DEF pings
  <2>4. \A q \in Peers : EventsGoOn(q, 0)
    BY <2>1, <2>2, EmitFlow
  <2> QED
    BY <2>2, <2>3, <2>4, StillEvents
<1>5. ASSUME NEW p \in Peers, Crash(p)
      PROVE  EventInv'
  <2>1. \A q \in Peers : status'[q] # "assert_local"
    BY <1>5 DEF Crash, EventInv, TypeOK
  <2> QED
    BY <1>5, <2>1, UnchangedPosts, StillEvents DEF Crash, peerVars
<1>6. ASSUME NEW c \in Clients, PostJob(c) \/ \E p \in Peers : Register(c, p)
      PROVE  EventInv'
  BY <1>6, UnchangedPosts, StillEvents DEF PostJob, Register, peerVars, EventInv
<1>7. ASSUME NEW m \in DOMAIN net, Lose(m)
      PROVE  EventInv'
  BY <1>7, DropEvents
<1>8. CASE UNCHANGED vars
  BY <1>8, UnchangedPosts, StillEvents DEF vars, EventInv
<1> QED
  BY <1>1, <1>2, <1>3, <1>4, <1>5, <1>6, <1>7, <1>8, ServeEvents, WorkerEvents DEF Next, Work

LEMMA InitEvents == Init => EventInv
<1>1. Init => \A p \in Peers : /\ DOMAIN executing[p] = {} /\ DOMAIN posted[p] = {}
                               /\ status[p] # "assert_local"
  BY DEF Init, Idle, EmptyMap
<1> QED
  BY <1>1 DEF EventInv, EventOrder

\* The handlers of a worker's posts find the job and the thread they are about, for any
\* number of threads and however many updates an executor posts: on_job_update and
\* on_job_processing_completed never fail their assertions.
THEOREM WorkersReportOnTheirJobs == Spec => []LocalAssertionsHold
<1>1. EventInv => LocalAssertionsHold
  BY DEF EventInv, LocalAssertionsHold
<1> QED
  BY <1>1, InitEvents, InitType, NextType, NextEvents, PTL DEF Spec

-----------------------------------------------------------------------------
(* Ids are never confused. *)

\* j may be the id of a job p owns: it is drawn already, and not for a job in progress.
OwnId(p, j) == j < nextId[p] /\ j \notin DOMAIN executing[p]

\* IdsNeverCollide is not inductive: an id goes from the queue into a message, from there
\* on record at the worker, and back into the queue, and must be told apart all the way.
IdInv ==
    /\ \A p \in Peers : \A i \in DOMAIN executing[p] : i < nextId[p]
    /\ \A p \in Peers : \A j \in DOMAIN jobs[p] \cup Range(queue[p]) : OwnId(p, j)
    /\ \A m \in InFlight : m.type = "DelegateJob" => OwnId(m.src, m.id)
    /\ \A q \in Peers : \A i \in DOMAIN executing[q] :
           OwnId(executing[q][i].owner, executing[q][i].id)

\* What a step must show of what it changes.
DrawsFresh ==
    \A p \in Peers :
        /\ nextId'[p] >= nextId[p]
        /\ \A i \in DOMAIN executing'[p] :
               i \in DOMAIN executing[p] \/ (i = nextId[p] /\ nextId'[p] > nextId[p])
NewsOwned == \A m \in InFlight' : m \in InFlight \/ (m.type = "DelegateJob" => OwnId(m.src, m.id))
JobsOwned ==
    \A p \in Peers : \A j \in DOMAIN jobs'[p] \cup Range(queue'[p]) :
        j \in DOMAIN jobs[p] \cup Range(queue[p]) \/ OwnId(p, j)'
WorkOwned ==
    \A q \in Peers : \A i \in DOMAIN executing'[q] :
        \/ /\ i \in DOMAIN executing[q]
           /\ executing'[q][i].owner = executing[q][i].owner
           /\ executing'[q][i].id = executing[q][i].id
        \/ /\ executing'[q][i].owner \in Peers /\ executing'[q][i].id \in Nat
           /\ OwnId(executing'[q][i].owner, executing'[q][i].id)

LEMMA IdsKept ==
    ASSUME TypeOK, IdInv, DrawsFresh, NewsOwned, JobsOwned, WorkOwned, TypeOK'
    PROVE  IdInv'
<1>1. ASSUME NEW p \in Peers
      PROVE  /\ nextId[p] \in Nat /\ nextId'[p] \in Nat
             /\ DOMAIN executing[p] \subseteq Nat /\ DOMAIN jobs[p] \subseteq Nat
             /\ Range(queue[p]) \subseteq Nat
  BY RangeOfSeq DEF TypeOK, FiniteMap, JobIds
<1>2. ASSUME NEW p \in Peers, NEW j \in Nat, OwnId(p, j)
      PROVE  j < nextId'[p] /\ j \notin DOMAIN executing'[p]
  BY <1>1, <1>2 DEF OwnId, DrawsFresh
<1>3. ASSUME NEW p \in Peers, NEW i \in DOMAIN executing'[p]
      PROVE  i < nextId'[p]
  <2>1. CASE i \in DOMAIN executing[p]
    <3>1. i < nextId[p] /\ nextId'[p] >= nextId[p] /\ i \in Nat
      BY <1>1, <2>1 DEF IdInv, DrawsFresh
    <3> QED
      BY <1>1, <3>1
  <2>2. CASE i \notin DOMAIN executing[p]
    BY <2>2 DEF DrawsFresh
  <2> QED
    BY <2>1, <2>2
<1>4. ASSUME NEW p \in Peers, NEW j \in DOMAIN jobs'[p] \cup Range(queue'[p])
      PROVE  OwnId(p, j)'
  <2>1. CASE j \in DOMAIN jobs[p] \cup Range(queue[p])
    <3>1. OwnId(p, j) /\ j \in Nat
      BY <1>1, <2>1 DEF IdInv
    <3> QED
      BY <1>2, <3>1 DEF OwnId
  <2>2. CASE j \notin DOMAIN jobs[p] \cup Range(queue[p])
    BY <2>2 DEF JobsOwned
  <2> QED
    BY <2>1, <2>2
<1>5. ASSUME NEW m \in InFlight', m.type = "DelegateJob"
      PROVE  OwnId(m.src, m.id)'
  <2>1. OwnId(m.src, m.id)
    BY <1>5 DEF NewsOwned, IdInv
  <2>2. m \in Incoming
    <3>1. InFlight' \subseteq Incoming
      <4>1. DOMAIN net' \subseteq Incoming
        BY DEF TypeOK, Parcels, Incoming
      <4>2. \A p \in Peers : Range(posted'[p]) \subseteq Posts(p)
        BY RangeOfSeq DEF TypeOK
      <4> QED
        BY <4>1, <4>2 DEF InFlight, Posts, Incoming
    <3> QED
      BY <3>1
  <2>3. m.src \in Peers /\ m.id \in Nat
    BY <1>5, <2>2, Fields DEF JobIds
  <2> QED
    BY <1>2, <2>1, <2>3 DEF OwnId
<1>6. ASSUME NEW q \in Peers, NEW i \in DOMAIN executing'[q]
      PROVE  /\ executing'[q][i].id < nextId'[executing'[q][i].owner]
             /\ executing'[q][i].id \notin DOMAIN executing'[executing'[q][i].owner]
  <2>1. PICK o \in Peers, k \in Nat :
          o = executing'[q][i].owner /\ k = executing'[q][i].id /\ OwnId(o, k)
    <3>1. CASE i \in DOMAIN executing[q] /\ executing'[q][i].owner = executing[q][i].owner
               /\ executing'[q][i].id = executing[q][i].id
      <4>1. executing[q][i].owner \in Peers /\ executing[q][i].id \in Nat
        BY <3>1 DEF TypeOK, FiniteMap, RunningJob, JobIds
      <4> QED
        BY <3>1, <4>1 DEF IdInv
    <3> QED
      BY <3>1 DEF WorkOwned
  <2> QED
    BY <1>2, <2>1
<1> QED
  BY <1>3, <1>4, <1>5, <1>6 DEF IdInv, OwnId

\* Nothing is drawn and no job given away.
LEMMA NothingDrawn ==
    ASSUME TypeOK, IdInv, UNCHANGED <<executing, nextId>>
    PROVE  DrawsFresh /\ WorkOwned
BY DEF TypeOK, DrawsFresh, WorkOwned

LEMMA QuietIds ==
    ASSUME TypeOK, TypeOK', IdInv, UNCHANGED <<executing, nextId, queue>>,
           \A p \in Peers : DOMAIN jobs'[p] \subseteq DOMAIN jobs[p],
           \A m \in InFlight' : m \in InFlight \/ m.type # "DelegateJob"
    PROVE  IdInv'
<1>1. NewsOwned /\ JobsOwned
  BY DEF NewsOwned, JobsOwned
<1> QED
  BY <1>1, NothingDrawn, IdsKept

LEMMA ConsumeIds ==
    ASSUME TypeOK, TypeOK', IdInv, NEW p \in Peers, NEW m, Received(p, m), Consume(m),
           UNCHANGED <<executing, nextId, queue>>,
           \A q \in Peers : DOMAIN jobs'[q] \subseteq DOMAIN jobs[q]
    PROVE  IdInv'
BY ConsumeFlow, QuietIds

\* Requests for work give no job away.
LEMMA AskingIds ==
    ASSUME TypeOK, TypeOK', IdInv, NEW p \in Peers, NEW m, Received(p, m),
           OnPing(p, m) \/ OnAvailableWork(p, m) \/ OnNotifiedNoJobs(p, m)
    PROVE  IdInv'
<1>1. \A ask : \A x \in Asks(p, ask) : x.type # "DelegateJob"
  BY DEF Asks, RequestJobs
<1>2. CASE OnPing(p, m)
  <2> DEFINE pings == {Ping(p, q, Acquaintance(p, m)) : q \in Newcomers(p, m)}
             av == [avail[p] EXCEPT ![m.src] = m.count]
  <2>1. CASE Die(m, "assert_ping")
    BY <2>1, ConsumeIds DEF Die, peerVars
  <2>2. CASE ~Die(m, "assert_ping")
    <3>1. PICK ask \in Asked(p, av, open[p], executing[p]) :
            Exchange(p, m, SetToBag(pings) (+) Requests(p, ask), OwnRequest(p, ask))
      BY <1>2, <2>2 DEF OnPing
    <3>2. /\ UNCHANGED <<executing, nextId, queue>>
          /\ jobs' = [jobs EXCEPT ![p] = [j \in DOMAIN jobs[p] |->
                        IF j \in m.ids THEN Pinged(jobs[p][j]) ELSE jobs[p][j]]]
      BY <1>2, <2>2 DEF OnPing
    <3>3. \A q \in Peers : DOMAIN jobs'[q] \subseteq DOMAIN jobs[q]
      BY <3>2 DEF TypeOK
    <3>4. IsABag(SetToBag(pings)) /\ DOMAIN SetToBag(pings) = pings
      BY SetIsBag
    <3>5. \A x \in pings : x.type # "DelegateJob"
      BY DEF Ping
    <3> HIDE DEF pings, av
    <3>6. InFlight' \subseteq InFlight \cup pings \cup Asks(p, ask)
      BY <3>1, <3>4, AskType, AskFlow
    <3> QED
      BY <1>1, <3>2, <3>3, <3>5, <3>6, QuietIds
  <2> QED
    BY <2>1, <2>2
<1>3. CASE OnAvailableWork(p, m) \/ OnNotifiedNoJobs(p, m)
  <2>1. PICK av, op : \E ask \in Asked(p, av, op, executing[p]) :
          Exchange(p, m, Requests(p, ask), OwnRequest(p, ask))
    BY <1>3 DEF OnAvailableWork, OnNotifiedNoJobs
  <2>2. PICK ask \in [Peers -> Nat] : Exchange(p, m, Requests(p, ask), OwnRequest(p, ask))
    BY <2>1, AskType
  <2>3. UNCHANGED <<executing, nextId, queue, jobs>>
    BY <1>3 DEF OnAvailableWork, OnNotifiedNoJobs
  <2>4. InFlight' \subseteq InFlight \cup Asks(p, ask)
    BY <2>2, OnlyAskFlow
  <2> QED
    BY <1>1, <2>3, <2>4, QuietIds
<1> QED
  BY <1>2, <1>3

LEMMA OnJobRequestIds ==
    ASSUME TypeOK, TypeOK', IdInv, NEW p \in Peers, NEW m, Received(p, m), m.type = "RequestJobs",
           OnJobRequest(p, m)
    PROVE  IdInv'
<1> DEFINE Answers == {DelegateJob(p, m.src, j, Description(p, j)) : j \in Range(queue[p])}
<1>1. UNCHANGED <<executing, nextId>>
  BY DEF OnJobRequest
<1>2. /\ InFlight' \subseteq InFlight \cup Answers \cup {NoMoreJobs(p, m.src)}
      /\ Range(queue'[p]) \subseteq Range(queue[p])
      /\ DOMAIN jobs'[p] \subseteq DOMAIN jobs[p] \cup Range(queue[p])
      /\ \A q \in Peers : q # p => jobs'[q] = jobs[q] /\ queue'[q] = queue[q]
  BY OnJobRequestFlow
<1>3. \A x \in Answers : OwnId(x.src, x.id)
  BY DEF DelegateJob, IdInv
<1>4. NoMoreJobs(p, m.src).type # "DelegateJob"
  BY DEF NoMoreJobs
<1>5. NewsOwned
  BY <1>2, <1>3, <1>4 DEF NewsOwned
<1>6. JobsOwned
  BY <1>2 DEF JobsOwned
<1> QED
  BY <1>1, <1>5, <1>6, NothingDrawn, IdsKept

LEMMA OnReceiveJobIds ==
    ASSUME TypeOK, TypeOK', IdInv, NEW p \in Peers, NEW m, Handled(p, m), m.type = "DelegateJob",
           OnReceiveJob(p, m)
    PROVE  IdInv'
<1>1. Consume(m) /\ UNCHANGED <<jobs, queue>>
  BY DEF OnReceiveJob
<1>2. Received(p, m) /\ m \in InFlight /\ m.src \in Peers /\ m.id \in Nat
  BY HandledIsReceived, Fields DEF Received, JobIds
<1>3. NewsOwned /\ JobsOwned
  BY <1>1, <1>2, ConsumeFlow DEF NewsOwned, JobsOwned
<1>4. CASE UNCHANGED <<executing, nextId>>
  BY <1>3, <1>4, NothingDrawn, IdsKept
<1>5. CASE ~UNCHANGED <<executing, nextId>>
  <2> DEFINE k == nextId[p]
             job == [owner |-> m.src, id |-> m.id, desc |-> m.desc, done |-> FALSE]
  <2>1. /\ executing' = [executing EXCEPT ![p] =
              [i \in DOMAIN executing[p] \cup {k} |-> IF i = k THEN job ELSE executing[p][i]]]
        /\ nextId' = [nextId EXCEPT ![p] = k + 1]
    BY <1>5 DEF OnReceiveJob, InProgressId
  <2>2. job.owner = m.src /\ job.id = m.id
    OBVIOUS
  <2> HIDE DEF job
  <2>3. /\ DOMAIN executing'[p] = DOMAIN executing[p] \cup {k}
        /\ executing'[p][k] = job
        /\ \A i \in DOMAIN executing[p] : i # k => executing'[p][i] = executing[p][i]
        /\ nextId'[p] = k + 1
        /\ \A q \in Peers : q # p => executing'[q] = executing[q] /\ nextId'[q] = nextId[q]
    BY <2>1 DEF TypeOK
  <2>4. \A q \in Peers : nextId[q] \in Nat
    BY DEF TypeOK
  <2>5. DrawsFresh
    BY <2>3, <2>4 DEF DrawsFresh
  <2>6. OwnId(m.src, m.id)
    BY <1>2 DEF IdInv
  <2> HIDE DEF k
  <2>7. WorkOwned
    <3>1. ASSUME NEW i \in DOMAIN executing'[p]
          PROVE  \/ i \in DOMAIN executing[p] /\ executing'[p][i] = executing[p][i]
                 \/ executing'[p][i] = job
      BY <2>3
    <3> QED
      BY <1>2, <2>2, <2>3, <2>6, <3>1 DEF WorkOwned
  <2> QED
    BY <1>3, <2>5, <2>7, IdsKept
<1> QED
  BY <1>4, <1>5

LEMMA OwnerIds ==
    ASSUME TypeOK, TypeOK', IdInv, NEW p \in Peers, NEW m, Received(p, m),
           OnDelegatedJobUpdate(p, m) \/ OnDelegatedJobCompleted(p, m) \/ OnJobRetracted(p, m)
    PROVE  IdInv'
<1>1. Consume(m) /\ UNCHANGED <<executing, nextId, queue>>
  BY DEF OnDelegatedJobUpdate, OnDelegatedJobCompleted, OnJobRetracted, Die, peerVars
<1>2. UNCHANGED jobs \/ jobs' = [jobs EXCEPT ![p] = Without(p, m.id)]
  BY DEF OnDelegatedJobUpdate, OnDelegatedJobCompleted, OnJobRetracted, Die, peerVars
<1>3. CASE UNCHANGED jobs
  BY <1>1, <1>3, ConsumeIds
<1>4. CASE jobs' = [jobs EXCEPT ![p] = Without(p, m.id)]
  <2>1. DOMAIN Without(p, m.id) \subseteq DOMAIN jobs[p]
    BY DEF Without
  <2>2. \A q \in Peers : DOMAIN jobs'[q] \subseteq DOMAIN jobs[q]
    BY <1>4, <2>1 DEF TypeOK
  <2> QED
    BY <1>1, <2>2, ConsumeIds
<1> QED
  BY <1>2, <1>3, <1>4

LEMMA OnClientJobRequestIds ==
    ASSUME TypeOK, TypeOK', IdInv, NEW p \in Peers, NEW m, Received(p, m), m.type = "Post",
           OnClientJobRequest(p, m)
    PROVE  IdInv'
<1> DEFINE j == nextId[p]
           job == [client |-> m.src, exec |-> None, stale |-> FALSE]
           longer == Append(queue[p], j)
<1>1. /\ UNCHANGED executing
      /\ nextId' = [nextId EXCEPT ![p] = j + 1]
      /\ queue' = [queue EXCEPT ![p] = longer]
      /\ jobs' = [jobs EXCEPT ![p] = [k \in DOMAIN jobs[p] \cup {j} |->
                    IF k = j THEN job ELSE jobs[p][k]]]
  BY DEF OnClientJobRequest
<1>2. j \in Nat /\ \A q \in Peers : nextId[q] \in Nat
  BY DEF TypeOK
<1>3. Range(longer) = Range(queue[p]) \cup {j}
  <2>1. queue[p] \in Seq(Nat)
    BY DEF TypeOK, JobIds
  <2>2. /\ DOMAIN longer = 1..(Len(queue[p]) + 1) /\ DOMAIN queue[p] = 1..Len(queue[p])
        /\ longer[Len(queue[p]) + 1] = j /\ Len(queue[p]) \in Nat
        /\ \A i \in 1..Len(queue[p]) : longer[i] = queue[p][i]
    BY <1>2, <2>1
  <2> HIDE DEF longer
  <2> QED
    BY <2>2 DEF Range
<1>4. InFlight' \subseteq
          InFlight \cup {AvailableWork(p, q, Len(queue[p]) + 1) : q \in known[p] \cup {p}}
  BY OnClientJobRequestFlow
<1> HIDE DEF job, longer
<1>5. NewsOwned
  BY <1>4 DEF NewsOwned, AvailableWork
<1>6. DrawsFresh
  <2>1. nextId'[p] = j + 1 /\ \A q \in Peers : q # p => nextId'[q] = nextId[q]
    BY <1>1 DEF TypeOK
  <2>2. \A q \in Peers : nextId'[q] >= nextId[q]
    BY <1>2, <2>1
  <2> QED
    BY <1>1, <2>2 DEF DrawsFresh
<1>7. WorkOwned
  BY <1>1 DEF WorkOwned
<1>8. /\ j < nextId'[p] /\ j \notin DOMAIN executing'[p]
      /\ DOMAIN jobs'[p] = DOMAIN jobs[p] \cup {j} /\ queue'[p] = longer
      /\ \A q \in Peers : q # p => jobs'[q] = jobs[q] /\ queue'[q] = queue[q]
  <2>1. nextId'[p] = j + 1 /\ queue'[p] = longer
    BY <1>1 DEF TypeOK
  <2>2. \A i \in DOMAIN executing[p] : i < j
    BY DEF IdInv
  <2>3. j \notin DOMAIN executing'[p]
    BY <1>1, <1>2, <2>2
  <2>4. DOMAIN jobs'[p] = DOMAIN jobs[p] \cup {j}
    BY <1>1 DEF TypeOK
  <2> QED
    BY <1>1, <1>2, <2>1, <2>3, <2>4
<1> HIDE DEF j
<1>9. JobsOwned
  BY <1>3, <1>8 DEF JobsOwned, OwnId
<1> QED
  BY <1>5, <1>6, <1>7, <1>9, IdsKept

\* A report gives no job away, and its job is no longer in progress.
LEMMA ReportIds ==
    ASSUME TypeOK, TypeOK', IdInv, NEW p \in Peers, NEW m, Received(p, m),
           OnJobUpdate(p, m) \/ OnJobProcessingCompleted(p, m)
    PROVE  IdInv'
<1>1. CASE Die(m, "assert_local")
  BY <1>1, ConsumeIds DEF Die, peerVars
<1>2. CASE ~Die(m, "assert_local")
  <2> DEFINE job == executing[p][m.id]
             rest == [i \in DOMAIN executing[p] \ {m.id} |-> executing[p][i]]
  <2>1. m.id \in DOMAIN executing[p] /\ UNCHANGED <<nextId, jobs, queue>>
    BY <1>2 DEF OnJobUpdate, OnJobProcessingCompleted, peerVars
  <2>2. job \in RunningJob
    BY <2>1 DEF TypeOK, FiniteMap
  <2>3. PICK type \in {"JobCompleted", "JobUpdate"}, ask \in [Peers -> Nat] :
          Report(p, m, type, job, ask)
    <3>1. NoAsk \in [Peers -> Nat]
      BY DEF NoAsk
    <3>2. CASE OnJobUpdate(p, m)
      BY <1>2, <3>1, <3>2 DEF OnJobUpdate
    <3>3. CASE OnJobProcessingCompleted(p, m)
      <4>1. \E ask \in Asked(p, avail[p], open[p], rest) : Report(p, m, "JobCompleted", job, ask)
        BY <1>2, <3>3 DEF OnJobProcessingCompleted
      <4> HIDE DEF job, rest
      <4> QED
        BY <4>1, AskType
    <3> QED
      BY <3>2, <3>3
  <2>4. /\ \A q \in Peers : DOMAIN executing'[q] \subseteq DOMAIN executing[q]
        /\ \A q \in Peers : \A i \in DOMAIN executing'[q] : executing'[q][i] = executing[q][i]
    <3>1. CASE OnJobUpdate(p, m)
      BY <1>2, <3>1 DEF OnJobUpdate, peerVars
    <3>2. CASE OnJobProcessingCompleted(p, m)
      <4>1. executing' = [executing EXCEPT ![p] = rest]
        BY <1>2, <3>2 DEF OnJobProcessingCompleted
      <4> QED
        BY <4>1 DEF TypeOK
    <3> QED
      BY <3>1, <3>2
  <2> HIDE DEF job, rest
  <2>5. InFlight' \subseteq InFlight \cup {JobNote(p, job.owner, type, job.id)} \cup Asks(p, ask)
    BY <2>2, <2>3, ReportFlow
  <2>6. \A x \in {JobNote(p, job.owner, type, job.id)} \cup Asks(p, ask) : x.type # "DelegateJob"
    BY DEF JobNote, Asks, RequestJobs
  <2>7. NewsOwned /\ JobsOwned
    BY <2>1, <2>5, <2>6 DEF NewsOwned, JobsOwned
  <2>8. \A q \in Peers : nextId'[q] >= nextId[q]
    BY <2>1 DEF TypeOK
  <2>9. DrawsFresh
    BY <2>4, <2>8 DEF DrawsFresh
  <2>10. WorkOwned
    BY <2>4 DEF WorkOwned
  <2> QED
    BY <2>7, <2>9, <2>10, IdsKept
<1> QED
  BY <1>1, <1>2

LEMMA PeerMessageIds ==
    ASSUME TypeOK, TypeOK', IdInv, NEW p \in Peers, NEW m, Handled(p, m), OnReceivePeerMessage(p, m)
    PROVE  IdInv'
BY HandledIsReceived, AskingIds, OnJobRequestIds, OnReceiveJobIds, OwnerIds DEF OnReceivePeerMessage

LEMMA DropIds ==
    ASSUME TypeOK, TypeOK', IdInv, NEW m \in DOMAIN net, Lose(m) \/ Discard(m)
    PROVE  IdInv'
<1>1. m.dst \in Peers /\ Received(m.dst, m)
  BY DEF TypeOK, Parcels, Received, Incoming, Local, Message, ClientPost
<1>2. Consume(m) /\ UNCHANGED peerVars
  BY DEF Lose, Discard
<1> QED
  BY <1>1, <1>2, ConsumeIds DEF peerVars

LEMMA ServeIds ==
    ASSUME TypeOK, TypeOK', IdInv, NEW p \in Peers, Serve(p)
    PROVE  IdInv'
<1>1. CASE RunPosted(p)
  <2> DEFINE m == Head(posted[p])
  <2>1. m \in Posts(p) /\ posted[p] # << >>
    BY <1>1 DEF RunPosted, TypeOK
  <2>2. Handled(p, m) /\ Received(p, m)
    BY <2>1 DEF Posts, Handled, Received, Incoming, Local
  <2>3. OnReceivePeerMessage(p, m) \/ OnJobUpdate(p, m) \/ OnJobProcessingCompleted(p, m)
    BY <1>1 DEF RunPosted
  <2> HIDE DEF m
  <2> QED
    BY <2>2, <2>3, PeerMessageIds, ReportIds
<1>2. ASSUME NEW m \in DOMAIN net, m.dst = p, Deliver(m)
      PROVE  IdInv'
  <2>1. Handled(p, m) /\ Received(p, m)
    BY <1>2 DEF TypeOK, Parcels, Handled, Received, Incoming, Local
  <2>2. \/ OnPing(p, m)
        \/ m.type = "Post" /\ OnClientJobRequest(p, m)
        \/ OnReceivePeerMessage(p, m)
    BY <1>2 DEF Deliver
  <2> QED
    BY <2>1, <2>2, PeerMessageIds, AskingIds, OnClientJobRequestIds
<1>3. ASSUME NEW m \in DOMAIN net, Discard(m)
      PROVE  IdInv'
  BY <1>3, DropIds
<1> QED
  BY <1>1, <1>2, <1>3 DEF Serve

LEMMA WorkerIds ==
    ASSUME TypeOK, TypeOK', IdInv, NEW p \in Peers, NEW i \in DOMAIN executing[p],
           WorkerUpdate(p, i) \/ WorkerFinish(p, i) \/ NoExecutorTerminates(p, i)
    PROVE  IdInv'
<1>1. ASSUME NEW type \in {"Updated", "Finished"}, Emit(p, EmptyBag, <<JobNote(p, p, type, i)>>)
      PROVE  \A m \in InFlight' : m \in InFlight \/ m.type # "DelegateJob"
  <2>1. JobNote(p, p, type, i).type # "DelegateJob"
    BY DEF JobNote
  <2> QED
    BY <1>1, <2>1, EventFlow
<1>2. CASE WorkerUpdate(p, i)
  BY <1>1, <1>2, QuietIds DEF WorkerUpdate, peerVars
<1>3. CASE WorkerFinish(p, i)
  <2> DEFINE job == [executing[p][i] EXCEPT !.done = TRUE]
  <2>1. job.owner = executing[p][i].owner /\ job.id = executing[p][i].id
    BY DEF TypeOK, FiniteMap, RunningJob
  <2>2. executing' = [executing EXCEPT ![p][i] = job] /\ UNCHANGED <<nextId, jobs, queue>>
    BY <1>3 DEF WorkerFinish
  <2> HIDE DEF job
  <2>3. \A q \in Peers : /\ DOMAIN executing'[q] = DOMAIN executing[q]
                         /\ \A k \in DOMAIN executing[q] :
                                /\ executing'[q][k].owner = executing[q][k].owner
                                /\ executing'[q][k].id = executing[q][k].id
    BY <2>1, <2>2 DEF TypeOK
  <2>4. \A q \in Peers : nextId'[q] >= nextId[q]
    BY <2>2 DEF TypeOK
  <2>5. DrawsFresh
    BY <2>3, <2>4 DEF DrawsFresh
  <2>6. WorkOwned
    BY <2>3 DEF WorkOwned
  <2>7. NewsOwned /\ JobsOwned
    BY <1>1, <1>3, <2>2 DEF WorkerFinish, NewsOwned, JobsOwned
  <2> QED
    BY <2>5, <2>6, <2>7, IdsKept
<1>4. CASE NoExecutorTerminates(p, i)
  BY <1>4, QuietIds DEF NoExecutorTerminates, peerVars, InFlight
<1> QED
  BY <1>2, <1>3, <1>4

LEMMA OnStatusCheckIds ==
    ASSUME TypeOK, TypeOK', IdInv, NEW p \in Peers, OnStatusCheck(p)
    PROVE  IdInv'
<1> DEFINE Ads == {AvailableWork(p, q, k) : q \in known[p] \cup {p}, k \in Nat}
<1>1. UNCHANGED <<executing, nextId, jobs>>
  BY DEF OnStatusCheck
<1>2. /\ InFlight' \subseteq InFlight \cup StatusPings(p) \cup Retractions(p) \cup Ads
      /\ Range(queue'[p]) \subseteq Range(queue[p]) \cup DOMAIN jobs[p]
      /\ \A q \in Peers : q # p => queue'[q] = queue[q]
  BY OnStatusCheckFlow
<1>3. \A x \in StatusPings(p) \cup Retractions(p) \cup Ads : x.type # "DelegateJob"
  BY DEF StatusPings, Ping, Retractions, JobNote, AvailableWork
<1>4. NewsOwned
  BY <1>2, <1>3 DEF NewsOwned
<1>5. JobsOwned
  BY <1>1, <1>2 DEF JobsOwned
<1> QED
  BY <1>1, <1>4, <1>5, NothingDrawn, IdsKept

LEMMA EnvironmentIds ==
    ASSUME TypeOK, TypeOK', IdInv,
           \/ \E p \in Peers : Start(p) \/ Crash(p)
           \/ \E p \in Peers : \E j \in DOMAIN jobs[p] : Expire(p, j)
           \/ \E c \in Clients : PostJob(c) \/ \E p \in Peers : Register(c, p)
    PROVE  IdInv'
<1>1. ASSUME NEW p \in Peers, Start(p)
      PROVE  IdInv'
  <2> DEFINE pings == {Ping(p, q, {}) : q \in Contacts[p]}
  <2>1. IsABag(SetToBag(pings)) /\ DOMAIN SetToBag(pings) = pings
    BY SetIsBag
  <2>2. << >> \in Seq(Posts(p)) /\ Range(<< >>) = {}
    BY DEF Range
  <2>3. Emit(p, SetToBag(pings), << >>) /\ UNCHANGED peerVars
    BY <1>1 DEF Start
  <2>4. InFlight' \subseteq InFlight \cup pings
    BY <2>1, <2>2, <2>3, EmitFlow
  <2>5. \A x \in pings : x.type # "DelegateJob"
    BY DEF Ping
  <2> QED
    BY <2>3, <2>4, <2>5, QuietIds DEF peerVars
<1>2. ASSUME NEW p \in Peers, Crash(p)
      PROVE  IdInv'
  BY <1>2, QuietIds DEF Crash, peerVars, InFlight
<1>3. ASSUME NEW p \in Peers, NEW j \in DOMAIN jobs[p], Expire(p, j)
      PROVE  IdInv'
  <2> DEFINE job == [jobs[p][j] EXCEPT !.stale = TRUE]
  <2>1. jobs' = [jobs EXCEPT ![p][j] = job]
        /\ UNCHANGED <<executing, nextId, queue, posted, net>>
    BY <1>3 DEF Expire
  <2> HIDE DEF job
  <2>2. \A q \in Peers : DOMAIN jobs'[q] = DOMAIN jobs[q]
    BY <2>1 DEF TypeOK
  <2> QED
    BY <2>1, <2>2, QuietIds DEF InFlight
<1>4. ASSUME NEW c \in Clients, PostJob(c)
      PROVE  IdInv'
  <2>1. PICK m : m = [src |-> c, dst |-> home[c], type |-> "Post"]
    OBVIOUS
  <2> DEFINE letter == SetToBag({m})
  <2>2. net' = net (+) letter /\ UNCHANGED <<peerVars, posted>>
    BY <1>4, <2>1 DEF PostJob
  <2>3. IsABag(letter) /\ DOMAIN letter = {m}
    BY SetIsBag
  <2> HIDE DEF letter
  <2>4. DOMAIN (net (+) letter) = DOMAIN net \cup DOMAIN letter
    <3>1. IsABag(net)
      BY DEF TypeOK
    <3> QED
      BY <2>3, <3>1, SumIsBag, Zenon
  <2>5. InFlight' \subseteq InFlight \cup {m}
    BY <2>2, <2>3, <2>4 DEF InFlight
  <2>6. m.type # "DelegateJob"
    BY <2>1
  <2> QED
    BY <2>2, <2>5, <2>6, QuietIds DEF peerVars
<1>5. ASSUME NEW c \in Clients, NEW p \in Peers, Register(c, p)
      PROVE  IdInv'
  BY <1>5, QuietIds DEF Register, peerVars, InFlight
<1> QED
  BY <1>1, <1>2, <1>3, <1>4, <1>5

LEMMA NextIds == TypeOK /\ TypeOK' /\ IdInv /\ [Next]_vars => IdInv'
<1> SUFFICES ASSUME TypeOK, TypeOK', IdInv, [Next]_vars
             PROVE  IdInv'
  OBVIOUS
<1>1. CASE UNCHANGED vars
  BY <1>1, QuietIds DEF vars, InFlight
<1>2. ASSUME NEW m \in DOMAIN net, Lose(m)
      PROVE  IdInv'
  BY <1>2, DropIds
<1> QED
  BY <1>1, <1>2, ServeIds, WorkerIds, OnStatusCheckIds, EnvironmentIds DEF Next, Work

LEMMA InitIds == Init => IdInv
<1> SUFFICES ASSUME Init
             PROVE  IdInv
  OBVIOUS
<1>1. DOMAIN net = {}
  BY EmptyIsBag DEF Init, Idle
<1>2. \A p \in Peers : Range(posted[p]) = {} /\ Range(queue[p]) = {}
  BY DEF Init, Idle, Range
<1>3. \A p \in Peers : DOMAIN jobs[p] = {} /\ DOMAIN executing[p] = {}
  BY DEF Init, Idle, EmptyMap
<1> QED
  BY <1>1, <1>2, <1>3 DEF IdInv, InFlight

\* Owned jobs and jobs in progress draw their ids from one counter, and no id on the queue,
\* in m_jobs or on record at another peer names a job its owner has in progress for
\* somebody, for any number of peers and whatever is retracted, lost or delegated again.
THEOREM IdsAreNeverConfused == Spec => []IdsNeverCollide
<1>1. TypeOK /\ IdInv => IdsNeverCollide
  <2> SUFFICES ASSUME TypeOK, IdInv, NEW p \in Peers
               PROVE  /\ \A i \in DOMAIN executing[p] :
                             i \notin DOMAIN jobs[p] /\ i \notin Range(queue[p])
                      /\ \A q \in Peers : \A i \in DOMAIN executing[q] :
                             executing[q][i].owner = p =>
                                 executing[q][i].id \notin DOMAIN executing[p]
    BY DEF IdsNeverCollide
  <2>1. \A i \in DOMAIN executing[p] : i \notin DOMAIN jobs[p] /\ i \notin Range(queue[p])
    BY DEF IdInv, OwnId
  <2>2. \A q \in Peers : \A i \in DOMAIN executing[q] :
            executing[q][i].owner = p => executing[q][i].id \notin DOMAIN executing[p]
    BY DEF IdInv, OwnId
  <2> QED
    BY <2>1, <2>2
<1> QED
  BY <1>1, InitType, InitIds, NextType, NextIds, PTL DEF Spec

-----------------------------------------------------------------------------
(* The clients are served: the network refines module JobService. *)

AcceptNote(p, c, j) == [src |-> p, dst |-> c, type |-> "JobAccepted", id |-> j]
ResultNote(p, c, j) == [src |-> p, dst |-> c, type |-> "JobCompleted", id |-> j]

\* Some client was told of job j of p.
Accepted(p, j) == \E c \in Clients : AcceptNote(p, c, j) \in DOMAIN inbox

\* What m says of a job is true: a job is delegated with its description when a client
\* waits for it, and reported as completed when it has run.
Truthful(m) ==
    /\ m.type = "DelegateJob" /\ m.desc = "given" => Accepted(m.src, m.id)
    /\ m.type = "JobCompleted" => <<m.dst, m.id>> \in executed

\* So is what a worker has on record.
WorkedOn(x) ==
    /\ x.desc = "given" => Accepted(x.owner, x.id)
    /\ x.done => <<x.owner, x.id>> \in executed

NotesNumbered == \A n \in DOMAIN inbox : n.type # "JobStatus" => n.id < nextId[n.src]

\* The client of a job in m_jobs was told of it, and has no result yet.
JobsAnnounced ==
    \A p \in Peers : \A j \in DOMAIN jobs[p] : jobs[p][j].client # NoClient =>
        /\ AcceptNote(p, jobs[p][j].client, j) \in DOMAIN inbox
        /\ ResultNote(p, jobs[p][j].client, j) \notin DOMAIN inbox

NewsTruthful == \A m \in InFlight : Truthful(m)

WorkAnnounced == \A q \in Peers : \A x \in Range(executing[q]) : WorkedOn(x)

ServiceInv == NotesNumbered /\ JobsAnnounced /\ NewsTruthful /\ WorkAnnounced

\* What a step must show of what it changes.
NotesStay == DOMAIN inbox \subseteq DOMAIN inbox' /\ executed \subseteq executed'
NewsTold == \A m \in InFlight' : m \in InFlight \/ Truthful(m)'
WorkTold == \A q \in Peers : \A x \in Range(executing'[q]) : x \in Range(executing[q]) \/ WorkedOn(x)'

LEMMA ServiceInvKept ==
    ASSUME ServiceInv, NotesStay, NotesNumbered', JobsAnnounced', NewsTold, WorkTold
    PROVE  ServiceInv'
<1>1. \A p, j : Accepted(p, j) => Accepted(p, j)'
  BY DEF Accepted, NotesStay
<1>2. \A m : Truthful(m) => Truthful(m)'
  BY <1>1 DEF Truthful, NotesStay
<1>3. \A x : WorkedOn(x) => WorkedOn(x)'
  BY <1>1 DEF WorkedOn, NotesStay
<1>4. NewsTruthful'
  BY <1>2 DEF ServiceInv, NewsTold, NewsTruthful
<1>5. WorkAnnounced'
  <2>1. \A q \in Peers : \A x \in Range(executing'[q]) : WorkedOn(x)'
    BY <1>3 DEF ServiceInv, WorkTold, WorkAnnounced
  <2> QED
    BY <2>1 DEF WorkAnnounced, Range
<1> QED
  BY <1>4, <1>5 DEF ServiceInv

\* Jobs keep their clients, or lose them.
ClientsStay ==
    \A p \in Peers : \A j \in DOMAIN jobs'[p] :
        \/ jobs'[p][j].client = NoClient
        \/ j \in DOMAIN jobs[p] /\ jobs'[p][j].client = jobs[p][j].client

\* A step that tells no client anything.
LEMMA SilentStep ==
    ASSUME TypeOK, ServiceInv, UNCHANGED <<inbox, executed>>,
           \A p \in Peers : nextId'[p] \in Nat /\ nextId'[p] >= nextId[p],
           ClientsStay, NewsTold, WorkTold
    PROVE  ServiceInv'
<1>1. NotesNumbered'
  <2>1. ASSUME NEW n \in DOMAIN inbox, n.type # "JobStatus"
        PROVE  n.id < nextId'[n.src]
    <3>1. n.src \in Peers /\ n.id \in Nat
      BY DEF TypeOK, ClientMessage, JobIds
    <3>2. n.id < nextId[n.src] /\ nextId[n.src] \in Nat
      BY <2>1, <3>1 DEF ServiceInv, NotesNumbered, TypeOK
    <3>3. nextId'[n.src] \in Nat /\ nextId'[n.src] >= nextId[n.src]
      BY <3>1
    <3> QED
      BY <3>1, <3>2, <3>3
  <2> QED
    BY <2>1 DEF NotesNumbered
<1>2. JobsAnnounced'
  BY DEF ServiceInv, JobsAnnounced, ClientsStay
<1>3. NotesStay
  BY DEF NotesStay
<1> QED
  BY <1>1, <1>2, <1>3, ServiceInvKept

ServiceVars == <<NoteBag("JobAccepted"), executed, NoteBag("JobCompleted")>>

\* A step that keeps the promise.
Serves == ServiceInv' /\ [Service!Next]_ServiceVars

LEMMA SilentServes ==
    ASSUME ServiceInv', UNCHANGED <<inbox, executed>>
    PROVE  Serves
<1>1. \A type : NoteBag(type)' = NoteBag(type)
  BY DEF NoteBag, Notes
<1> QED
  BY <1>1 DEF Serves, ServiceVars

\* What NoteBag counts a note as.
Key(n) == <<n.dst, <<n.src, n.id>>>>

\* A note to a client joins the bag of its kind and no other.
LEMMA NoteTaken ==
    ASSUME TypeOK, NEW p \in Peers, NEW c \in Clients, NEW j \in JobIds,
           NEW t \in {"JobAccepted", "JobStatus", "JobCompleted"}, TellClient(p, c, t, j),
           NEW type \in {"JobAccepted", "JobCompleted"}
    PROVE  /\ DOMAIN inbox' = DOMAIN inbox \cup {[src |-> p, dst |-> c, type |-> t, id |-> j]}
           /\ type = t => NoteBag(type)' = NoteBag(type) (+) SetToBag({<<c, <<p, j>>>>})
           /\ type # t => NoteBag(type)' = NoteBag(type)
<1> DEFINE n == [src |-> p, dst |-> c, type |-> t, id |-> j]
           x == <<c, <<p, j>>>>
           Note(k) == [src |-> k[2][1], dst |-> k[1], type |-> type, id |-> k[2][2]]
           Keys == {Key(k) : k \in Notes(type)}
           NewKeys == {Key(k) : k \in {l \in DOMAIN inbox' : l.type = type}}
           one == SetToBag({n})
<1>1. n \in ClientMessage /\ Key(n) = x /\ n.type = t
  BY DEF ClientMessage, Key
<1>2. c # NoClient
  BY PeersAssumption
<1>3. /\ DOMAIN inbox' = DOMAIN inbox \cup {n}
      /\ \A k \in DOMAIN inbox : k # n => inbox'[k] = inbox[k]
      /\ inbox'[n] = IF n \in DOMAIN inbox THEN inbox[n] + 1 ELSE 1
  <2>1. inbox' = inbox (+) one
    BY <1>2 DEF TellClient
  <2>2. DOMAIN one = {n} /\ one[n] = 1
    BY DEF SetToBag
  <2>3. \A k \in DOMAIN inbox : inbox[k] \in Nat
    BY DEF TypeOK, IsABag
  <2> HIDE DEF n, one
  <2> QED
    BY <2>1, <2>2, <2>3 DEF (+)
<1>4. \A k \in ClientMessage : k.type = type => Note(Key(k)) = k
  BY DEF ClientMessage, Key
<1>5. DOMAIN inbox \subseteq ClientMessage
  BY DEF TypeOK
<1>6. NoteBag(type) = [k \in Keys |-> inbox[Note(k)]]
  BY DEF NoteBag, Key
<1>7. NoteBag(type)' = [k \in NewKeys |-> inbox'[Note(k)]]
  BY DEF NoteBag, Key, Notes
<1>8. \A k \in Keys : Note(k) \in DOMAIN inbox /\ Note(k).type = type /\ Key(Note(k)) = k
  BY <1>4, <1>5 DEF Notes
<1>9. CASE type = t
  <2> DEFINE two == SetToBag({x})
  <2>1. NewKeys = Keys \cup {x}
    <3>1. {l \in DOMAIN inbox' : l.type = type} = Notes(type) \cup {n}
      BY <1>1, <1>3, <1>9 DEF Notes
    <3> HIDE DEF n, x
    <3> QED
      BY <1>1, <3>1
  <2>2. Note(x) = n
    BY <1>1, <1>4, <1>9
  <2>3. x \in Keys <=> n \in DOMAIN inbox
    BY <1>1, <1>8, <1>9, <2>2 DEF Notes
  <2>4. DOMAIN two = {x} /\ two[x] = 1
    BY DEF SetToBag
  <2>5. \A k \in Keys : inbox[Note(k)] \in Nat
    BY <1>8 DEF TypeOK, IsABag
  <2> HIDE DEF n, x, Note, Keys, NewKeys, two
  <2> DEFINE old == NoteBag(type)
  <2>6. \A k \in Keys : k # x => inbox'[Note(k)] = inbox[Note(k)]
    BY <1>3, <1>8, <1>1, <2>2
  <2>7. old = [k \in Keys |-> inbox[Note(k)]]
    BY <1>6
  <2>8. DOMAIN old = Keys /\ \A k \in Keys : old[k] = inbox[Note(k)]
    BY <2>7
  <2> HIDE DEF old
  <2>9. old (+) two = [k \in Keys \cup {x} |-> (IF k \in Keys THEN old[k] ELSE 0)
                                               + (IF k = x THEN 1 ELSE 0)]
    BY <2>4, <2>8 DEF (+)
  <2>10. \A k \in Keys \cup {x} : inbox'[Note(k)] =
           (IF k \in Keys THEN old[k] ELSE 0) + (IF k = x THEN 1 ELSE 0)
    BY <1>3, <2>2, <2>3, <2>5, <2>6, <2>8
  <2>11. NoteBag(type)' = old (+) two
    BY <1>7, <2>1, <2>9, <2>10
  <2> QED
    BY <1>3, <1>9, <2>11 DEF old, two, n, x
<1>10. CASE type # t
  <2>1. {l \in DOMAIN inbox' : l.type = type} = Notes(type)
    BY <1>1, <1>3, <1>10 DEF Notes
  <2>2. NewKeys = Keys
    BY <2>1
  <2>3. \A k \in Keys : inbox'[Note(k)] = inbox[Note(k)]
    <3> HIDE DEF Note, Keys, n
    <3> QED
      BY <1>1, <1>3, <1>8, <1>10
  <2> HIDE DEF Note, Keys, n, NewKeys
  <2>4. NoteBag(type)' = NoteBag(type)
    BY <1>6, <1>7, <2>2, <2>3
  <2> QED
    BY <1>3, <1>10, <2>4 DEF n
<1> QED
  BY <1>9, <1>10

\* No job is delegated or reported completed, and workers take on nothing.
LEMMA QuietServes ==
    ASSUME TypeOK, ServiceInv, UNCHANGED <<inbox, executed, nextId>>, ClientsStay,
           \A m \in InFlight' : m \in InFlight \/ m.type \notin {"DelegateJob", "JobCompleted"},
           \A q \in Peers : Range(executing'[q]) \subseteq Range(executing[q])
    PROVE  Serves
<1>1. \A p \in Peers : nextId'[p] \in Nat /\ nextId'[p] >= nextId[p]
  BY DEF TypeOK
<1>2. NewsTold /\ WorkTold
  BY DEF NewsTold, WorkTold, Truthful
<1> QED
  BY <1>1, <1>2, SilentStep, SilentServes

LEMMA SameClients == ASSUME UNCHANGED jobs PROVE ClientsStay
BY DEF ClientsStay

\* Nor does a message that is only consumed.
LEMMA ConsumeServes ==
    ASSUME TypeOK, ServiceInv, NEW p \in Peers, NEW m, Received(p, m), Consume(m),
           UNCHANGED <<inbox, executed, nextId, executing, jobs>>
    PROVE  Serves
<1>1. \A x \in InFlight' : x \in InFlight
  BY ConsumeFlow
<1>2. \A q \in Peers : Range(executing'[q]) \subseteq Range(executing[q])
  OBVIOUS
<1> QED
  BY <1>1, <1>2, SameClients, QuietServes

LEMMA AskingServes ==
    ASSUME TypeOK, ServiceInv, NEW p \in Peers, NEW m, Received(p, m),
           OnPing(p, m) \/ OnAvailableWork(p, m) \/ OnNotifiedNoJobs(p, m)
    PROVE  Serves
<1> DEFINE plain(x) == x.type \notin {"DelegateJob", "JobCompleted"}
<1>1. \A ask : \A x \in Asks(p, ask) : plain(x)
  BY DEF Asks, RequestJobs
<1>2. CASE OnPing(p, m)
  <2> DEFINE pings == {Ping(p, q, Acquaintance(p, m)) : q \in Newcomers(p, m)}
             av == [avail[p] EXCEPT ![m.src] = m.count]
  <2>1. CASE Die(m, "assert_ping")
    BY <2>1, ConsumeServes DEF Die, peerVars, Received
  <2>2. CASE ~Die(m, "assert_ping")
    <3>1. PICK ask \in Asked(p, av, open[p], executing[p]) :
            Exchange(p, m, SetToBag(pings) (+) Requests(p, ask), OwnRequest(p, ask))
      BY <1>2, <2>2 DEF OnPing
    <3>2. /\ UNCHANGED <<executing, nextId, inbox, executed>>
          /\ jobs' = [jobs EXCEPT ![p] = [j \in DOMAIN jobs[p] |->
                        IF j \in m.ids THEN Pinged(jobs[p][j]) ELSE jobs[p][j]]]
      BY <1>2, <2>2 DEF OnPing
    <3>3. ClientsStay
      <4>1. \A j \in DOMAIN jobs[p] : Pinged(jobs[p][j]).client = jobs[p][j].client
        BY DEF Pinged, TypeOK, FiniteMap, OwnedJob
      <4>2. /\ DOMAIN jobs'[p] = DOMAIN jobs[p]
            /\ \A j \in DOMAIN jobs[p] : jobs'[p][j].client = jobs[p][j].client
        BY <3>2, <4>1 DEF TypeOK
      <4>3. \A q \in Peers : q # p => jobs'[q] = jobs[q]
        BY <3>2
      <4> QED
        BY <4>2, <4>3 DEF ClientsStay
    <3>4. IsABag(SetToBag(pings)) /\ DOMAIN SetToBag(pings) = pings
      BY SetIsBag
    <3>5. InFlight' \subseteq InFlight \cup pings \cup Asks(p, ask)
      BY <3>1, <3>4, AskType, AskFlow
    <3>6. \A x \in pings : plain(x)
      BY DEF Ping
    <3>7. \A q \in Peers : Range(executing'[q]) \subseteq Range(executing[q])
      BY <3>2
    <3> QED
      BY <1>1, <3>2, <3>3, <3>5, <3>6, <3>7, QuietServes
  <2> QED
    BY <2>1, <2>2
<1>3. CASE OnAvailableWork(p, m) \/ OnNotifiedNoJobs(p, m)
  <2>1. PICK av, op : \E ask \in Asked(p, av, op, executing[p]) :
          Exchange(p, m, Requests(p, ask), OwnRequest(p, ask))
    BY <1>3 DEF OnAvailableWork, OnNotifiedNoJobs
  <2>2. UNCHANGED <<executing, nextId, inbox, executed, jobs>>
    BY <1>3 DEF OnAvailableWork, OnNotifiedNoJobs
  <2>3. PICK ask \in [Peers -> Nat] : Exchange(p, m, Requests(p, ask), OwnRequest(p, ask))
    BY <2>1, AskType
  <2>4. InFlight' \subseteq InFlight \cup Asks(p, ask)
    BY <2>3, OnlyAskFlow
  <2>5. \A q \in Peers : Range(executing'[q]) \subseteq Range(executing[q])
    BY <2>2
  <2> QED
    BY <1>1, <2>2, <2>4, <2>5, SameClients, QuietServes
<1> QED
  BY <1>2, <1>3

\* A job is handed out with its description as long as its client waits for it.
LEMMA OnJobRequestServes ==
    ASSUME TypeOK, ServiceInv, NEW p \in Peers, NEW m, Received(p, m), m.type = "RequestJobs",
           OnJobRequest(p, m)
    PROVE  Serves
<1> DEFINE Answers == {DelegateJob(p, m.src, j, Description(p, j)) : j \in Range(queue[p])}
<1>1. /\ InFlight' \subseteq InFlight \cup Answers \cup {NoMoreJobs(p, m.src)}
      /\ \A j \in DOMAIN jobs'[p] : jobs'[p][j].client = ClientOf(p, j)
      /\ \A q \in Peers : q # p => jobs'[q] = jobs[q]
  BY OnJobRequestFlow
<1>2. UNCHANGED <<nextId, executing, inbox, executed>>
  BY DEF OnJobRequest
<1>3. \A j : ClientOf(p, j) # NoClient =>
          j \in DOMAIN jobs[p] /\ ClientOf(p, j) = jobs[p][j].client
  BY DEF ClientOf
<1>4. ClientsStay
  BY <1>1, <1>3 DEF ClientsStay
<1>5. ASSUME NEW x \in Answers
      PROVE  Truthful(x)'
  <2>1. PICK j \in Range(queue[p]) : x = DelegateJob(p, m.src, j, Description(p, j))
    OBVIOUS
  <2>2. x.type = "DelegateJob" /\ x.desc = Description(p, j) /\ x.src = p /\ x.id = j
    BY <2>1 DEF DelegateJob
  <2>3. ASSUME x.desc = "given"
        PROVE  Accepted(p, j)
    <3>1. ClientOf(p, j) # NoClient
      BY <2>2, <2>3 DEF Description
    <3>2. j \in DOMAIN jobs[p] /\ jobs[p][j].client # NoClient
      BY <1>3, <3>1
    <3>3. AcceptNote(p, jobs[p][j].client, j) \in DOMAIN inbox
      BY <3>2 DEF ServiceInv, JobsAnnounced
    <3>4. jobs[p][j].client \in Clients
      BY <3>2 DEF TypeOK, FiniteMap, OwnedJob
    <3> QED
      BY <3>3, <3>4 DEF Accepted
  <2>4. Accepted(p, j) => Accepted(p, j)'
    BY <1>2 DEF Accepted
  <2> QED
    BY <2>2, <2>3, <2>4 DEF Truthful
<1>6. NewsTold
  <2>1. NoMoreJobs(p, m.src).type = "NoMoreJobs"
    BY DEF NoMoreJobs
  <2>2. Truthful(NoMoreJobs(p, m.src))'
    BY <2>1 DEF Truthful
  <2> QED
    BY <1>1, <1>5, <2>2 DEF NewsTold
<1>7. WorkTold
  BY <1>2 DEF WorkTold
<1>8. \A q \in Peers : nextId'[q] \in Nat /\ nextId'[q] >= nextId[q]
  BY <1>2 DEF TypeOK
<1> QED
  BY <1>2, <1>4, <1>6, <1>7, <1>8, SilentStep, SilentServes

\* A worker takes on what the message says.
LEMMA OnReceiveJobServes ==
    ASSUME TypeOK, TypeOK', ServiceInv, NEW p \in Peers, NEW m, Handled(p, m),
           m.type = "DelegateJob", OnReceiveJob(p, m)
    PROVE  Serves
<1> DEFINE k == nextId[p]
           job == [owner |-> m.src, id |-> m.id, desc |-> m.desc, done |-> FALSE]
<1>1. Consume(m) /\ UNCHANGED <<jobs, inbox, executed>>
  BY DEF OnReceiveJob
<1>2. Received(p, m) /\ m \in InFlight
  BY HandledIsReceived
<1>3. NewsTold
  BY <1>1, <1>2, ConsumeFlow DEF NewsTold
<1>4. WorkedOn(job)
  <2>1. Truthful(m)
    BY <1>2 DEF ServiceInv, NewsTruthful
  <2>2. job.owner = m.src /\ job.id = m.id /\ job.desc = m.desc /\ job.done = FALSE
    OBVIOUS
  <2> HIDE DEF job
  <2> QED
    BY <2>1, <2>2 DEF Truthful, WorkedOn
<1>5. CASE UNCHANGED <<executing, nextId>>
  <2>1. WorkTold
    BY <1>5 DEF WorkTold
  <2>2. \A q \in Peers : nextId'[q] \in Nat /\ nextId'[q] >= nextId[q]
    BY <1>5 DEF TypeOK
  <2> QED
    BY <1>1, <1>3, <2>1, <2>2, SameClients, SilentStep, SilentServes
<1>6. CASE ~UNCHANGED <<executing, nextId>>
  <2>1. /\ executing' = [executing EXCEPT ![p] =
              [i \in DOMAIN executing[p] \cup {k} |-> IF i = k THEN job ELSE executing[p][i]]]
        /\ nextId' = [nextId EXCEPT ![p] = k + 1]
    BY <1>6 DEF OnReceiveJob, InProgressId
  <2> HIDE DEF job
  <2>2. /\ DOMAIN executing'[p] = DOMAIN executing[p] \cup {k}
        /\ executing'[p][k] = job
        /\ \A i \in DOMAIN executing[p] : i # k => executing'[p][i] = executing[p][i]
        /\ nextId'[p] = k + 1
        /\ \A q \in Peers : q # p => executing'[q] = executing[q] /\ nextId'[q] = nextId[q]
    BY <2>1 DEF TypeOK
  <2>3. \A q \in Peers : nextId'[q] \in Nat /\ nextId'[q] >= nextId[q]
    <3>1. \A q \in Peers : nextId[q] \in Nat
      BY DEF TypeOK
    <3> QED
      BY <2>2, <3>1
  <2> HIDE DEF k
  <2>4. Range(executing'[p]) \subseteq Range(executing[p]) \cup {job}
    BY <2>2 DEF Range
  <2>5. \A q \in Peers : q # p => Range(executing'[q]) = Range(executing[q])
    BY <2>2
  <2>6. WorkTold
    <3>1. PICK x : x = job
      OBVIOUS
    <3>2. WorkedOn(x)'
      BY <1>1, <1>4, <3>1 DEF WorkedOn, Accepted
    <3> QED
      BY <2>4, <2>5, <3>1, <3>2 DEF WorkTold
  <2> QED
    BY <1>1, <1>3, <2>3, <2>6, SameClients, SilentStep, SilentServes
<1> QED
  BY <1>5, <1>6

\* A client is told of an update, or nothing changes.
LEMMA OwnerServes ==
    ASSUME TypeOK, TypeOK', ServiceInv, NEW p \in Peers, NEW m, Received(p, m),
           m.type \in {"JobUpdate", "CancelJob"},
           OnDelegatedJobUpdate(p, m) \/ OnJobRetracted(p, m)
    PROVE  Serves
<1>1. Consume(m) /\ UNCHANGED <<executing, nextId, jobs, executed>>
  BY DEF OnDelegatedJobUpdate, OnJobRetracted, Die, peerVars
<1>2. CASE UNCHANGED inbox
  BY <1>1, <1>2, ConsumeServes
<1>3. CASE ~UNCHANGED inbox
  <2> DEFINE c == jobs[p][m.id].client
  <2>1. m.id \in DOMAIN jobs[p] /\ TellClient(p, c, "JobStatus", m.id)
    BY <1>3 DEF OnDelegatedJobUpdate, OnJobRetracted, Die
  <2>2. c \in Clients /\ m.id \in JobIds
    BY <1>3, <2>1 DEF TypeOK, FiniteMap, OwnedJob, TellClient
  <2> HIDE DEF c
  <2> DEFINE note == [src |-> p, dst |-> c, type |-> "JobStatus", id |-> m.id]
  <2>3. DOMAIN inbox' = DOMAIN inbox \cup {note}
    BY <2>1, <2>2, NoteTaken
  <2>4. /\ NoteBag("JobAccepted")' = NoteBag("JobAccepted")
        /\ NoteBag("JobCompleted")' = NoteBag("JobCompleted")
    BY <2>1, <2>2, NoteTaken
  <2>5. note.type = "JobStatus"
    OBVIOUS
  <2> HIDE DEF note
  <2>6. NotesNumbered'
    BY <1>1, <2>3, <2>5 DEF ServiceInv, NotesNumbered
  <2>7. JobsAnnounced'
    <3>1. \A q, d, j : ResultNote(q, d, j) # note
      BY <2>5 DEF ResultNote
    <3> QED
      BY <1>1, <2>3, <3>1 DEF ServiceInv, JobsAnnounced
  <2>8. NotesStay
    BY <1>1, <2>3 DEF NotesStay
  <2>9. NewsTold /\ WorkTold
    BY <1>1, ConsumeFlow DEF NewsTold, WorkTold
  <2>10. ServiceInv'
    BY <2>6, <2>7, <2>8, <2>9, ServiceInvKept
  <2> QED
    BY <1>1, <2>4, <2>10 DEF Serves, ServiceVars
<1> QED
  BY <1>2, <1>3

\* The operators of the abstract specification are those of the detailed one.
LEMMA SameBags ==
    /\ Service!EmptyBag = EmptyBag
    /\ \A S : Service!SetToBag(S) = SetToBag(S)
    /\ \A A, B : Service!(+)(A, B) = A (+) B
BY DEF Service!EmptyBag, EmptyBag, Service!SetToBag, SetToBag, Service!(+), (+)

\* The client of a job that completed is told, once, of a job that has run.
LEMMA OnDelegatedJobCompletedServes ==
    ASSUME TypeOK, TypeOK', ServiceInv, NEW p \in Peers, NEW m, Handled(p, m),
           m.type = "JobCompleted", OnDelegatedJobCompleted(p, m)
    PROVE  Serves
<1>1. Received(p, m) /\ m \in InFlight /\ m.dst = p
  BY HandledIsReceived DEF Handled
<1>2. Consume(m) /\ UNCHANGED <<executing, nextId, executed>>
  BY DEF OnDelegatedJobCompleted, Die, peerVars
<1>3. NewsTold /\ WorkTold
  BY <1>1, <1>2, ConsumeFlow DEF NewsTold, WorkTold
<1>4. CASE Die(m, "assert_completed")
  BY <1>1, <1>4, ConsumeServes DEF Die, peerVars
<1>5. CASE ~Die(m, "assert_completed")
  <2> DEFINE c == jobs[p][m.id].client
             note == ResultNote(p, c, m.id)
  <2>1. /\ m.id \in DOMAIN jobs[p]
        /\ jobs' = [jobs EXCEPT ![p] = Without(p, m.id)]
        /\ TellClient(p, c, "JobCompleted", m.id)
    BY <1>5 DEF OnDelegatedJobCompleted
  <2>2. /\ DOMAIN jobs'[p] = DOMAIN jobs[p] \ {m.id}
        /\ \A j \in DOMAIN jobs'[p] : jobs'[p][j] = jobs[p][j]
        /\ \A q \in Peers : q # p => jobs'[q] = jobs[q]
    BY <2>1 DEF Without, TypeOK
  <2>3. ClientsStay
    BY <2>2 DEF ClientsStay
  <2>4. m.id \in JobIds /\ c \in Clients \cup {NoClient}
    BY <2>1 DEF TypeOK, FiniteMap, OwnedJob
  <2>5. CASE c = NoClient
    <3>1. UNCHANGED inbox
      BY <2>1, <2>5 DEF TellClient
    <3>2. \A q \in Peers : nextId'[q] \in Nat /\ nextId'[q] >= nextId[q]
      BY <1>2 DEF TypeOK
    <3> QED
      BY <1>2, <1>3, <2>3, <3>1, <3>2, SilentStep, SilentServes
  <2>6. CASE c # NoClient
    <3> DEFINE job == <<p, m.id>>
               x == <<c, job>>
    <3>1. c \in Clients
      BY <2>4, <2>6
    <3>2. AcceptNote(p, c, m.id) \in DOMAIN inbox /\ note \notin DOMAIN inbox
      BY <2>1, <2>6 DEF ServiceInv, JobsAnnounced
    <3>3. job \in executed
      BY <1>1 DEF ServiceInv, NewsTruthful, Truthful
    <3> HIDE DEF c
    <3>4. DOMAIN inbox' = DOMAIN inbox \cup {note}
      BY <2>1, <2>4, <3>1, NoteTaken DEF ResultNote
    <3>5. /\ NoteBag("JobAccepted")' = NoteBag("JobAccepted")
          /\ NoteBag("JobCompleted")' = NoteBag("JobCompleted") (+) SetToBag({x})
      <4>1. ASSUME NEW d \in Clients, NEW j \in JobIds, TellClient(p, d, "JobCompleted", j)
            PROVE  NoteBag("JobAccepted")' = NoteBag("JobAccepted")
        BY <4>1, NoteTaken
      <4>2. ASSUME NEW d \in Clients, NEW j \in JobIds, TellClient(p, d, "JobCompleted", j)
            PROVE  NoteBag("JobCompleted")' = NoteBag("JobCompleted") (+) SetToBag({<<d, <<p, j>>>>})
        BY <4>2, NoteTaken
      <4>3. /\ TellClient(p, c, "JobCompleted", m.id)
            /\ m.id \in JobIds /\ c \in Clients
        BY <2>1, <2>4, <3>1
      <4> HIDE DEF x, job, note
      <4>4. NoteBag("JobCompleted")' = NoteBag("JobCompleted") (+) SetToBag({<<c, <<p, m.id>>>>})
        BY <4>2, <4>3, Zenon
      <4> QED
        BY <4>1, <4>3, <4>4 DEF x, job
    <3>6. x \in DOMAIN NoteBag("JobAccepted")
      <4>1. AcceptNote(p, c, m.id) \in Notes("JobAccepted") /\ x = Key(AcceptNote(p, c, m.id))
        BY <3>2 DEF Notes, AcceptNote, Key
      <4> QED
        BY <4>1 DEF NoteBag, Key
    <3>7. x \notin DOMAIN NoteBag("JobCompleted")
      <4>1. SUFFICES ASSUME NEW n \in Notes("JobCompleted"), x = Key(n)
                     PROVE  FALSE
        BY DEF NoteBag, Key
      <4>2. n \in ClientMessage /\ n.type = "JobCompleted" /\ n \in DOMAIN inbox
        BY DEF Notes, TypeOK
      <4>3. n = note
        BY <4>1, <4>2 DEF Key, ClientMessage, ResultNote
      <4> QED
        BY <3>2, <4>2, <4>3
    <3>8. Service!Answer(x)
      BY <1>2, <3>3, <3>5, <3>7, SameBags DEF Service!Answer
    <3>9. Service!Next
      BY <3>6, <3>8 DEF Service!Next
    <3>10. NotesNumbered'
      <4>1. note.type = "JobCompleted" /\ note.src = p /\ note.id = m.id
        BY DEF ResultNote
      <4>2. AcceptNote(p, c, m.id).type = "JobAccepted" /\ AcceptNote(p, c, m.id).src = p
            /\ AcceptNote(p, c, m.id).id = m.id
        BY DEF AcceptNote
      <4>3. m.id < nextId[p]
        BY <3>2, <4>2 DEF ServiceInv, NotesNumbered
      <4> HIDE DEF note
      <4> QED
        BY <1>2, <3>4, <4>1, <4>3 DEF ServiceInv, NotesNumbered
    <3>11. JobsAnnounced'
      <4>1. ASSUME NEW q \in Peers, NEW j \in DOMAIN jobs'[q]
            PROVE  /\ j \in DOMAIN jobs[q] /\ jobs'[q][j] = jobs[q][j]
                   /\ \A d : ResultNote(q, d, j) # note
        <5>1. j \in DOMAIN jobs[q] /\ jobs'[q][j] = jobs[q][j] /\ (q # p \/ j # m.id)
          BY <2>2
        <5> QED
          BY <5>1 DEF ResultNote
      <4> HIDE DEF note
      <4> QED
        BY <3>4, <4>1 DEF ServiceInv, JobsAnnounced
    <3>12. NotesStay
      BY <1>2, <3>4 DEF NotesStay
    <3>13. ServiceInv'
      BY <1>3, <3>10, <3>11, <3>12, ServiceInvKept
    <3> QED
      BY <3>9, <3>13 DEF Serves
  <2> QED
    BY <2>4, <2>5, <2>6
<1> QED
  BY <1>4, <1>5

\* A client is told of the job it posted, which is new to the service.
LEMMA OnClientJobRequestServes ==
    ASSUME TypeOK, TypeOK', ServiceInv, NEW p \in Peers, NEW m, Received(p, m), m.type = "Post",
           OnClientJobRequest(p, m)
    PROVE  Serves
<1> DEFINE j == nextId[p]
           c == m.src
           job == [client |-> c, exec |-> None, stale |-> FALSE]
           note == AcceptNote(p, c, j)
           new == <<p, j>>
           x == <<c, new>>
<1>1. c \in Clients /\ c # NoClient /\ j \in JobIds
  BY PeersAssumption, Fields DEF Received, TypeOK, JobIds
<1>2. /\ UNCHANGED <<executing, executed>>
      /\ nextId' = [nextId EXCEPT ![p] = j + 1]
      /\ jobs' = [jobs EXCEPT ![p] = [k \in DOMAIN jobs[p] \cup {j} |->
                    IF k = j THEN job ELSE jobs[p][k]]]
      /\ TellClient(p, c, "JobAccepted", j)
  BY DEF OnClientJobRequest
<1>3. NewsTold /\ WorkTold
  <2>1. InFlight' \subseteq
          InFlight \cup {AvailableWork(p, q, Len(queue[p]) + 1) : q \in known[p] \cup {p}}
    BY OnClientJobRequestFlow
  <2>2. \A y \in {AvailableWork(p, q, Len(queue[p]) + 1) : q \in known[p] \cup {p}} :
            y.type = "AvailableWork"
    BY DEF AvailableWork
  <2>3. NewsTold
    BY <2>1, <2>2 DEF NewsTold, Truthful
  <2>4. WorkTold
    BY <1>2 DEF WorkTold
  <2> QED
    BY <2>3, <2>4
<1>4. job.client = c
  OBVIOUS
<1> HIDE DEF c, job
<1>5. /\ nextId'[p] = j + 1
      /\ DOMAIN jobs'[p] = DOMAIN jobs[p] \cup {j} /\ jobs'[p][j] = job
      /\ \A k \in DOMAIN jobs[p] : k # j => jobs'[p][k] = jobs[p][k]
      /\ \A q \in Peers : q # p => jobs'[q] = jobs[q] /\ nextId'[q] = nextId[q]
  BY <1>2 DEF TypeOK
<1>6. DOMAIN inbox' = DOMAIN inbox \cup {note}
  BY <1>1, <1>2, NoteTaken DEF AcceptNote
<1>7. NoteBag("JobAccepted")' = NoteBag("JobAccepted") (+) SetToBag({x})
  <2>1. TellClient(p, c, "JobAccepted", j)
    BY <1>2
  <2> HIDE DEF j
  <2>2. NoteBag("JobAccepted")' = NoteBag("JobAccepted") (+) SetToBag({<<c, <<p, j>>>>})
    BY <1>1, <2>1, NoteTaken
  <2> QED
    BY <2>2
<1>8. NoteBag("JobCompleted")' = NoteBag("JobCompleted")
  BY <1>1, <1>2, NoteTaken
<1>9. ASSUME NEW n \in DOMAIN inbox, n.type # "JobStatus"
      PROVE  n.src # p \/ n.id # j
  <2>1. n.id < nextId[n.src] /\ n.id \in Nat
    BY <1>9 DEF ServiceInv, NotesNumbered, TypeOK, ClientMessage, JobIds
  <2> QED
    BY <1>1, <2>1 DEF JobIds
<1>10. Service!Accept(x)
  <2>1. x \in Clients \X (Peers \X JobIds)
    BY <1>1
  <2>2. ASSUME NEW y \in DOMAIN NoteBag("JobAccepted")
        PROVE  y[2] # x[2]
    <3>1. PICK n \in Notes("JobAccepted") : y = Key(n)
      BY DEF NoteBag, Key
    <3>2. n \in DOMAIN inbox /\ n.type = "JobAccepted"
      BY DEF Notes
    <3>3. y[2] = <<n.src, n.id>>
      BY <3>1 DEF Key
    <3>4. n.src # p \/ n.id # j
      BY <1>9, <3>2
    <3> QED
      BY <3>3, <3>4
  <2> QED
    BY <1>2, <1>7, <1>8, <2>1, <2>2, SameBags DEF Service!Accept
<1>11. x \in DOMAIN NoteBag("JobAccepted")'
  <2>1. note \in Notes("JobAccepted")'
    BY <1>6 DEF Notes, AcceptNote
  <2>2. x = Key(note)
    BY DEF Key, AcceptNote
  <2>3. DOMAIN NoteBag("JobAccepted")' = {Key(n) : n \in Notes("JobAccepted")'}
    BY DEF NoteBag, Key
  <2> HIDE DEF note, x
  <2> QED
    BY <2>1, <2>2, <2>3
<1>12. Service!Next
  BY <1>10, <1>11 DEF Service!Next
<1>13. note.type = "JobAccepted" /\ note.src = p /\ note.id = j
  BY DEF AcceptNote
<1>14. NotesNumbered'
  <2>1. ASSUME NEW n \in DOMAIN inbox, n.type # "JobStatus"
        PROVE  n.id < nextId'[n.src]
    <3>1. n.src \in Peers /\ n.id \in Nat /\ n.id < nextId[n.src]
      BY <2>1 DEF ServiceInv, NotesNumbered, TypeOK, ClientMessage, JobIds
    <3>2. nextId[n.src] \in Nat
      BY <3>1 DEF TypeOK
    <3> QED
      BY <1>5, <3>1, <3>2
  <2>2. j < nextId'[p]
    BY <1>1, <1>5 DEF JobIds
  <2> HIDE DEF note, j
  <2> QED
    BY <1>6, <1>13, <2>1, <2>2 DEF NotesNumbered
<1>15. JobsAnnounced'
  <2>1. \A q, d, k : ResultNote(q, d, k) # note
    BY <1>13 DEF ResultNote
  <2>2. ResultNote(p, c, j) \notin DOMAIN inbox
    BY <1>9 DEF ResultNote
  <2> HIDE DEF note, j
  <2>3. ASSUME NEW k \in DOMAIN jobs'[p], jobs'[p][k].client # NoClient
        PROVE  /\ AcceptNote(p, jobs'[p][k].client, k) \in DOMAIN inbox'
               /\ ResultNote(p, jobs'[p][k].client, k) \notin DOMAIN inbox'
    <3>1. CASE k = j
      BY <1>4, <1>5, <1>6, <2>1, <2>2, <3>1 DEF note
    <3>2. CASE k # j
      BY <1>5, <1>6, <2>1, <2>3, <3>2 DEF ServiceInv, JobsAnnounced
    <3> QED
      BY <3>1, <3>2
  <2> QED
    BY <1>5, <1>6, <2>1, <2>3 DEF ServiceInv, JobsAnnounced
<1>16. NotesStay
  BY <1>2, <1>6 DEF NotesStay
<1>17. ServiceInv'
  BY <1>3, <1>14, <1>15, <1>16, ServiceInvKept
<1> QED
  BY <1>12, <1>17 DEF Serves

\* A job is reported completed when its executor has returned.
LEMMA ReportServes ==
    ASSUME TypeOK, TypeOK', EventInv, ServiceInv, NEW p \in Peers, NEW m, Received(p, m),
           posted[p] # << >>, m = Head(posted[p]),
           \/ m.type = "Updated" /\ OnJobUpdate(p, m)
           \/ m.type = "Finished" /\ OnJobProcessingCompleted(p, m)
    PROVE  Serves
<1> DEFINE job == executing[p][m.id]
           rest == [i \in DOMAIN executing[p] \ {m.id} |-> executing[p][i]]
<1>1. 1 \in DOMAIN posted[p] /\ m = posted[p][1] /\ IsEvent(m)
  BY OldestPost DEF IsEvent
<1>2. m.id \in DOMAIN executing[p] /\ (m.type = "Finished" => job.done)
  BY <1>1 DEF EventInv, EventOrder
<1>3. job \in RunningJob /\ job \in Range(executing[p])
  BY <1>2 DEF TypeOK, FiniteMap, Range
<1>4. UNCHANGED <<nextId, jobs, inbox, executed>>
  BY <1>2 DEF OnJobUpdate, OnJobProcessingCompleted, peerVars
<1>5. PICK type \in {"JobCompleted", "JobUpdate"}, ask \in [Peers -> Nat] :
        Report(p, m, type, job, ask) /\ (type = "JobCompleted" => m.type = "Finished")
  <2>1. NoAsk \in [Peers -> Nat]
    BY DEF NoAsk
  <2>2. CASE m.type = "Updated"
    BY <1>2, <2>1, <2>2 DEF OnJobUpdate
  <2>3. CASE m.type = "Finished"
    <3>1. \E ask \in Asked(p, avail[p], open[p], rest) : Report(p, m, "JobCompleted", job, ask)
      BY <1>2, <2>3 DEF OnJobProcessingCompleted
    <3> HIDE DEF job, rest
    <3> QED
      BY <2>3, <3>1, AskType
  <2> QED
    BY <2>2, <2>3
<1>6. \A q \in Peers : Range(executing'[q]) \subseteq Range(executing[q])
  <2>1. CASE UNCHANGED executing
    BY <2>1
  <2>2. CASE ~UNCHANGED executing
    <3>1. executing' = [executing EXCEPT ![p] = rest]
      BY <1>2, <2>2 DEF OnJobUpdate, OnJobProcessingCompleted, peerVars
    <3>2. Range(rest) \subseteq Range(executing[p])
      BY DEF Range
    <3> HIDE DEF rest
    <3> QED
      BY <3>1, <3>2 DEF TypeOK
  <2> QED
    BY <2>1, <2>2
<1>7. type = "JobCompleted" => <<job.owner, job.id>> \in executed
  BY <1>2, <1>3, <1>5 DEF ServiceInv, WorkAnnounced, WorkedOn
<1> HIDE DEF job, rest
<1>8. InFlight' \subseteq InFlight \cup {JobNote(p, job.owner, type, job.id)} \cup Asks(p, ask)
  BY <1>3, <1>5, ReportFlow
<1>9. NewsTold
  <2>1. ASSUME NEW x, x = JobNote(p, job.owner, type, job.id)
        PROVE  Truthful(x)'
    <3>1. x.type = type /\ x.dst = job.owner /\ x.id = job.id
      BY <2>1 DEF JobNote
    <3> QED
      BY <1>4, <1>7, <3>1 DEF Truthful
  <2>2. \A x \in Asks(p, ask) : Truthful(x)'
    BY DEF Asks, RequestJobs, Truthful
  <2> QED
    BY <1>8, <2>1, <2>2 DEF NewsTold
<1>10. \A q \in Peers : nextId'[q] \in Nat /\ nextId'[q] >= nextId[q]
  BY <1>4 DEF TypeOK
<1>11. WorkTold
  BY <1>6 DEF WorkTold
<1> QED
  BY <1>4, <1>9, <1>10, <1>11, SameClients, SilentStep, SilentServes

LEMMA PeerMessageServes ==
    ASSUME TypeOK, TypeOK', ServiceInv, NEW p \in Peers, NEW m, Handled(p, m),
           OnReceivePeerMessage(p, m)
    PROVE  Serves
BY HandledIsReceived, AskingServes, OnJobRequestServes, OnReceiveJobServes, OwnerServes,
   OnDelegatedJobCompletedServes DEF OnReceivePeerMessage

LEMMA DropServes ==
    ASSUME TypeOK, TypeOK', ServiceInv, NEW m \in DOMAIN net, Lose(m) \/ Discard(m)
    PROVE  Serves
<1>1. m.dst \in Peers /\ Received(m.dst, m)
  BY DEF TypeOK, Parcels, Received, Incoming, Local, Message, ClientPost
<1>2. Consume(m) /\ UNCHANGED <<peerVars, inbox, executed>>
  BY DEF Lose, Discard
<1> QED
  BY <1>1, <1>2, ConsumeServes DEF peerVars

LEMMA ServeServes ==
    ASSUME TypeOK, TypeOK', EventInv, ServiceInv, NEW p \in Peers, Serve(p)
    PROVE  Serves
<1>1. CASE RunPosted(p)
  <2> DEFINE m == Head(posted[p])
  <2>1. m \in Posts(p) /\ posted[p] # << >>
    BY <1>1 DEF RunPosted, TypeOK
  <2>2. Handled(p, m) /\ Received(p, m)
    BY <2>1 DEF Posts, Handled, Received, Incoming, Local
  <2>3. \/ OnReceivePeerMessage(p, m)
        \/ m.type = "Updated" /\ OnJobUpdate(p, m)
        \/ m.type = "Finished" /\ OnJobProcessingCompleted(p, m)
    BY <1>1 DEF RunPosted
  <2>4. m = Head(posted[p])
    OBVIOUS
  <2> HIDE DEF m
  <2> QED
    BY <2>1, <2>2, <2>3, <2>4, PeerMessageServes, ReportServes
<1>2. ASSUME NEW m \in DOMAIN net, m.dst = p, Deliver(m)
      PROVE  Serves
  <2>1. Handled(p, m) /\ Received(p, m)
    BY <1>2 DEF TypeOK, Parcels, Handled, Received, Incoming, Local
  <2>2. \/ OnPing(p, m)
        \/ m.type = "Post" /\ OnClientJobRequest(p, m)
        \/ OnReceivePeerMessage(p, m)
    BY <1>2 DEF Deliver
  <2> QED
    BY <2>1, <2>2, PeerMessageServes, AskingServes, OnClientJobRequestServes
<1>3. ASSUME NEW m \in DOMAIN net, Discard(m)
      PROVE  Serves
  BY <1>3, DropServes
<1> QED
  BY <1>1, <1>2, <1>3 DEF Serve

\* A job that is at work with its description was accepted; it may now have run.
LEMMA WorkerFinishServes ==
    ASSUME TypeOK, TypeOK', ServiceInv, NEW p \in Peers, NEW i \in DOMAIN executing[p],
           WorkerFinish(p, i)
    PROVE  Serves
<1> DEFINE job == executing[p][i]
           done == [job EXCEPT !.done = TRUE]
           run == <<job.owner, job.id>>
<1>1. job \in RunningJob /\ WorkedOn(job)
  BY DEF TypeOK, FiniteMap, Range, ServiceInv, WorkAnnounced
<1>2. /\ executing' = [executing EXCEPT ![p][i] = done]
      /\ executed' = executed \cup {run}
      /\ UNCHANGED <<nextId, jobs, inbox>>
      /\ Emit(p, EmptyBag, <<JobNote(p, p, "Finished", i)>>)
  BY DEF WorkerFinish
<1>3. Accepted(job.owner, job.id)
  BY <1>1 DEF WorkerFinish, Working, HasExecutor, WorkedOn
<1>4. done.owner = job.owner /\ done.id = job.id /\ done.desc = job.desc /\ done.done
  BY <1>1 DEF RunningJob
<1> HIDE DEF done
<1>5. NewsTold
  <2>1. ASSUME NEW x, x = JobNote(p, p, "Finished", i)
        PROVE  Truthful(x)'
    BY <2>1 DEF JobNote, Truthful
  <2> QED
    BY <1>2, <2>1, EventFlow DEF NewsTold
<1>6. WorkTold
  <2>1. Range(executing'[p]) \subseteq Range(executing[p]) \cup {done}
    BY <1>2 DEF TypeOK, Range
  <2>2. \A q \in Peers : q # p => executing'[q] = executing[q]
    BY <1>2
  <2>3. ASSUME NEW x, x = done
        PROVE  WorkedOn(x)'
    BY <1>2, <1>3, <1>4, <2>3 DEF WorkedOn, Accepted
  <2> QED
    BY <2>1, <2>2, <2>3 DEF WorkTold
<1>7. NotesStay /\ NotesNumbered' /\ JobsAnnounced'
  BY <1>2 DEF NotesStay, NotesNumbered, JobsAnnounced, ServiceInv
<1>8. ServiceInv'
  BY <1>5, <1>6, <1>7, ServiceInvKept
<1>9. \A type : NoteBag(type)' = NoteBag(type)
  BY <1>2 DEF NoteBag, Notes
<1>10. Service!Next
  <2>1. PICK c \in Clients : AcceptNote(job.owner, c, job.id) \in DOMAIN inbox
    BY <1>3 DEF Accepted
  <2> DEFINE note == AcceptNote(job.owner, c, job.id)
             x == Key(note)
  <2>2. note \in Notes("JobAccepted") /\ x[2] = run
    BY <2>1 DEF Notes, AcceptNote, Key
  <2>3. x \in DOMAIN NoteBag("JobAccepted")
    BY <2>2 DEF NoteBag, Key
  <2>4. Service!Execute(x)
    BY <1>2, <1>9, <2>2 DEF Service!Execute
  <2> QED
    BY <2>3, <2>4 DEF Service!Next
<1> QED
  BY <1>8, <1>10 DEF Serves

LEMMA WorkerServes ==
    ASSUME TypeOK, TypeOK', ServiceInv, NEW p \in Peers, NEW i \in DOMAIN executing[p],
           WorkerUpdate(p, i) \/ NoExecutorTerminates(p, i)
    PROVE  Serves
<1>1. UNCHANGED <<nextId, jobs, inbox, executed, executing>>
  BY DEF WorkerUpdate, NoExecutorTerminates, peerVars
<1>2. \A m \in InFlight' : m \in InFlight \/ m.type \notin {"DelegateJob", "JobCompleted"}
  <2>1. CASE WorkerUpdate(p, i)
    <3>1. JobNote(p, p, "Updated", i).type = "Updated"
      BY DEF JobNote
    <3> QED
      BY <2>1, <3>1, EventFlow DEF WorkerUpdate
  <2>2. CASE NoExecutorTerminates(p, i)
    BY <2>2 DEF NoExecutorTerminates, InFlight
  <2> QED
    BY <2>1, <2>2
<1>3. \A q \in Peers : Range(executing'[q]) \subseteq Range(executing[q])
  BY <1>1
<1> QED
  BY <1>1, <1>2, <1>3, SameClients, QuietServes

LEMMA OnStatusCheckServes ==
    ASSUME TypeOK, TypeOK', ServiceInv, NEW p \in Peers, OnStatusCheck(p)
    PROVE  Serves
<1> DEFINE Ads == {AvailableWork(p, q, k) : q \in known[p] \cup {p}, k \in Nat}
<1>1. UNCHANGED <<nextId, jobs, inbox, executed, executing>>
  BY DEF OnStatusCheck
<1>2. InFlight' \subseteq InFlight \cup StatusPings(p) \cup Retractions(p) \cup Ads
  BY OnStatusCheckFlow
<1>3. \A x \in StatusPings(p) \cup Retractions(p) \cup Ads :
          x.type \notin {"DelegateJob", "JobCompleted"}
  BY DEF StatusPings, Ping, Retractions, JobNote, AvailableWork
<1>4. \A m \in InFlight' : m \in InFlight \/ m.type \notin {"DelegateJob", "JobCompleted"}
  BY <1>2, <1>3
<1>5. \A q \in Peers : Range(executing'[q]) \subseteq Range(executing[q])
  BY <1>1
<1> QED
  BY <1>1, <1>4, <1>5, SameClients, QuietServes

LEMMA EnvironmentServes ==
    ASSUME TypeOK, TypeOK', ServiceInv,
           \/ \E p \in Peers : Start(p) \/ Crash(p)
           \/ \E p \in Peers : \E j \in DOMAIN jobs[p] : Expire(p, j)
           \/ \E c \in Clients : PostJob(c) \/ \E p \in Peers : Register(c, p)
    PROVE  Serves
<1>1. UNCHANGED <<nextId, inbox, executed, executing>>
  BY DEF Start, Crash, Expire, PostJob, Register, peerVars
<1>2. \A q \in Peers : Range(executing'[q]) \subseteq Range(executing[q])
  BY <1>1
<1>3. ClientsStay
  <2>1. CASE UNCHANGED jobs
    BY <2>1, SameClients
  <2>2. CASE ~UNCHANGED jobs
    <3>1. PICK p \in Peers : \E j \in DOMAIN jobs[p] : Expire(p, j)
      BY <2>2 DEF Start, Crash, PostJob, Register, peerVars
    <3>2. PICK j \in DOMAIN jobs[p] : Expire(p, j)
      BY <3>1
    <3> DEFINE job == [jobs[p][j] EXCEPT !.stale = TRUE]
    <3>3. job.client = jobs[p][j].client
      BY DEF TypeOK, FiniteMap, OwnedJob
    <3>4. jobs' = [jobs EXCEPT ![p][j] = job]
      BY <3>2 DEF Expire
    <3> HIDE DEF job
    <3> QED
      BY <3>3, <3>4 DEF TypeOK, ClientsStay
  <2> QED
    BY <2>1, <2>2
<1>4. \A m \in InFlight' : m \in InFlight \/ m.type \notin {"DelegateJob", "JobCompleted"}
  <2>1. CASE UNCHANGED <<net, posted>>
    BY <2>1 DEF InFlight
  <2>2. ASSUME NEW p \in Peers, Start(p)
        PROVE  \A m \in InFlight' : m \in InFlight \/ m.type \notin {"DelegateJob", "JobCompleted"}
    <3> DEFINE pings == {Ping(p, q, {}) : q \in Contacts[p]}
    <3>1. IsABag(SetToBag(pings)) /\ DOMAIN SetToBag(pings) = pings
      BY SetIsBag
    <3>2. << >> \in Seq(Posts(p)) /\ Range(<< >>) = {}
      BY DEF Range
    <3>3. Emit(p, SetToBag(pings), << >>)
      BY <2>2 DEF Start
    <3>4. InFlight' \subseteq InFlight \cup pings
      BY <3>1, <3>2, <3>3, EmitFlow
    <3>5. \A x \in pings : x.type = "Ping"
      BY DEF Ping
    <3> QED
      BY <3>4, <3>5
  <2>3. ASSUME NEW c \in Clients, PostJob(c)
        PROVE  \A m \in InFlight' : m \in InFlight \/ m.type \notin {"DelegateJob", "JobCompleted"}
    <3>1. PICK m : m = [src |-> c, dst |-> home[c], type |-> "Post"]
      OBVIOUS
    <3> DEFINE letter == SetToBag({m})
    <3>2. net' = net (+) letter /\ UNCHANGED posted
      BY <2>3, <3>1 DEF PostJob
    <3>3. IsABag(letter) /\ DOMAIN letter = {m}
      BY SetIsBag
    <3> HIDE DEF letter
    <3>4. IsABag(net)
      BY DEF TypeOK
    <3>5. DOMAIN (net (+) letter) = DOMAIN net \cup DOMAIN letter
      BY <3>3, <3>4, SumIsBag, Zenon
    <3>6. InFlight' \subseteq InFlight \cup {m}
      BY <3>2, <3>3, <3>5 DEF InFlight
    <3>7. m.type = "Post"
      BY <3>1
    <3> QED
      BY <3>6, <3>7
  <2> QED
    BY <2>1, <2>2, <2>3 DEF Crash, Expire, Register
<1> QED
  BY <1>1, <1>2, <1>3, <1>4, QuietServes

LEMMA NextServes == TypeOK /\ TypeOK' /\ EventInv /\ ServiceInv /\ [Next]_vars => Serves
<1> SUFFICES ASSUME TypeOK, TypeOK', EventInv, ServiceInv, [Next]_vars
             PROVE  Serves
  OBVIOUS
<1>1. CASE UNCHANGED vars
  <2>1. UNCHANGED <<nextId, inbox, executed, executing, jobs, net, posted>>
    BY <1>1 DEF vars
  <2>2. InFlight' = InFlight
    BY <2>1 DEF InFlight
  <2>3. \A q \in Peers : Range(executing'[q]) \subseteq Range(executing[q])
    BY <2>1
  <2> QED
    BY <2>1, <2>2, <2>3, SameClients, QuietServes
<1>2. ASSUME NEW m \in DOMAIN net, Lose(m)
      PROVE  Serves
  BY <1>2, DropServes
<1> QED
  BY <1>1, <1>2, ServeServes, WorkerFinishServes, WorkerServes, OnStatusCheckServes,
     EnvironmentServes DEF Next, Work

LEMMA InitServes == Init => ServiceInv /\ Service!Init
<1> SUFFICES ASSUME Init
             PROVE  ServiceInv /\ Service!Init
  OBVIOUS
<1>1. DOMAIN net = {} /\ DOMAIN inbox = {} /\ executed = {}
  BY EmptyIsBag DEF Init, Idle
<1>2. \A p \in Peers : Range(posted[p]) = {}
  BY DEF Init, Idle, Range
<1>3. \A p \in Peers : DOMAIN jobs[p] = {} /\ Range(executing[p]) = {}
  BY DEF Init, Idle, EmptyMap, Range
<1>4. ServiceInv
  BY <1>1, <1>2, <1>3 DEF ServiceInv, NotesNumbered, JobsAnnounced, NewsTruthful, WorkAnnounced,
     InFlight
<1>5. \A type : NoteBag(type) = EmptyBag
  BY <1>1 DEF NoteBag, Notes, EmptyBag, SetToBag
<1> QED
  BY <1>1, <1>4, <1>5, SameBags DEF Service!Init

\* The network of peers is the service of module JobService, for any number of peers and
\* clients and whatever is lost, retracted, delegated twice or crashes.
THEOREM ClientsAreServed == Spec => ServiceKept
<1>1. Serves => [Service!Next]_ServiceVars /\ ServiceInv'
  BY DEF Serves
<1>2. Init /\ [][Next]_vars => [][Service!Next]_ServiceVars
  BY <1>1, InitType, NextType, InitEvents, NextEvents, InitServes, NextServes, PTL
<1> QED
  BY <1>2, InitServes, PTL DEF Spec, ServiceKept, Service!Spec, ServiceVars
=============================================================================
