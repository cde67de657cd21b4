------------------------- MODULE PeerworkProperties -------------------------
(***************************************************************************)
(* What the work-sharing service of module Peerwork must maintain.         *)
(***************************************************************************)
EXTENDS Peerwork

Statuses == {"off", "up", "crashed", "terminated",
             "assert_ping", "assert_update", "assert_completed", "assert_local"}

OwnedJob == [client : Clients \cup {NoClient}, exec : Peers \cup {None}, stale : BOOLEAN]
RunningJob == [owner : Peers, id : JobIds, desc : {"given", "blank"}, done : BOOLEAN]

FiniteMap(f, D, R) == IsFiniteSet(DOMAIN f) /\ DOMAIN f \subseteq D /\ \A x \in DOMAIN f : f[x] \in R

\* What p may have posted to itself, and what may be on the way between
\* processes: never a message to oneself, which Exchange could not tell apart.
Posts(p) == {m \in Message \cup LocalEvent : m.src = p /\ m.dst = p}
Parcels == {m \in Message \cup ClientPost : m.src # m.dst}

\* Every variable holds a value of the shape the code's containers hold: no peer
\* knows itself, so no ping or offer goes out to its own sender, and no count
\* of available jobs falls below zero by a request larger than the offer.
TypeOK ==
    /\ status \in [Peers -> Statuses]
    /\ known \in [Peers -> SUBSET Peers] /\ \A p \in Peers : p \notin known[p]
    /\ DOMAIN jobs = Peers /\ \A p \in Peers : FiniteMap(jobs[p], JobIds, OwnedJob)
    /\ queue \in [Peers -> Seq(JobIds)]
    /\ nextId \in [Peers -> Nat]
    /\ DOMAIN executing = Peers /\ \A p \in Peers : FiniteMap(executing[p], JobIds, RunningJob)
    /\ avail \in [Peers -> [Peers -> Nat]]
    /\ open \in [Peers -> [Peers -> Int]]
    /\ DOMAIN posted = Peers /\ \A p \in Peers : posted[p] \in Seq(Posts(p))
    /\ IsABag(net) /\ DOMAIN net \subseteq Parcels
    /\ home \in [Clients -> Peers \cup {None}]
    /\ IsABag(inbox) /\ DOMAIN inbox \subseteq ClientMessage
    /\ executed \subseteq Peers \X JobIds
    /\ spent \in [Events -> Nat]

-----------------------------------------------------------------------------
(* Requests for work and the threads they reserve. *)

\* m says it is the answer to, or the whole of, so many of p's requests to q.
AwaitedBy(p, q, m) ==
    CASE m.type = "RequestJobs" /\ m.src = p /\ m.dst = q -> m.count
      [] m.type \in {"DelegateJob", "NoMoreJobs"} /\ m.src = q /\ m.dst = p -> 1
      [] OTHER -> 0

\* How many of the jobs p asked q for can still be answered.
Awaited(p, q) ==
    IF p = q
    THEN SumFunction([i \in DOMAIN posted[p] |-> AwaitedBy(p, p, posted[p][i])])
    ELSE SumFunction([m \in DOMAIN net |-> net[m] * AwaitedBy(p, q, m)])

\* The threads at work and the jobs asked for never exceed --threads, so a job
\* that arrives always finds a thread: on_receive_job never has to ignore one.
CapacityRespected ==
    \A p \in Peers :
        Cardinality(DOMAIN executing[p]) + Cardinality(OpenSlots(open[p])) <= MaxThreads[p]

\* Every answer on its way closes a request still counted as open, so the
\* unsigned count of on_receive_job and on_notified_no_jobs never wraps.
AnswersCovered == \A p, q \in Peers : Awaited(p, q) <= open[p][q]

\* open_request.h: an open request is one whose response is still awaited.
OpenRequestsAwaited == \A p, q \in Peers : open[p][q] > 0 => Awaited(p, q) > 0

-----------------------------------------------------------------------------
(* Where a job is. *)

CountIn(s, Test(_)) == Cardinality({i \in DOMAIN s : Test(s[i])})

Carries(p, j, m) ==
    \/ m.type = "DelegateJob" /\ m.src = p /\ m.id = j
    \/ m.type = "JobCompleted" /\ m.dst = p /\ m.id = j

\* The copies of job j of p: queued, on the way to a worker, at work, or
\* finished and on the way back.
Copies(p, j) ==
      CountIn(queue[p], LAMBDA k : k = j)
    + CountIn(posted[p], LAMBDA m : Carries(p, j, m))
    + SumFunction([m \in DOMAIN net |-> IF Carries(p, j, m) THEN net[m] ELSE 0])
    + SumFunction([q \in Peers |-> CountIn(executing[q], LAMBDA x : x.owner = p /\ x.id = j)])

AllUp == \A p \in Peers : Alive(p)

\* While no process ends and no message is lost, every job in m_jobs is queued,
\* delegated, at work or reported: delegation, refusal, retraction and the
\* ignoring of surplus jobs together never drop one.
NoJobLost ==
    AllUp /\ spent["lose"] = 0 =>
        \A p \in Peers : \A j \in DOMAIN jobs[p] : Copies(p, j) >= 1

\* p itself has its job j: queued, at work, or on the way from one handler to another.
Holds(p, j) ==
    \/ \E k \in DOMAIN queue[p] : queue[p][k] = j
    \/ \E k \in DOMAIN posted[p] : Carries(p, j, posted[p][k])
    \/ \E i \in DOMAIN executing[p] : executing[p][i].owner = p /\ executing[p][i].id = j

\* A running peer holds each of its jobs itself or has another peer on record for it.  A job
\* lost elsewhere, with a message or with its worker, is then one whose pings stop, and
\* check_owned_jobs queues it again; of a job lost in any other way it never would.
LostJobsTimeOut ==
    \A p \in Peers : Alive(p) =>
        \A j \in DOMAIN jobs[p] : Holds(p, j) \/ jobs[p][j].exec \in Peers \ {p}

\* Until a job times out there is one copy of it, and it is queued exactly when
\* m_jobs records no executing peer.
OneCopyUntilTimeout ==
    spent["expire"] = 0 =>
        \A p \in Peers : \A j \in DOMAIN jobs[p] :
            /\ Copies(p, j) <= 1
            /\ (jobs[p][j].exec = None) <=> (\E i \in DOMAIN queue[p] : queue[p][i] = j)

\* Until a job times out, whoever is at work on it is the executing_peer its
\* owner has on record, as on_receive_ping asserts of the jobs a ping names.
ExecutorOnRecord ==
    spent["expire"] = 0 =>
        \A q \in Peers : \A i \in DOMAIN executing[q] :
            LET x == executing[q][i]
            IN Alive(x.owner) =>
                /\ x.id \in DOMAIN jobs[x.owner]
                /\ jobs[x.owner][x.id].exec = q

\* Owned and in-progress jobs draw their ids from one counter and never share
\* one, nor does an id in the queue, in a message or on record at another peer
\* name a job p is executing.
IdsNeverCollide ==
    \A p \in Peers :
        /\ \A i \in DOMAIN executing[p] : i \notin DOMAIN jobs[p] /\ i \notin Range(queue[p])
        /\ \A q \in Peers : \A i \in DOMAIN executing[q] :
              executing[q][i].owner = p => executing[q][i].id \notin DOMAIN executing[p]

-----------------------------------------------------------------------------
(* Who knows whom. *)

WorkTypes == {"RequestJobs", "DelegateJob", "NoMoreJobs", "JobCompleted", "JobUpdate", "CancelJob"}

\* on_receive_message ignores what comes from unknown peers; no message that
\* moves a job ever does, whatever order pings and other messages arrive in.
NoWorkIgnored ==
    \A m \in DOMAIN net : m.type \in WorkTypes => m.src \in known[m.dst]

-----------------------------------------------------------------------------
(* What clients see. *)

Notes(type) == {m \in DOMAIN inbox : m.type = type}

NoteBag(type) ==
    [x \in {<<m.dst, <<m.src, m.id>>>> : m \in Notes(type)} |->
        inbox[[src |-> x[2][1], dst |-> x[1], type |-> type, id |-> x[2][2]]]]

Service == INSTANCE JobService WITH
    Jobs <- Peers \X JobIds,
    accepted <- NoteBag("JobAccepted"),
    answered <- NoteBag("JobCompleted")

\* The network of peers keeps the promise of module JobService.
ServiceKept == Service!Spec

-----------------------------------------------------------------------------
(* Faults a peer brings on itself. *)

\* A worker thread's posts find the job and the thread they are about, as
\* on_job_update and on_job_processing_completed assert.
LocalAssertionsHold == \A p \in Peers : status[p] # "assert_local"

\* on_delegated_job_update and on_delegated_job_completed assert that the job
\* they are told of is still in m_jobs; on_receive_ping asserts that a job it is
\* pinged about is on record as executed by the sender.
UpdateAssertionHolds == \A p \in Peers : status[p] # "assert_update"
CompletionAssertionHolds == \A p \in Peers : status[p] # "assert_completed"
PingAssertionHolds == \A p \in Peers : status[p] # "assert_ping"

\* check_owned_jobs means to leave a job that is still queued alone.
QueuedOnce ==
    \A p \in Peers : \A a, b \in DOMAIN queue[p] : queue[p][a] = queue[p][b] => a = b

\* have_available_work means that there is work on the queue.
QueueHoldsWork ==
    \A p \in Peers : Alive(p) /\ queue[p] # << >> =>
        \E i \in DOMAIN queue[p] : queue[p][i] \in DOMAIN jobs[p]

-----------------------------------------------------------------------------
(* Progress. *)

\* Every client told of its job has been told of the job's completion.
AllAnswered ==
    \A m \in Notes("JobAccepted") : [m EXCEPT !.type = "JobCompleted"] \in DOMAIN inbox

\* A client told of its job is told of the job's completion: it never stays
\* unanswered from some moment on.
EveryJobAnswered == []<>AllAnswered

\* Those a peer knows know that peer, and everyone else it knows.
MutuallyAcquainted ==
    \A q \in Peers : \A r \in known[q] : (known[q] \cup {q}) \ {r} \subseteq known[r]

\* Acquaintance spreads: whoever a peer knows comes to know that peer, and
\* everyone else it knows, and it stays so.
AcquaintanceSpreads == <>[]MutuallyAcquainted

=============================================================================
