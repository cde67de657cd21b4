------------------------------ MODULE Peerwork ------------------------------
(***************************************************************************)
(* The distributed work-sharing service of common/peerwork: a network of   *)
(* peers, each the owner of a queue of jobs posted by its clients and a    *)
(* worker for the jobs any peer (itself included) delegates to it.         *)
(*                                                                         *)
(* One action per handler of peer.cpp.  A peer runs its handlers one at a  *)
(* time on one io_service; its worker threads only post to that service.   *)
(* A message to another peer travels on a TCP connection of its own, so    *)
(* messages in flight form a bag, delivered in any order and lost without  *)
(* notice when the connection fails.  What a peer sends to itself and what *)
(* its worker threads post is a FIFO, posted[p].                           *)
(*                                                                         *)
(* Abstractions: a peer id, a client id and a client's name are model      *)
(* values; endpoints, job texts, results and update texts are left out,    *)
(* except that a job description is "given" or "blank" (default-made).     *)
(* Time is abstracted to whether a job's last ping is older than           *)
(* JobTimeout.  The build modelled keeps its assertions: a failing assert  *)
(* aborts the peer.                                                        *)
(***************************************************************************)
EXTENDS Integers, Sequences, FiniteSets, Bags, SequencesExt

CONSTANTS
    Peers,        \* the peer processes that may ever run
    Clients,      \* the clients
    None,         \* no peer: an unset executing_peer, an unregistered client
    NoClient,     \* the client id of a default-made local_job
    Rank,         \* the order of peer ids in the std::maps keyed by them
    MaxThreads,   \* MaxThreads[p]: the --threads option of p
    Contacts,     \* Contacts[p]: the peers named by the --peers option of p
    Equipped,     \* the peers that have loaded the executor of the jobs' type
    Bound         \* Bound[e]: how often the environment event e may happen

Events == {"post", "check", "expire", "crash", "lose", "update"}

ASSUME PeersAssumption ==
    /\ IsFiniteSet(Peers)
    /\ None \notin Peers
    /\ NoClient \notin Clients
    /\ Peers \cap Clients = {}
    /\ MaxThreads \in [Peers -> Nat]
    /\ Contacts \in [Peers -> SUBSET Peers]
    /\ \A p \in Peers : p \notin Contacts[p]
    /\ Rank \in [Peers -> Nat]
    /\ \A p, q \in Peers : Rank[p] = Rank[q] => p = q
    /\ Equipped \subseteq Peers
    /\ Bound \in [Events -> Nat]

VARIABLES
    status,       \* status[p]: not started, running, or how p's process ended
    known,        \* known[p]: m_peers, never p itself
    jobs,         \* jobs[p]: m_jobs, the jobs p owns
    queue,        \* queue[p]: m_available_jobs
    nextId,       \* nextId[p]: m_next_job_id, for owned and in-progress jobs
    executing,    \* executing[p]: m_executing_jobs, each with its thread
    avail,        \* avail[p][q]: m_peer_states[q].jobs_available
    open,         \* open[p][q]: m_open_requests[q].count
    posted,       \* posted[p]: handlers posted to p's own io_service
    net,          \* the bag of messages in flight between processes
    home,         \* home[c]: the peer client c registered with
    inbox,        \* the bag of messages sent to clients
    executed,     \* history: the jobs <<owner, id>> run to their end
    spent         \* spent[e]: how often the environment event e has happened

peerVars == <<known, jobs, queue, nextId, executing, avail, open>>
vars == <<status, known, jobs, queue, nextId, executing, avail, open,
          posted, net, home, inbox, executed, spent>>

JobIds == Nat

Alive(p) == status[p] = "up"

-----------------------------------------------------------------------------
(* Messages. *)

Message ==
         [src : Peers, dst : Peers, type : {"Ping"}, count : Nat,
          peers : SUBSET Peers, ids : SUBSET JobIds]
    \cup [src : Peers, dst : Peers, type : {"AvailableWork", "RequestJobs"},
          count : Nat]
    \cup [src : Peers, dst : Peers, type : {"DelegateJob"}, id : JobIds,
          desc : {"given", "blank"}]
    \cup [src : Peers, dst : Peers, type : {"NoMoreJobs"}]
    \cup [src : Peers, dst : Peers,
          type : {"JobCompleted", "CancelJob", "JobUpdate"}, id : JobIds]

\* What a worker thread posts to its peer: handlers keyed by in-progress id.
LocalEvent == [src : Peers, dst : Peers, type : {"Updated", "Finished"}, id : JobIds]

ClientPost == [src : Clients, dst : Peers, type : {"Post"}]

ClientMessage == [src : Peers, dst : Clients,
                  type : {"JobAccepted", "JobStatus", "JobCompleted"}, id : JobIds]

Ping(p, q, list) ==
    [src |-> p, dst |-> q, type |-> "Ping", count |-> Len(queue[p]), peers |-> list,
     ids |-> {executing[p][i].id : i \in {k \in DOMAIN executing[p] : executing[p][k].owner = q}}]

AvailableWork(p, q, n) == [src |-> p, dst |-> q, type |-> "AvailableWork", count |-> n]
RequestJobs(p, q, n) == [src |-> p, dst |-> q, type |-> "RequestJobs", count |-> n]
DelegateJob(p, q, j, d) == [src |-> p, dst |-> q, type |-> "DelegateJob", id |-> j, desc |-> d]
NoMoreJobs(p, q) == [src |-> p, dst |-> q, type |-> "NoMoreJobs"]
JobNote(p, q, t, j) == [src |-> p, dst |-> q, type |-> t, id |-> j]

-----------------------------------------------------------------------------
(* Sending and receiving. *)

\* A message a peer sends to itself, or a worker's post, waits in posted; any
\* other one is in the network.
Local(m) == m.src = m.dst

\* m is consumed; p sends the bag out to other processes and the sequence
\* self to itself.
Exchange(p, m, out, self) ==
    /\ net' = (IF Local(m) THEN net ELSE net (-) SetToBag({m})) (+) out
    /\ posted' = [posted EXCEPT ![p] = (IF Local(m) THEN Tail(@) ELSE @) \o self]

Consume(m) == Exchange(m.dst, m, EmptyBag, << >>)

\* p sends without having received anything.
Emit(p, out, self) ==
    /\ net' = net (+) out
    /\ posted' = [posted EXCEPT ![p] = @ \o self]

\* A message to a default-made client goes to a blank endpoint.
TellClient(p, c, type, j) ==
    inbox' = IF c = NoClient THEN inbox
             ELSE inbox (+) SetToBag({[src |-> p, dst |-> c, type |-> type, id |-> j]})

Spend(e) == spent[e] < Bound[e] /\ spent' = [spent EXCEPT ![e] = @ + 1]

\* p's process ends while it handles m; what it held in memory is never used again.
Die(m, cause) ==
    /\ status' = [status EXCEPT ![m.dst] = cause]
    /\ Consume(m)
    /\ UNCHANGED <<peerVars, home, inbox, executed, spent>>

-----------------------------------------------------------------------------
(* Looking for work. *)

\* The requests counted by op, one element each.
OpenSlots(op) == UNION {{q} \X (1..op[q]) : q \in Peers}

\* Faulty: the requests already made are not deducted.
FreeWorkCapacityForgetsRequests(p, op, ex) ==
    LET free == MaxThreads[p] - Cardinality(DOMAIN ex) IN IF free > 0 THEN free ELSE 0

FreeWorkCapacity(p, op, ex) ==
    LET free == MaxThreads[p] - Cardinality(DOMAIN ex) - Cardinality(OpenSlots(op))
    IN IF free > 0 THEN free ELSE 0

\* Faulty: the request is not limited to what is available.
WithinOfferUnlimited(ask, av) == \A q \in Peers : av[q] = 0 => ask[q] = 0

WithinOffer(ask, av) == \A q \in Peers : ask[q] <= av[q]

\* How many jobs p asks of each peer: it serves itself from the known available
\* jobs in the order of the peer ids, until its free capacity is used up.
Asked(p, av, op, ex) ==
    LET free == FreeWorkCapacity(p, op, ex)
    IN {ask \in [Peers -> 0..MaxThreads[p]] :
          /\ WithinOffer(ask, av)
          /\ Cardinality(OpenSlots(ask)) <= free
          /\ \A q \in Peers : ask[q] < av[q] =>
                /\ Cardinality(OpenSlots(ask)) = free
                /\ \A r \in Peers : Rank[q] < Rank[r] => ask[r] = 0}

LookForWork(p, av, op, ask) ==
    /\ avail' = [avail EXCEPT ![p] = [q \in Peers |-> av[q] - ask[q]]]
    /\ open' = [open EXCEPT ![p] = [q \in Peers |-> op[q] + ask[q]]]

Requests(p, ask) ==
    SetToBag({RequestJobs(p, q, ask[q]) : q \in {r \in Peers \ {p} : ask[r] > 0}})

\* Faulty: the request to itself is counted but never sent.
OwnRequestUnsent(p, ask) == << >>

OwnRequest(p, ask) ==
    IF ask[p] > 0 THEN <<RequestJobs(p, p, ask[p])>> ELSE << >>

-----------------------------------------------------------------------------
(* Handlers of messages between peers. *)

\* The peers p knows after m, and those of them it pings because they are new.
Acquaintance(p, m) == (known[p] \cup m.peers \cup {m.src}) \ {p}

\* Faulty: only the sender is pinged back, not the peers on its list.
NewcomersSenderOnly(p, m) == (Acquaintance(p, m) \ known[p]) \cap {m.src}

Newcomers(p, m) == Acquaintance(p, m) \ known[p]

\* An owned job just heard of.
Pinged(job) == [job EXCEPT !.stale = FALSE]

OnPing(p, m) ==
    LET av == [avail[p] EXCEPT ![m.src] = m.count]
        delegated == \A j \in m.ids : j \in DOMAIN jobs[p] /\ jobs[p][j].exec = m.src
    IN \/ /\ ~delegated
          /\ Die(m, "assert_ping")
       \/ /\ delegated
          /\ known' = [known EXCEPT ![p] = Acquaintance(p, m)]
          /\ jobs' = [jobs EXCEPT ![p] = [j \in DOMAIN @ |->
                        IF j \in m.ids THEN Pinged(@[j]) ELSE @[j]]]
          /\ \E ask \in Asked(p, av, open[p], executing[p]) :
               /\ LookForWork(p, av, open[p], ask)
               /\ Exchange(p, m, SetToBag({Ping(p, q, Acquaintance(p, m)) : q \in Newcomers(p, m)})
                                   (+) Requests(p, ask), OwnRequest(p, ask))
          /\ UNCHANGED <<status, queue, nextId, executing, home, inbox, executed, spent>>

OnAvailableWork(p, m) ==
    LET av == [avail[p] EXCEPT ![m.src] = m.count]
    IN /\ \E ask \in Asked(p, av, open[p], executing[p]) :
            /\ LookForWork(p, av, open[p], ask)
            /\ Exchange(p, m, Requests(p, ask), OwnRequest(p, ask))
       /\ UNCHANGED <<status, known, jobs, queue, nextId, executing, home, inbox, executed, spent>>

\* The client of a job, and its description: an id whose job is gone from
\* m_jobs is looked up there all the same, and gets a default-made entry.
ClientOf(p, j) == IF j \in DOMAIN jobs[p] THEN jobs[p][j].client ELSE NoClient
Description(p, j) == IF ClientOf(p, j) = NoClient THEN "blank" ELSE "given"

\* Faulty: the executing peer is not recorded, or recorded as p itself.
DelegatedUnrecorded(p, m, j) == [client |-> ClientOf(p, j), exec |-> None, stale |-> FALSE]
DelegatedToSelf(p, m, j) == [client |-> ClientOf(p, j), exec |-> p, stale |-> FALSE]

\* The entry in m_jobs of a job handed out in answer to m.
Delegated(p, m, j) == [client |-> ClientOf(p, j), exec |-> m.src, stale |-> FALSE]

\* Faulty: a request that is met in full is refused as well.
RefusalAlways(p, m, n) == <<NoMoreJobs(p, m.src)>>

\* A request for count jobs that n jobs answer: one NoMoreJobs for all the rest.
Refusal(p, m, n) == IF m.count > n THEN <<NoMoreJobs(p, m.src)>> ELSE << >>

\* Faulty: one job too many leaves the queue.
RemainingSkipsOne(p, n) == SubSeq(queue[p], n + 2, Len(queue[p]))

Remaining(p, n) == SubSeq(queue[p], n + 1, Len(queue[p]))

OnJobRequest(p, m) ==
    LET n == IF m.count < Len(queue[p]) THEN m.count ELSE Len(queue[p])
        handed == SubSeq(queue[p], 1, n)
        reply == [i \in 1..n |-> DelegateJob(p, m.src, handed[i], Description(p, handed[i]))]
                   \o Refusal(p, m, n)
    IN /\ queue' = [queue EXCEPT ![p] = Remaining(p, n)]
       /\ jobs' = [jobs EXCEPT ![p] = [j \in DOMAIN @ \cup Range(handed) |->
                     IF j \in Range(handed) THEN Delegated(p, m, j) ELSE @[j]]]
       /\ IF Local(m) THEN Exchange(p, m, EmptyBag, reply)
                      ELSE Exchange(p, m, ToBag(reply), << >>)
       /\ UNCHANGED <<status, known, nextId, executing, avail, open, home, inbox, executed, spent>>

\* Faulty: the request stays open.
CloseForgotten(op, q) == op

\* One job fewer is expected of q.
Close(op, q) == [op EXCEPT ![q] = @ - 1]

\* Faulty: jobs in progress are numbered by themselves.
InProgressIdOwnNumber(p) == Cardinality(DOMAIN executing[p])

\* Ids of jobs in progress come from the counter of the owned jobs' ids.
InProgressId(p) == nextId[p]

\* A job that finds every thread busy is ignored, and its owner not told.
OnReceiveJob(p, m) ==
    /\ IF Cardinality(DOMAIN executing[p]) < MaxThreads[p]
       THEN /\ executing' = [executing EXCEPT ![p] =
                 [i \in DOMAIN @ \cup {InProgressId(p)} |->
                    IF i = InProgressId(p) THEN [owner |-> m.src, id |-> m.id, desc |-> m.desc,
                                           done |-> FALSE]
                    ELSE @[i]]]
            /\ nextId' = [nextId EXCEPT ![p] = @ + 1]
       ELSE UNCHANGED <<executing, nextId>>
    /\ open' = [open EXCEPT ![p] = Close(@, m.src)]
    /\ Consume(m)
    /\ UNCHANGED <<status, known, jobs, queue, avail, home, inbox, executed, spent>>

OnNotifiedNoJobs(p, m) ==
    LET op == Close(open[p], m.src)
    IN /\ \E ask \in Asked(p, avail[p], op, executing[p]) :
            /\ LookForWork(p, avail[p], op, ask)
            /\ Exchange(p, m, Requests(p, ask), OwnRequest(p, ask))
       /\ UNCHANGED <<status, known, jobs, queue, nextId, executing, home, inbox, executed, spent>>

OnDelegatedJobUpdate(p, m) ==
    \/ /\ m.id \notin DOMAIN jobs[p]
       /\ Die(m, "assert_update")
    \/ /\ m.id \in DOMAIN jobs[p]
       /\ TellClient(p, jobs[p][m.id].client, "JobStatus", m.id)
       /\ Consume(m)
       /\ UNCHANGED <<status, peerVars, home, executed, spent>>

\* Faulty: the completed job stays in m_jobs.
WithoutForgotten(p, j) == jobs[p]

Without(p, j) == [k \in DOMAIN jobs[p] \ {j} |-> jobs[p][k]]

OnDelegatedJobCompleted(p, m) ==
    \/ /\ m.id \notin DOMAIN jobs[p]
       /\ Die(m, "assert_completed")
    \/ /\ m.id \in DOMAIN jobs[p]
       /\ jobs' = [jobs EXCEPT ![p] = Without(p, m.id)]
       /\ TellClient(p, jobs[p][m.id].client, "JobCompleted", m.id)
       /\ Consume(m)
       /\ UNCHANGED <<status, known, queue, nextId, executing, avail, open, home, executed, spent>>

\* Retraction is received and ignored.
OnJobRetracted(p, m) ==
    /\ Consume(m)
    /\ UNCHANGED <<status, peerVars, home, inbox, executed, spent>>

-----------------------------------------------------------------------------
(* Clients' jobs. *)

\* A job id joins the queue and every known peer, and p itself, hears of it.
Advertise(p, n) == SetToBag({AvailableWork(p, q, n) : q \in known[p]})

OnClientJobRequest(p, m) ==
    LET j == nextId[p]
        n == Len(queue[p]) + 1
    IN /\ nextId' = [nextId EXCEPT ![p] = @ + 1]
       /\ jobs' = [jobs EXCEPT ![p] = [k \in DOMAIN @ \cup {j} |->
                     IF k = j THEN [client |-> m.src, exec |-> None, stale |-> FALSE] ELSE @[k]]]
       /\ queue' = [queue EXCEPT ![p] = Append(@, j)]
       /\ Exchange(p, m, Advertise(p, n), <<AvailableWork(p, p, n)>>)
       /\ TellClient(p, m.src, "JobAccepted", j)
       /\ UNCHANGED <<status, known, executing, avail, open, home, executed, spent>>

-----------------------------------------------------------------------------
(* Local processing of delegated jobs. *)

\* p sends a note on an in-progress job to the job's owner, then the requests
\* of ask.
Report(p, m, type, job, ask) ==
    LET note == JobNote(p, job.owner, type, job.id)
    IN IF job.owner = p
       THEN Exchange(p, m, Requests(p, ask), <<note>> \o OwnRequest(p, ask))
       ELSE Exchange(p, m, SetToBag({note}) (+) Requests(p, ask), OwnRequest(p, ask))

NoAsk == [q \in Peers |-> 0]

OnJobUpdate(p, m) ==
    \/ /\ m.id \notin DOMAIN executing[p]
       /\ Die(m, "assert_local")
    \/ /\ m.id \in DOMAIN executing[p]
       /\ Report(p, m, "JobUpdate", executing[p][m.id], NoAsk)
       /\ UNCHANGED <<status, peerVars, home, inbox, executed, spent>>

OnJobProcessingCompleted(p, m) ==
    \/ /\ m.id \notin DOMAIN executing[p]
       /\ Die(m, "assert_local")
    \/ /\ m.id \in DOMAIN executing[p]
       /\ LET rest == [i \in DOMAIN executing[p] \ {m.id} |-> executing[p][i]]
          IN /\ executing' = [executing EXCEPT ![p] = rest]
             /\ \E ask \in Asked(p, avail[p], open[p], rest) :
                  /\ LookForWork(p, avail[p], open[p], ask)
                  /\ Report(p, m, "JobCompleted", executing[p][m.id], ask)
       /\ UNCHANGED <<status, known, jobs, queue, nextId, home, inbox, executed, spent>>

\* There is an executor for the job's type; a blank job has a type of none.
HasExecutor(p, i) == p \in Equipped /\ executing[p][i].desc = "given"

\* Faulty: an executor may still call back after it has returned.
WorkingAfterReturn(p, i) ==
    Alive(p) /\ i \in DOMAIN executing[p] /\ HasExecutor(p, i)

\* The executor of a running job calls back with an update, or returns.
Working(p, i) ==
    /\ Alive(p)
    /\ i \in DOMAIN executing[p]
    /\ HasExecutor(p, i)
    /\ ~executing[p][i].done

WorkerUpdate(p, i) ==
    /\ Working(p, i)
    /\ Spend("update")
    /\ Emit(p, EmptyBag, <<JobNote(p, p, "Updated", i)>>)
    /\ UNCHANGED <<status, peerVars, home, inbox, executed>>

WorkerFinish(p, i) ==
    /\ Working(p, i)
    /\ executing' = [executing EXCEPT ![p][i] = [@ EXCEPT !.done = TRUE]]
    /\ executed' = executed \cup {<<executing[p][i].owner, executing[p][i].id>>}
    /\ Emit(p, EmptyBag, <<JobNote(p, p, "Finished", i)>>)
    /\ UNCHANGED <<status, known, jobs, queue, nextId, avail, open, home, inbox, spent>>

\* The thread of a job without an executor calls an empty function, and the
\* exception it throws ends the process.
NoExecutorTerminates(p, i) ==
    /\ Alive(p)
    /\ i \in DOMAIN executing[p]
    /\ ~HasExecutor(p, i)
    /\ status' = [status EXCEPT ![p] = "terminated"]
    /\ UNCHANGED <<peerVars, posted, net, home, inbox, executed, spent>>

-----------------------------------------------------------------------------
(* Timers. *)

\* The last ping for a job delegated to another peer is now over JobTimeout old.
Expire(p, j) ==
    /\ Alive(p)
    /\ j \in DOMAIN jobs[p]
    /\ jobs[p][j].exec \notin {None, p}
    /\ ~jobs[p][j].stale
    /\ Spend("expire")
    /\ jobs' = [jobs EXCEPT ![p][j] = [@ EXCEPT !.stale = TRUE]]
    /\ UNCHANGED <<status, known, queue, nextId, executing, avail, open, posted, net,
                   home, inbox, executed>>

StaleJobs(p) ==
    {j \in DOMAIN jobs[p] : jobs[p][j].exec \notin {None, p} /\ jobs[p][j].stale}

StatusPings(p) == {Ping(p, q, known[p]) : q \in known[p]}

Retractions(p) == {JobNote(p, jobs[p][j].exec, "CancelJob", j) : j \in StaleJobs(p)}

\* The stale jobs in the order of their ids.
Requeued(p) ==
    {again \in [1..Cardinality(StaleJobs(p)) -> StaleJobs(p)] :
        \A a, b \in DOMAIN again : a < b => again[a] < again[b]}

\* Each requeued job is advertised with the length of the queue it makes.
Offers(p, again) ==
    {AvailableWork(p, q, Len(queue[p]) + a) : q \in known[p], a \in DOMAIN again}
OwnOffers(p, again) == [a \in DOMAIN again |-> AvailableWork(p, p, Len(queue[p]) + a)]

\* Pings go to every known peer; then each stale job is retracted and queued
\* again, its executing_peer left as it is.
OnStatusCheck(p) ==
    /\ Alive(p)
    /\ Spend("check")
    /\ \E again \in Requeued(p) :
         /\ queue' = [queue EXCEPT ![p] = @ \o again]
         /\ Emit(p, SetToBag(StatusPings(p) \cup Retractions(p) \cup Offers(p, again)),
                 OwnOffers(p, again))
    /\ UNCHANGED <<status, known, jobs, nextId, executing, avail, open, home, inbox, executed>>

-----------------------------------------------------------------------------
(* Dispatch. *)

\* Faulty: messages from unknown peers are handled too.
IsPeerKnownAnyone(p, q) == q \in Peers

IsPeerKnown(p, q) == q = p \/ q \in known[p]

OnReceivePeerMessage(p, m) ==
    \/ m.type = "AvailableWork" /\ OnAvailableWork(p, m)
    \/ m.type = "RequestJobs" /\ OnJobRequest(p, m)
    \/ m.type = "DelegateJob" /\ OnReceiveJob(p, m)
    \/ m.type = "NoMoreJobs" /\ OnNotifiedNoJobs(p, m)
    \/ m.type = "JobUpdate" /\ OnDelegatedJobUpdate(p, m)
    \/ m.type = "JobCompleted" /\ OnDelegatedJobCompleted(p, m)
    \/ m.type = "CancelJob" /\ OnJobRetracted(p, m)

Deliver(m) ==
    /\ Alive(m.dst)
    /\ \/ m.type = "Ping" /\ OnPing(m.dst, m)
       \/ m.type = "Post" /\ OnClientJobRequest(m.dst, m)
       \/ IsPeerKnown(m.dst, m.src) /\ OnReceivePeerMessage(m.dst, m)

\* The connection to a peer that is not running fails; a peer ignores what
\* it gets from a peer it does not know.
Discard(m) ==
    /\ \/ ~Alive(m.dst)
       \/ m.type \notin {"Ping", "Post"} /\ ~IsPeerKnown(m.dst, m.src)
    /\ Consume(m)
    /\ UNCHANGED <<status, peerVars, home, inbox, executed, spent>>

Lose(m) ==
    /\ Spend("lose")
    /\ Consume(m)
    /\ UNCHANGED <<status, peerVars, home, inbox, executed>>

RunPosted(p) ==
    /\ Alive(p)
    /\ posted[p] # << >>
    /\ LET m == Head(posted[p])
       IN \/ OnReceivePeerMessage(p, m)
          \/ m.type = "Updated" /\ OnJobUpdate(p, m)
          \/ m.type = "Finished" /\ OnJobProcessingCompleted(p, m)

-----------------------------------------------------------------------------
(* The environment: processes start and end, clients register and post. *)

Start(p) ==
    /\ status[p] = "off"
    /\ status' = [status EXCEPT ![p] = "up"]
    /\ Emit(p, SetToBag({Ping(p, q, {}) : q \in Contacts[p]}), << >>)
    /\ UNCHANGED <<peerVars, home, inbox, executed, spent>>

Crash(p) ==
    /\ Alive(p)
    /\ Spend("crash")
    /\ status' = [status EXCEPT ![p] = "crashed"]
    /\ UNCHANGED <<peerVars, posted, net, home, inbox, executed>>

\* Registration is synchronous: request and answer on one connection.
Register(c, p) ==
    /\ home[c] = None
    /\ Alive(p)
    /\ home' = [home EXCEPT ![c] = p]
    /\ UNCHANGED <<status, peerVars, posted, net, inbox, executed, spent>>

PostJob(c) ==
    /\ home[c] # None
    /\ Spend("post")
    /\ net' = net (+) SetToBag({[src |-> c, dst |-> home[c], type |-> "Post"]})
    /\ UNCHANGED <<status, peerVars, posted, home, inbox, executed>>

-----------------------------------------------------------------------------

EmptyMap == [i \in {} |-> None]

\* No job anywhere and nothing in flight.
Idle ==
    /\ jobs = [p \in Peers |-> EmptyMap]
    /\ queue = [p \in Peers |-> << >>]
    /\ nextId = [p \in Peers |-> 0]
    /\ executing = [p \in Peers |-> EmptyMap]
    /\ avail = [p \in Peers |-> NoAsk]
    /\ open = [p \in Peers |-> NoAsk]
    /\ posted = [p \in Peers |-> << >>]
    /\ net = EmptyBag
    /\ inbox = EmptyBag
    /\ executed = {}
    /\ spent = [e \in Events |-> 0]

Init ==
    /\ Idle
    /\ status = [p \in Peers |-> "off"]
    /\ known = [p \in Peers |-> {}]
    /\ home = [c \in Clients |-> None]

Serve(p) == RunPosted(p) \/ \E m \in DOMAIN net : m.dst = p /\ (Deliver(m) \/ Discard(m))

Work(p) == \E i \in DOMAIN executing[p] : WorkerFinish(p, i) \/ NoExecutorTerminates(p, i)

Next ==
    \/ \E p \in Peers :
         \/ Start(p) \/ Crash(p)
         \/ Serve(p) \/ Work(p)
         \/ OnStatusCheck(p)
         \/ \E j \in DOMAIN jobs[p] : Expire(p, j)
         \/ \E i \in DOMAIN executing[p] : WorkerUpdate(p, i)
    \/ \E c \in Clients : PostJob(c) \/ \E p \in Peers : Register(c, p)
    \/ \E m \in DOMAIN net : Lose(m)

Spec == Init /\ [][Next]_vars

\* The io_service of a running peer keeps running handlers, and executors return.
Fairness == \A p \in Peers : WF_vars(Serve(p)) /\ WF_vars(Work(p))

FairSpec == Spec /\ Fairness

=============================================================================
