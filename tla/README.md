# workbase in TLA+

workbase is a collection of C++ programs around neuroevolution: a network of
peers that share work, two interactive clients that run simulations and genetic
algorithms, and the libraries beneath them. This directory holds a formal model
of the parts that run concurrently and of the sequential parts whose state has to
stay consistent over long series of calls: what they should satisfy, the TLC runs
that check it on small instances and the TLAPS proofs that establish some of it
for every instance. Paths below are relative to `src/code/`.

## 1. Inventory

| part | state | operations | interacts by |
|---|---|---|---|
| **peerwork peer** `common/peerwork/peerwork/peer.cpp` | known peers, owned jobs, their queue, jobs in execution and their threads, other peers' counts of available jobs, open requests, clients | a handler for each of seven peer messages and two client messages, two handlers for what worker threads post, the status check timer | TCP messages, one connection each; handlers on one `io_service` |
| **peerwork transport** `common/peerwork/shared` | none that outlives a message | connect, write, accept, read, dispatch | callbacks on the `io_service` |
| **peerwork client library** `common/peerwork/pwork_client` | client id, jobs waiting for their result | register, post a job, receive acceptance, update, result | TCP messages to its peer |
| **peerwork executors** | loaded libraries | execute a job, report updates | a thread per job |
| **system_sim_client** `neuroevo/system_sim_client` | state machine, simulated system, run thread, `io_service` queue, charts and drawers | init, modify, step, run, stop, exit, reset, chart, drawer, get, :q | commands on the Wt session thread, posted events on the `io_service` thread, mutex `sys_mx` |
| **ga_client** `neuroevo/ga_client` | the same machine, genetic algorithm, serializer's buffers, database | the same, and pop, best, store, repeat, dbplot | the same, and transactions of Wt::Dbo |
| **clsm** `common/clsm` | the nested states' parsers | parse and dispatch a command | boost::statechart events |
| **displays** `common/wt_cmdline_server`, `common/wt_displays`, `neuroevo/common/wt_displays_ne`, `active_state.cpp` of system_sim_client | displays by id, the page of each, the charts' points, the terminal | chart, drawer, open a page, store, redraw, clear, paint | mutexes `dd_mx` and `sys_mx`, functions posted to sessions |
| **commands** `common/commands` | history of the command line and the position in it | dispatch, up, down | called on the terminal's session |
| **ddl** `common/ddl` | a tree of parameters and its definition | set, add, remove, reset, navigate, save, load | called by the editors |
| **genetic algorithm** `neuroevo/common/genetic_algorithm` | a population and its fitness | reset, epoch | called by ga_client |
| **elevator and other systems** `neuroevo/common/systems`, `system_sim` | a simulated system | initialize, update | called by a client |
| **ranges of neural networks** `neuroevo/common/neuralnet/interface`, `common/util/multi_interval.h` | sets of intervals | insert, scale, add, apply an activation function | called by `nn_cmd` to show what a network can output |
| training, physics, Box2D, widgets, input, older generations, utilities | | | numeric, or user interface |

What is hard in them, and what makes them correct:

* *Peers.* Messages overtake each other, since each has its own connection; they
  are lost without notice; peers start in any order and end at any time; a job
  that times out is given to another peer while the first still works on it; a
  worker thread reports while its peer handles something else. Correct means
  that no job is lost or duplicated without a timeout, no client is answered
  twice, threads are never oversubscribed, the counters of open requests agree
  with the answers on their way, ids of different peers are never confused,
  posted jobs are answered and peers that know of each other find each other.
* *Clients.* Two threads call `process_event` on one state machine. The run
  thread posts an event to end its own state, and that state's destructor joins
  the thread. Correct means that a system is shown as completed exactly if it
  has ended, that no thread outlives what it uses, that no handler waits for
  ever, and that `:q` ends the client.
* *Recording.* Generations and genomes are buffered and stored in batches, each
  in one transaction; the process may end between two of them. Correct means that the
  database always holds a consistent prefix, that a pause stores everything
  and that a finished run has an end or is removed.
* *Displays.* A display exists before a page opens it; `dd_mx` is locked by one
  call and unlocked by another; a run stores points and a reset clears them on
  different threads, while pages read them when a posted function gets to it.
  Correct means that no page shows points of a run that was cleared, that the
  runs are not mixed, that ids are not given twice and that every command ends.
* *Commands.* The history grows without the position in it being told.
* *ddl.* Schemas depend on values elsewhere in the tree, in turn. Correct means
  that one pass over the definitions brings the whole tree up to date, that
  it loses no value that still fits, and that a saved file loads to the same tree.
* *Genetic algorithm.* Selection, evaluation and sorting in an order that
  loses no good genome.
* *Elevator.* The same people are counted in five places that one update changes
  one after the other, and the history outlives the system it is about.
* *Ranges.* Correct means that a range covers every value, though intervals are
  merged, clipped and joined to keep their number down.

`PROJECT.json` lists the hazards line by line, with the properties that cover them.

## 2. Modules

| module | what it is |
|---|---|
| `Peerwork` | every handler of `peer.cpp`, the timer, worker threads, starts and ends of processes, the network |
| `JobService` | what a client is promised, whichever peers carry a job out |
| `PeerworkProperties` | type invariant, safety, liveness and the refinement mapping to `JobService` |
| `MCPeerwork` | the values of the constants and the joined network for TLC |
| `PeerworkSafetyProofs` | type correctness, three safety properties of peers and the refinement of `JobService`, for every network |
| `PeerworkCountProofs` | the properties that count requests, answers and threads |
| `PeerworkCopyProofs` | the properties that count the copies of a job |
| `ClientControl` | the control machine that both clients share, the run thread and the `io_service` |
| `ClientControlProofs` | type correctness and two safety properties of it, for every instance |
| `GaClient` | `ClientControl` (by INSTANCE, `CanEnd <- FALSE`) composed with the generation counter, the serializer and the database |
| `GaClientProofs` | its four safety properties, for every size of batches and population |
| `DisplayRegistry` | the registry of displays, the active state that fills and clears them, rounds of the system, the pages |
| `CommandInput` | the history of the command line |
| `ParamTree` | the tree of parameters, its adjustment to its definition, references, the editor, files |
| `ParamTreeProofs` | three of its four properties, for any names, types and numbers of entries |
| `Genalg` | generations of the genetic algorithm |
| `Elevator` | the elevator system |
| `ActivationRange` | the ranges of the inputs and outputs of neurons |
| `MCComponents` | the last six, which share no state, checked together: `subject` says whose behaviour it is |
| `ComponentProofs` | theorems about the other five of these six, for every instance |
| `FiniteSetLemmas` | least elements, cardinalities, induction over subsets and sums over finite sets, which the other proofs use |

### Peerwork and the code

| variable | in `peer.cpp` |
|---|---|
| `status` | whether the process is off, runs, crashed, ended by a failed assertion or by `std::terminate` |
| `known`, `jobs`, `queue`, `nextId` | `m_peers` (never the peer itself), `m_jobs`, `m_available_jobs`, `m_next_job_id` |
| `executing` | `m_executing_jobs` with `m_job_threads` |
| `avail`, `open` | `m_peer_states[q].jobs_available`, `m_open_requests[q].count` |
| `posted` | handlers posted to the peer's own `io_service`, messages to itself among them: a queue |
| `net`, `inbox` | bags of messages between processes and to clients: unordered |
| `executed`, `spent` | history and bounds; no code reads them |

An action is a whole handler. `OnPing`, for instance, adds the unknown peers of
the sender's list and the sender, pings those that are new, sets `avail`, touches
the jobs named, and ends with `look_for_work`, which may ask several peers (in
the order of `std::map`, `Rank`) for as many jobs as capacity is left. What one
handler sends goes out in its step (`Exchange`). Time is reduced to whether a
job's last ping is older than `JobTimeout` (`Expire`).

Abstractions: ids of peers and clients are values; endpoints, texts and results
are left out, except that a description is "given" or "blank", the
default-constructed one that `m_jobs[jid]` makes; the build keeps its
assertions, so a failed one ends the peer. `Deliver` includes the parsing of
the message; partial reads are a loss (`Lose`).

### ClientControl and the code

`state` is the innermost state of the machine: the states around it (root,
inactive, active, not_running) hold one inner state at a time, and choice points
are passed within a step. `thread` is the point of `running::do_run` the run
thread has reached. `leaving[t]` is set while thread `t` waits in `~running` for
the run thread to be joined, in the middle of its transition. While it waits,
an event handled by the other thread enters a state machine that is not thread safe: the
model lets that event be dropped or the process end (`RaceOnStop`,
`RaceOnCommand`). `stops` counts the stop events waiting in the `io_service`.
`Reset` first resets the system, possibly under a running thread, and then
starts the transition, as `active::react` does. `interrupt` is a plain `bool` in
the code; the loop that reads it locks a mutex in every round, and the model
lets it see any value between the write and the join.

The prompt is taken from the machine after each command. When the `io_service`
ends a run no prompt is sent, so the one displayed lags until the next command;
`PromptIsTrue` is about the machine's state, from which it is taken.

### GaClient and the code

Each operation of `ga_db_serializer` is an operator from `[buffer, db]` to what
the call makes of it, so that a command is their composition: `Reset` is
`SerializePause(SerializeStart(SerializeEnd(Now)))`, as `~active`, `active` and
`not_running` call them. A run is its number, a generation `<<run, index>>`, a
genome `<<run, index, rank>>`. Handling of a step or repeat command is spread
over several steps (`handling`), one for each generation, so that the process may end
between them, and `CrashWhileRecording` ends it between the transactions of one generation.
While a step command is handled, stop events of the other thread meet the
paused state and are ignored. `repeat` has its ten trials of a thousand
generations reduced to `Trials` and `MaxGenerations`.

### DisplayRegistry and the code

| variable | in the code |
|---|---|
| `terminal`, `op` | the one terminal that `system_sim_client` accepts; what is left of the command its session handles |
| `activeState` | `active`: its charts, drawers, frame count and flag; `era` counts the active states there were |
| `round`, `interruptRun` | `step_system`, on the session's thread for `step` and on the run thread for `run`; `running::interrupt_request` |
| `sysHolder`, `ddHolder` | `active::sys_mx`; `dd_mx` from `get_display_data` to `release_display_data` |
| `nextId`, `registry`, `pages` | `next_id`, `display_data_mp` and, of each page, the rows it shows, the functions posted to it and whether it is to be painted |

A critical section of `dd_mx` is one step, except the pair of calls that leaves
the mutex locked in between; a command is spread over as many steps as it enters
critical sections. `next_id` is read and written in two steps, as it is outside
the mutex. Posting to a page that has not opened yet, or is gone, loses the
function; the widget of a page that has closed is deleted, and what a function that
still comes to be run does to it is undefined, so that the model shows nothing of it. `reload`, which is set when a chart is cleared and never unset
(`chart.cpp:63`), makes each later update remove and insert all rows: costly, but
right. A run without a frame rate redraws nothing, the redraw at its end being
commented out (`running_state.cpp:49`).

### CommandInput and the code

`dispatch` records a command and leaves `m_history_index` where it is, so the
up key recalls nothing until the down key has been pressed, and may then skip the
newest commands. The index stays in range all the same, which is what matters
to `at_position`.

### ParamTree and the code

`tree` maps addresses, the positions of the children on the way to a node, to
nodes with their edge, definition, schema and value. `Update` is
`update_sd_tree`: for each definition that depends on that of the start, in
topological order, every node of it is instantiated and adjusted. `Follow`
and `Where` are `navigator`, `ResolveAny` and `ResolveUnique` the lookup of
references, `Import` and `Exported` the conversion from and to YAML, and the
actions the commands of `paramtree_editor`: a command is for the editor's position or what it can address
from there (`Targets`, which has the descendents that `find_descendent` finds by name), and `SetValue` takes the schema by
the path to the node, as `schema_node_at` does. `Defn` is an outline of
`basic_system_defn2.cpp` that has one of each: composite, list, conditional, a
reference by name to any node and one to the nearest.

Three things the code leaves undone limit what holds, and the properties name each of them:

* removing an entry of a list other than the last leaves `item_idx` of those
  after it, which `where` uses, while `operator[]` goes by position
  (`IndexStale`): a lookup may then miss, where the code crashes;
* a condition that turns false leaves the old schema and what is below it, since nodes
  of a null definition are never processed (`LeftBehind`, a TODO at `sd_tree.cpp:84`), and
  a reset of such a node updates nothing (`cutOff`);
* a reset or a load above the editor's position leaves it dangling (`"lost"`).

### Genalg, Elevator, ActivationRange and the code

`Genalg`: `Reset` replaces genomes and keeps values and fitness, which `epoch`
selects by before it evaluates. Pareto ranking is left out, since `epoch` throws
for it (TODO at `genalg.cpp:84`); results depend on genome and trial only.

`Elevator`: `UpdateSystem` is `update`: arrivals, the controller's decision and its
validation, a stop, the move, the history. People are numbered so that a queue
is a set. `initialize` leaves `m_history` alone, and trials reuse one system
(`evolved_system_domain.cpp:63`), so `abandoned`, which no code has, accounts
for the people a restart removes.

`ActivationRange`: an operation builds a range interval by interval (`Insert`), in any
order; `value` is one value the neuron may have, followed along. A `LinearBounded`
function applied to an interval wholly outside its bounds makes an inverted interval,
which Boost turns into NaN (`activation_functions.h:191`): phase `"undefined"`.

## 3. Runs

| run | instance | what it shows |
|---|---|---|
| `sharing` | two joined peers with one and two threads, one client, three jobs; no faults | `TypeOK`, `CapacityRespected`, `AnswersCovered`, `NoJobLost`, `OneCopyUntilTimeout`, `ExecutorOnRecord` |
| `faults` | two joined one-threaded peers; one job, status check, timeout, crash, lost message and update each | `IdsNeverCollide`, `LocalAssertionsHold`, `LostJobsTimeOut`, and `ServiceKept`: `Peerwork` implements `JobService` |
| `cold_start` | three one-threaded peers in a chain of contacts, all off; a client registers with any of them and posts a job; fairness | `NoWorkIgnored`, `OpenRequestsAwaited`, `AcquaintanceSpreads`, `EveryJobAnswered` |
| `control` | `MaxPending = 2`, steps may end the system; fairness | `PromptIsTrue`, `ThreadInRunningState`, `JoinsReturn`, `EndIsNoticed`, `QuitEnds` |
| `ga_record` | batches of two generations and three genomes, up to two individuals stored per generation, two runs of three generations | `RecordIsConsistent`, `PausedIsStored`, `FinishedRunsEnded`, `NamedIsStored` |
| `components`: displays | one terminal of two is served; a chart or drawer, a page, two frames, two active states; fairness | `ShownIsStored`, `RunsNotMixed`, `CommandsEnd` |
| `components`: commands | two different lines, a history of three | `RecallInRange` |
| `components`: parameters | one name, one type of agent, two specifications and an instance | `TreeUpToDate`, `LookupsSucceed`, `LoadRestoresSaved`, `OthersKept` |
| `components`: genetic algorithm | two genomes, every domain with results 0 and 1 in two trials, both ways of merging, three individuals, two generations, two resets | `BestNeverLost` |
| `components`: elevator | three floors, two updates with at most one arrival each, any controller, one restart | `ElevatorTypeOK`, `PeopleConserved`, `OccupancyRight`, `ButtonsTellQueues`, `InclusiveTimesAgree`, `LongestWaitRecorded` |
| `components`: ranges | at most two intervals, weights -1 and 2, signals between 0 and 1, sums from -3 to 3, three activation functions | `RangesApart`, `ValuesCovered` |

Bounds. Environment events are bounded by `Bound`, an upper limit for each kind of event;
everything else is unbounded and the state spaces are finite because jobs are.
Three jobs let a request for two be met in full, in part and not at all. In
`sharing` only one peer has two threads, which keeps the run short; `leak` has two on both sides. One of each
fault suffices for every pair of faults to meet once, which is where the
disagreements below come from. Two waiting stop events allow one that is stale
and one that is not. With batches of two and three a batch fills up within a
generation, at its end and not at all.

One run, `components`, serves six modules that share no state: its behaviours are
those of one subject at a time (58,000 states in all). One page and one
display are enough for a clearing, a storing and an update of the page to meet in any order, since
nothing relates one display to another but the loops over them; the
properties also hold with two displays (292,000 states) or two pages (172,000).
Three floors are the fewest with one between the ends, where both ways are open; one arrival
in each of two updates gives people who wait, ride, are delivered or left behind by
a restart. Two specifications
let an entry be removed before another, and a name be left that is referred to.
Three individuals of two genomes make ties in the selection, and an odd population.
With two intervals at most a third one makes `limited_impl` join two. The elevator's
behaviours are short, but its proofs hold for any length.

Deadlock is not checked: a network without work, a client that has ended and a
bounded environment stop rightly.

Fairness. In `Peerwork` a running peer goes on serving its `io_service`
(`Serve`) and an executor returns (`Work`): threads of a running process are
scheduled. Clients, the timer and faults owe nothing. In `DisplayRegistry` a command
that has begun and a round go on under strong fairness, a page that paints under weak
fairness: a thread waiting for a mutex that is freed again and again gets it. Whether
pages take what is posted to them is not assumed. In `ClientControl` the
`io_service` thread, the run thread and a joined destructor proceed; no command
is ever typed unless the user likes to. `EndIsNoticed` and `JoinsReturn` thus hold
without help from the user.

### Disagreements between the code and what it says of itself

| run | shows |
|---|---|
| `leak` | However many jobs of a request cannot be met, it gets one refusal, which closes one open request (`peer.cpp:606-612`, `640`). With two threads per peer a request for two jobs that are both gone leaves one open for good; `open_request.h:3` says that open requests await their response. |
| `late_update` | A `JobUpdate` overtaken by the `JobCompleted` of its job fails the assertion of `peer.cpp:647` and ends the owner. |
| `requeue` | `check_owned_jobs` leaves `executing_peer` set when it requeues a job, and so requeues a job that is still queued (`peer.cpp:230`, `245`). |
| `stale_stop` | The stop event of a run that was stopped by a command is not always ignored: it ends a run started before the `io_service` came to it (`system_sim_client/running_state.cpp:55-66`, the same in `ga_client`). |
| `stale_name` | At the start of a second run `store` names a genome of the previous run (`ga_db_serializer.cpp:145`, `notrunning_state.cpp:75`). |
| `genalg_selection` | The first `epoch` after a reset selects before it evaluates (`genalg.cpp:65`): half of the random population goes by default or stale fitness, while `procreator.h:41` says that the values must be initialized before. |

Met by the same models, without a run of their own: one status check is enough to violate
`PingAssertionHolds`, by a ping that lists a job and is overtaken by the job's completion (`peer.cpp:561`). A timeout
and a check that finds it violate `CompletionAssertionHolds`: the job is given to another peer while the first has it,
and the second completion ends the owner (`peer.cpp:662`). They violate `QueueHoldsWork` as well (the id of an erased job is queued), and
delegating such an id makes a blank job whose empty executor ends the worker's process. What these states leave intact is what `faults` checks: the client is answered
once (`ServiceKept`), and whatever was lost, a peer that runs has each of its jobs itself or has another peer on
record for it (`LostJobsTimeOut`), so that the timeout, which is all that ever brings a lost job back, can find
it. A `reset` with a fixed seed loses the seed with the
active state it destroys, as the comment in `active_state.cpp:107` suspects.

## 4. Proofs

**`PeerworkSafetyProofs!TypeCorrect`** (`Spec => []TypeOK`), for any finite set of
peers, any clients, thread counts, contacts and bounds. `TypeOK` is inductive, but it
is more than a list of ranges: the messages between processes are those with
different ends (`Parcels`), those in `posted` are a peer's own (`Posts`), and
no peer knows itself. Without these `Exchange`, which sorts what a handler sends
into the two, could put a message to oneself into the network, and a ping would
make a peer its own acquaintance. It also says that `avail` stays a natural number: `look_for_work`
subtracts what it asks for from an `int` that nothing else keeps from falling below zero. The proof has a lemma for each
handler, over lemmas about bags, finite maps and what a
handler sends; the environment's actions and the timer follow.

**`ClientControlProofs!PromptCorrect`** and **`ThreadCorrect`** (`Spec =>
[]PromptIsTrue`, `Spec => []ThreadInRunningState`), for any bound on the stop
events and whether or not systems end. `PromptIsTrue` is not inductive: the
state in which a run is left depends on the flag `complete`, which the
thread set before. `IInv` adds `RunInv`, which relates the flag, the system
and the thread's place between its last step and the flag while the running state lasts, except
under a reset that has already started; `LeavingInv`, that only one thread waits in `~running`,
and in the running state; and that a paused system has no flag set.
`TypeCorrect` types the remaining variables, whose Booleans and numbers are kept
in separate lemmas.

**`PeerworkSafetyProofs`** has three more theorems for any network, each with an
invariant of its own over `TypeOK`, and for each kind of state that an invariant
speaks of a lemma saying how it may change in a step (`Exchange`, what a handler takes,
sends, asks for and reports):

* `WorkIsNeverIgnored` (`NoWorkIgnored`): a message that moves a job comes from a
  peer its receiver knows. `AcquaintInv` adds that whoever offers work knows whom it is offered to,
  and that a count of available jobs, a record of a job given away and a job in
  progress are each about two peers that know each other. It is needed since the sender
  decides by its books, long after the pings. The ping of a starting peer goes to
  strangers, but offers nothing.
* `WorkersReportOnTheirJobs` (`LocalAssertionsHold`): `EventInv` says that events of workers
  that wait in the `io_service` name jobs in progress, and that a `Finished` event is
  the last of its job, so that taking it cannot orphan another.
* `IdsAreNeverConfused` (`IdsNeverCollide`): `IdInv` follows an id from the queue into a
  message, on record at the worker and back into the queue; wherever it is, its
  owner has drawn it and not for a job in progress.

Its fourth theorem is the refinement, **`ClientsAreServed`** (`Spec => ServiceKept`):
every step of `Peerwork` is a step of `JobService` or leaves its variables alone. `ServiceInv` says that
no client was told of an id that is yet to be drawn (`NotesNumbered`), so that an acceptance is of a new job; that
the client of a job in `m_jobs` was told of it and has no result (`JobsAnnounced`), so that the handler that
erases the job may answer; and that a job on its way or in progress was accepted and one reported as completed has
been executed (`NewsTruthful`, `WorkAnnounced`). A blank job, delegated under an erased id,
is of nobody: it ends the worker's process before it could be reported.

**`PeerworkCountProofs`** is about what is counted over messages in flight. The counts
are sums over a bag (`net`) and a sequence (`posted`); `Load` is the sum of a weight over
both, and one lemma says by how much a step changes the load of any weight: by what
the handler sends less what it takes. From it follow, with few words for each handler:

* `AnswersAreToOpenRequests` (`AnswersCovered`), inductive once the network is known to be
  finite (`AwaitInv`);
* `ThreadsAreNotOverbooked` (`CapacityRespected`): whatever closes a request frees the
  thread it was booked on, which needs `AwaitInv`, or a surplus answer would make room that is not there;
* `NoJobIsTurnedAway`: `on_receive_job` has a branch for a job that finds every thread busy, drops it and
  tells nobody. No step takes it. This is a theorem only, since no run could say more.

**`PeerworkCopyProofs`** counts the copies of a job the same way. None of its properties is inductive as it
stands; `CopyInv` says

* for `JobsAreNotLost` (`NoJobLost`), that every job on record has a copy while no process has *ended* and nothing
  was lost (`NotEnded`; the property speaks of the states in which all are up, but a peer may start later);
* for `JobsAreHandedOutOnce` (`OneCopyUntilTimeout`) and `WorkersAreOnRecord` (`ExecutorOnRecord`), that until a
  timeout a job on record has at most one copy, is queued exactly if nobody is on record to execute it, and is held by
  nobody but the peer on record, and that a job not on record is nowhere (`AllRecorded`). The two
  properties hold together or not at all: a job is handed out once because it is queued once, and
  its worker is the one on record because nobody else has a copy;
* that a peer that was never started has met nobody (`OffStranger`), or it could be sent a job that
  it discards.

Its fourth theorem holds whatever times out, is lost or crashes: `LostJobsAreNoticed` (`LostJobsTimeOut`). `WatchInv`
claims the same of every peer that is up, and of one that was never started, since it may yet be. A handler changes what one peer has: a job leaves its queue for a message posted to
itself, this for a thread, the thread for a report, or else the job is put on record for another peer in
the same step as it leaves. That a job posted to oneself finds a thread is `NoJobIsTurnedAway`;
that it does not take the place of another, since the id of its thread is new, is part of `IdInv`.

**`GaClientProofs`**: `DatabaseIsConsistent` (`RecordIsConsistent`), `PausesStore` (`PausedIsStored`),
`FinishedRunsAreEnded` (`FinishedRunsEnded`) and `NamesAreOfStored` (`NamedIsStored`), from `GaInv`:
what is stored and what is buffered, taken together, is always all there is; only the run in progress
has anything buffered; and at a prompt where nothing is being handled the buffers have been drained. Each operation of the serializer has a
lemma that says what it keeps of that, and each command is their composition. The loop over a generation's genomes is a
fold: it is unfolded by a lemma of this module, which is an induction over the subsets of the genomes' positions.

**`ComponentProofs`**, by component:

* displays: `RunsStayApart` (`RunsNotMixed`) and `IdsAreFresh` (`IdsFresh`) from `DisplayInv`, which relates the
  points of a chart to the frame count and to how far the round is (`Framing`),
  what a round or a reset iterates over to what is registered (`Ranging`), and says who
  is giving an id (`Numbering`). `PagesCatchUp` (`ShownIsStored`) from `ShownInv`: the update on its way
  must be due to the very page that the registry names (`Due`), which rests on pages and registry naming
  each other (`Paging`); and it helps only since a cleared chart has `reload` set from then on, so
  that the update inserts all rows anew. `IdsFresh` is a theorem only: one terminal gives the ids, one
  command after another, so that there are no interleavings for a run to try;
* elevator: `NobodyLost` (`PeopleConserved`), `OccupancyIsRight` (`OccupancyRight`), `ButtonsRight`
  (`ButtonsTellQueues`) and the action property `LongestWaitIsRecorded` (`LongestWaitRecorded`), from
  `ElevatorInv`, which adds that each person is on the list of their own call or floor and on no other, and that
  numbers are in the order of arrival. `ElevatorTypeCorrect` and `TimesAgree` (`InclusiveTimesAgree`) from `TimesInv`: the time that
  those present have spent is a sum over them that grows by one per head in each update and splits when some of them leave;
* ranges: `RangesStayApart` (`RangesApart`), for any limit, and `NoValueLost` (`ValuesCovered`).
  `ValuesCovered` says nothing of a range half built, so `ValueKept` says that the value is
  covered by what is built together with what is yet to be inserted; that
  inserting loses nothing rests on the intervals being apart, by which the last of those
  that overlap is found;
* commands: `RecallIsRight` (`RecallInRange`), with the type of the history;
* genetic algorithm: `FittestAreKept` (`BestNeverLost`, an action property), from `GenalgInv`: after its
  first epoch a population is as it was assessed in a domain that has not changed since. The fittest individual,
  or one that is as fit, is among the survivors because there is at least one of them.

**`ParamTreeProofs`**: `TreeStaysUpToDate` (`TreeUpToDate`), `LookupsOnlyFailStale` (`LookupsSucceed`) and the
action property `OthersStay` (`OthersKept`), for any names and types and any bounds on the lists, from
`TreeInv` (`TreeAgrees`). The definition is the one that the module outlines; of ddl with any other they say nothing.
The argument has five parts:

* *Shape.* An address tells the one definition that its node can have (`Role`); with a node there are its parent
  and its siblings before it; an edge is what the parent's definition says. `Shape` says this and is kept even in
  the middle of an update and by each of `AddNodes`, `RemoveBranch` and `ClearChildren`. A node may have no
  definition, or one whose schema it has yet to get.
* *Folds.* An update goes over the definitions in their order, and over the nodes of each. A fold is a CHOOSE of a
  recursive function; that there is one for a finite set is shown by induction over its subsets, and from that that the
  fold unfolds by one step (`FoldedUnfolds`).
* *Order.* `DependsByWay` is a CHOOSE over functions, too: `DependentsAre` shows that its equation has one
  solution, `Reached`; what is reached comes later in `Order` (`Rank`).
* *One pass.* `UpdateInv` says of the nodes that an update has come past that they are `Plain`, which is what a
  definition says of a node by itself, and `Referring`, which is what it says given the values of others. A step can
  disturb only what comes after it: the children that it makes or gives their definitions, and what refers to
  its node. So the pass makes the whole tree current if what it does not visit was current before (`UpdateMakes`), and
  it changes no value that fits.
* *Lookups.* A path of edges leads back to its node if no item on the way has moved (`Found`). What is referred to
  is below a specification, so that a lookup in an update can fail only where a specification's
  index is stale (`SpecsStale`), and the editor's position can be lost only where some index is.

Each command is then a change that keeps `Shape`, and an update of all that depends on what it changed. A reset of
a node that has no definition updates nothing, which is why `TreeInv` claims less from then on (`cutOff`) until the
next reload. An import is such a change for each value of the file (`LoadInv`): a list is filled only once, since
the reset before has emptied it.

The proofs assume the named assumptions of the modules only (`PeersAssumption`,
`ControlAssumption`, `GaAssumption`, `DisplayAssumption`, `ElevatorAssumption`, `RangeAssumption`,
`GenalgAssumption`), which TLC evaluates in the runs.

Only model-checked:

* `OpenRequestsAwaited`, which is no theorem: the run `leak` violates it on a network that asks for two
  jobs at once. The run `cold_start` shows it where a peer has one thread;
* `ParamTree`'s `LoadRestoresSaved`: that an import leaves no value of the file over and puts each where it was
  is a second invariant over the same folds, about two trees at once;
* all liveness, which is out of the prover's reach: `EveryJobAnswered`, `AcquaintanceSpreads`, `JoinsReturn`,
  `EndIsNoticed`, `QuitEnds`, `CommandsEnd`.

## 5. Not modelled

`peer.cpp`, the control machine, the display registry, the elevator, ddl's core, the
intervals and the genetic algorithm are what in this repository keeps state that can become
inconsistent. They are a small part of it by lines: the modelled code is dense, and
most of the other lines are, for good:

* numeric code: genetic operators, neural networks and their training, physics,
  thrusters, Box2D bodies and sensors. What it computes is floating point, of which
  a model with small integers would say nothing;
* user interface: widgets, drawing, layout, the editors' windows, plots;
* schemas and conversions spelt out field by field (`basic_system_defn2.cpp`,
  `db_params.h`, the mapping of `evo_database` to tables), of which `ParamTree` and `GaClient` model what is
  done with them;
* older and parallel generations of the programs kept in the tree, most of them
  no longer built, copies of files, and the project files under `build/`;
* `input_stream`: polls a gamepad into a table of values.

Within what is modelled: what a page paints with a drawer whose active state is gone (a
pointer to a destroyed mutex, `active_state.cpp:225`), the text of the terminal,
charts and queries of ga_client, failing database transactions (an index typed in `store` that is not
compared with the population's size, `ga_db_serializer.cpp:145`, reads past its end), partial TCP
reads, the test client's own logic, bounds on numbers and files for a part of a parameter tree,
Pareto ranking, a recurrent network (for which `calculate_neuron_io_ranges` never ends, `algorithm.cpp:28`).
Requests to a peer that has ended stay open for good, as do the threads
reserved for them (`peer.cpp:183`): `CapacityRespected` allows it, since nothing tells the peer.

## 6. Plan

Done: `Peerwork` with `JobService`, `ClientControl`, `GaClient`; displays, commands, ddl,
elevator, genetic algorithm and ranges; the theorems of section 4.

Left, in this order:

1. `DisplayRegistry` composed with `ClientControl`, so that a display command meets
   the race of the two threads; now each is modelled with the other's part
   simplified.
2. The client library and test client of peerwork (`local_peer.cpp`) as a module that
   implements the client of `JobService`.
3. A proof of `LoadRestoresSaved`, over the lemmas of `ParamTreeProofs` about files and folds.
