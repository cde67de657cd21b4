------------------------------- MODULE GaClient -------------------------------
(***************************************************************************)
(* ga_client: the control machine of module ClientControl, the counter of  *)
(* the genetic algorithm it drives, and ga_db_serializer, which buffers    *)
(* the generations and the fittest genomes of a run and stores them in     *)
(* the database in batches, one transaction each.                          *)
(*                                                                         *)
(* Abstractions: a run is its number, a generation <<run, index>>, a       *)
(* genome <<run, index, rank>>; which individuals share the best fitness   *)
(* is any number of the first ones.  Transactions succeed.  The process    *)
(* may end at any point, between two transactions of one generation too.   *)
(***************************************************************************)
EXTENDS Naturals, Sequences, FiniteSets, SequencesExt

CONSTANTS
    MaxPending,        \* see ClientControl
    PopSize,           \* the size of the population
    GenerationBatch,   \* GenerationBatchSize
    GenomeBatch,       \* GenomeBatchSize
    Trials,            \* the runs that the repeat command makes
    MaxRuns,           \* bound on the runs
    MaxNames,          \* bound on the named genomes
    MaxGenerations     \* the generations of a repeated run, and bound on a run's

ASSUME GaAssumption ==
    {PopSize, GenerationBatch, GenomeBatch, Trials, MaxGenerations} \subseteq Nat \ {0}

VARIABLES
    state, ended, complete, interrupt, thread, stops, leaving, ioWork, ioDone,
    handling,     \* what is left to do of a step or repeat command on the session thread
    generation,   \* procreator::m_generation
    buffer,       \* the serializer: _run_ptr, _generations, _genomes, _cur_gen_pop
    db            \* the rows of the database; ended: the runs whose end is set

Control == INSTANCE ClientControl WITH CanEnd <- FALSE

controlVars == <<state, ended, complete, interrupt, thread, stops, leaving, ioWork, ioDone>>
vars == <<controlVars, handling, generation, buffer, db>>

NoHandling == [trials |-> 0, generations |-> 0]

-----------------------------------------------------------------------------
(* The serializer: each operator maps r = [buffer, db] to what a call makes of it. *)

Now == [buffer |-> buffer, db |-> db]
Becomes(r) == buffer' = r.buffer /\ db' = r.db

PersistAll(r) ==
    [buffer |-> [r.buffer EXCEPT !.generations = << >>, !.genomes = << >>],
     db |-> [r.db EXCEPT !.generations = @ \cup Range(r.buffer.generations),
                         !.genomes = @ \cup Range(r.buffer.genomes)]]

\* The buffer of genomes and _cur_gen_pop are left as they are.
SerializeStart(r) ==
    [buffer |-> [r.buffer EXCEPT !.run = @ + 1, !.generations = << >>],
     db |-> [r.db EXCEPT !.runs = @ \cup {r.buffer.run + 1}]]

\* Faulty: a pause stores nothing.
SerializePauseSkipped(r) == r

SerializePause(r) == PersistAll(r)

HasGenerations(d, n) == \E g \in d.generations : g[1] = n

\* Faulty: a run without generations is kept.
EndAlways(d, n) == [d EXCEPT !.ended = @ \cup {n}]

EndOrRemove(d, n) ==
    IF HasGenerations(d, n) THEN [d EXCEPT !.ended = @ \cup {n}]
    ELSE [d EXCEPT !.runs = @ \ {n}]

\* Faulty: looks for generations before the buffered ones are stored.
SerializeEndTooEarly(r) ==
    [PersistAll(r) EXCEPT !.db = PersistAll([r EXCEPT !.db = EndOrRemove(@, r.buffer.run)]).db]

\* A run without generations is removed.
SerializeEnd(r) == [PersistAll(r) EXCEPT !.db = EndOrRemove(@, r.buffer.run)]

SerializeGenome(r, gn) ==
    LET added == [r EXCEPT !.buffer.genomes = Append(@, gn)]
    IN IF Len(added.buffer.genomes) = GenomeBatch THEN PersistAll(added) ELSE added

\* The generation g and its first n genomes, each batch stored when it is full.
\* _cur_gen_pop is these n genomes, and null for the others.
SerializeGeneration(r, g, n) ==
    LET best == [i \in 1..n |-> <<g[1], g[2], i>>]
        added == [r EXCEPT !.buffer.generations = Append(@, g), !.buffer.current = best]
        stored == IF Len(added.buffer.generations) = GenerationBatch THEN PersistAll(added) ELSE added
    IN FoldLeft(SerializeGenome, stored, best)

-----------------------------------------------------------------------------
(* The genetic algorithm. *)

\* One generation is bred, evaluated and handed to the serializer.
DoGeneration ==
    /\ generation < MaxGenerations
    /\ generation' = generation + 1
    /\ \E n \in 1..PopSize : Becomes(SerializeGeneration(Now, <<buffer.run, generation + 1>>, n))

\* ~active, and the constructor of a new one; not_running is entered within it.
Reactivated(r) == SerializePause(SerializeStart(r))

EnterActive(r) == buffer.run < MaxRuns /\ generation' = 0 /\ Becomes(Reactivated(r))

KeepRecord == UNCHANGED <<generation, buffer, db>>

-----------------------------------------------------------------------------
(* Commands. *)

Free == handling = NoHandling

Initialize == Free /\ Control!Initialize /\ EnterActive(Now) /\ UNCHANGED handling

Modify == Free /\ (Control!Modify \/ Control!EditorExit) /\ KeepRecord /\ UNCHANGED handling

Run == Free /\ Control!Run /\ KeepRecord /\ UNCHANGED handling

\* Of a run that is on, nothing is recorded before its thread has been joined.
LeaveRun ==
    /\ Free /\ state = "running"
    /\ Control!Stop \/ Control!Exit \/ Control!Reset \/ Control!Quit
    /\ KeepRecord
    /\ UNCHANGED handling

Reset ==
    /\ Free /\ state = "paused"
    /\ Control!Reset
    /\ EnterActive(SerializeEnd(Now))
    /\ UNCHANGED handling

Exit ==
    /\ Free /\ state = "paused"
    /\ Control!Exit \/ Control!Quit
    /\ Becomes(SerializeEnd(Now))
    /\ UNCHANGED <<handling, generation>>

QuitInactive ==
    /\ Free /\ state \in {"ready", "editing"}
    /\ Control!Quit
    /\ KeepRecord
    /\ UNCHANGED handling

\* Does the generations of a step command one by one.
Step(n) ==
    /\ Free /\ state = "paused" /\ Control!Alone("session")
    /\ generation + n <= MaxGenerations
    /\ handling' = [NoHandling EXCEPT !.generations = n]
    /\ UNCHANGED <<controlVars, generation, buffer, db>>

StepGeneration ==
    /\ Control!Up /\ state = "paused" /\ handling.generations > 1
    /\ DoGeneration
    /\ handling' = [handling EXCEPT !.generations = @ - 1]
    /\ UNCHANGED controlVars

\* After the last one, the transition to not_running stores what is buffered.
StepReturns ==
    /\ state = "paused" /\ handling.generations = 1
    /\ Control!Step
    /\ generation' = generation + 1
    /\ \E n \in 1..PopSize :
         Becomes(SerializePause(SerializeGeneration(Now, <<buffer.run, generation + 1>>, n)))
    /\ handling' = NoHandling

\* Names the i-th individual.  Before the first generation of the first run
\* _cur_gen_pop is empty and indexing it is undefined.
Store(i) ==
    /\ Free /\ state = "paused" /\ Control!Alone("session")
    /\ \/ /\ i \in DOMAIN buffer.current
          /\ Cardinality(db.named) < MaxNames
          /\ db' = [db EXCEPT !.named = @ \cup {buffer.current[i]}]
          /\ UNCHANGED controlVars
       \/ /\ buffer.current = << >>
          /\ state' = "crashed"
          /\ UNCHANGED <<ended, complete, interrupt, thread, stops, leaving, ioWork, ioDone, db>>
    /\ UNCHANGED <<handling, generation, buffer>>

-----------------------------------------------------------------------------
(* The repeat command: trials of a fixed number of generations. *)

Trial(n) == [trials |-> n, generations |-> MaxGenerations]

Repeat ==
    /\ Free /\ state = "ready" /\ Control!Alone("session")
    /\ buffer.run + Trials <= MaxRuns
    /\ generation' = 0
    /\ Becomes(SerializeStart(Now))
    /\ handling' = Trial(Trials)
    /\ UNCHANGED controlVars

TrialGeneration ==
    /\ Control!Up /\ state = "ready" /\ handling.generations > 0
    /\ DoGeneration
    /\ handling' = [handling EXCEPT !.generations = @ - 1]
    /\ UNCHANGED controlVars

TrialEnds ==
    /\ Control!Up /\ handling.trials > 0 /\ handling.generations = 0
    /\ \/ /\ handling.trials > 1
          /\ generation' = 0
          /\ Becomes(SerializeStart(SerializeEnd(Now)))
          /\ handling' = Trial(handling.trials - 1)
       \/ /\ handling.trials = 1
          /\ Becomes(SerializeEnd(Now))
          /\ handling' = NoHandling
          /\ UNCHANGED generation
    /\ UNCHANGED controlVars

-----------------------------------------------------------------------------
(* The other threads. *)

\* The running state is left: for not_running, or with the active state.
Return(t) ==
    /\ \/ leaving[t] = "not_running" /\ Becomes(SerializePause(Now)) /\ UNCHANGED generation
       \/ leaving[t] = "active" /\ EnterActive(SerializeEnd(Now))
       \/ leaving[t] \in {"ready", "quit"} /\ Becomes(SerializeEnd(Now)) /\ UNCHANGED generation
    /\ Control!Return(t)
    /\ UNCHANGED handling

RunGeneration == Control!StepSystem /\ DoGeneration /\ UNCHANGED handling

Others ==
    /\ Control!CheckInterrupt \/ Control!PostStop \/ Control!IoService \/ Control!RaceOnCommand
    /\ KeepRecord
    /\ UNCHANGED handling

\* The process ends after k of a generation's genomes were buffered.
CrashWhileRecording ==
    /\ Control!Up /\ generation < MaxGenerations
    /\ thread = "stepping" \/ handling.generations > 0
    /\ \E k \in 0..PopSize :
         db' = SerializeGeneration(Now, <<buffer.run, generation + 1>>, k).db
    /\ state' = "crashed"
    /\ UNCHANGED <<ended, complete, interrupt, thread, stops, leaving, ioWork, ioDone,
                   handling, generation, buffer>>

-----------------------------------------------------------------------------

Init ==
    /\ Control!Init
    /\ handling = NoHandling
    /\ generation = 0
    /\ buffer = [run |-> 0, generations |-> << >>, genomes |-> << >>, current |-> << >>]
    /\ db = [runs |-> {}, ended |-> {}, generations |-> {}, genomes |-> {}, named |-> {}]

Next ==
    \/ Initialize \/ Modify \/ Run \/ LeaveRun \/ Reset \/ Exit \/ QuitInactive
    \/ \E n \in 1..MaxGenerations : Step(n)
    \/ StepGeneration \/ StepReturns
    \/ \E i \in 1..PopSize : Store(i)
    \/ Repeat \/ TrialGeneration \/ TrialEnds
    \/ \E t \in DOMAIN leaving : Return(t)
    \/ RunGeneration \/ Others \/ CrashWhileRecording

Spec == Init /\ [][Next]_vars

-----------------------------------------------------------------------------
(* Properties. *)

StoredOf(n) == {g \in db.generations : g[1] = n}

\* Whenever the process ends, the database holds a prefix of each run's
\* generations, and every genome with its generation and run.
RecordIsConsistent ==
    /\ \A g \in db.generations : g[1] \in db.runs /\ \A i \in 1..g[2] : <<g[1], i>> \in db.generations
    /\ \A gn \in db.genomes : <<gn[1], gn[2]>> \in db.generations
    /\ db.ended \subseteq db.runs

\* At the prompt of a paused run every generation so far is stored, each with
\* its fittest genome, whichever thread brought the run to a pause.
PausedIsStored ==
    state = "paused" /\ Free =>
        /\ Cardinality(StoredOf(buffer.run)) = generation
        /\ \A g \in StoredOf(buffer.run) : <<g[1], g[2], 1>> \in db.genomes

\* Outside the active state every run on record has generations and its end.
FinishedRunsEnded ==
    state \in {"ready", "editing", "quit"} /\ Free =>
        /\ db.ended = db.runs
        /\ \A n \in db.runs : StoredOf(n) # {}

\* A named genome is one that is stored.
NamedIsStored == db.named \subseteq db.genomes

\* on_store assumes that the individual it names has been serialized: the one it
\* stores a name for is an individual of the generation the user looks at.
NamesCurrentGeneration ==
    [][\A gn \in db'.named \ db.named : gn[1] = buffer.run /\ gn[2] = generation]_vars

=============================================================================
