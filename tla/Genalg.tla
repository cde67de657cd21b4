------------------------------- MODULE Genalg -------------------------------
(***************************************************************************)
(* genalg: the genetic algorithm of ga_client.  A generation is bred from  *)
(* the fitter half of the one before (truncation selection, the parents    *)
(* survive), evaluated in a number of trials and sorted.                   *)
(*                                                                         *)
(* Abstractions: a genome is a member of a small set; crossover, mutation  *)
(* and rectification together give any genome; the result of a trial       *)
(* depends on the genome and on the trial only, as in a domain that draws  *)
(* nothing (each epoch seeds its trials anew); an average is kept as the   *)
(* sum.  Left out: objective values that are not real, at which epoch      *)
(* throws.                                                                 *)
(***************************************************************************)
EXTENDS Integers, FiniteSetsExt, Functions

CONSTANTS
    Genomes,
    MaxResult,          \* bound on the result of a trial
    NumTrials,          \* trials_cfg::num_trials
    PopulationSize,     \* initial_pop_size_, which never changes
    MaxGenerations,     \* bound on the generations of a run
    MaxResets           \* bound on the runs

ASSUME GenalgAssumption ==
    /\ NumTrials \in Nat \ {0}      \* with none, the worst result is that of an empty optional
    /\ {MaxResult, PopulationSize, MaxGenerations, MaxResets} \subseteq Nat

VARIABLES
    domain,         \* domain[g][t]: the result of trial t of genome g
    merging,        \* trials_cfg::merging
    population,     \* pop_
    generation,     \* procreator::m_generation
    resets          \* auxiliary: the runs so far

genalgVars == <<domain, merging, population, generation, resets>>

Idv == 1..PopulationSize

\* The value that stands for an individual's trials.
Merged(g) ==
    IF merging = "average" THEN SumFunctionOnSet(domain[g], 1..NumTrials) ELSE Min(Range(domain[g]))

Best == Max({population[i].fitness : i \in Idv})

GenalgInit ==
    /\ domain = [g \in Genomes |-> [t \in 1..NumTrials |-> 0]]
    /\ merging = "average"
    /\ population = << >>
    /\ generation = 0
    /\ resets = 0

\* The algorithm is generated for the parameters of the ready state.
Generate ==
    /\ resets = 0 /\ domain = [g \in Genomes |-> [t \in 1..NumTrials |-> 0]]
    /\ domain' \in [Genomes -> [1..NumTrials -> 0..MaxResult]]
    /\ merging' \in {"average", "worst"}
    /\ UNCHANGED <<population, generation, resets>>

\* reset replaces the genomes; value and fitness stay what they are: the defaults,
\* or, where ready::on_repeat resets an algorithm that has run, those of its last run.
Reset ==
    /\ resets < MaxResets
    /\ \E genomes \in [Idv -> Genomes] :
           population' = [i \in Idv |->
               IF population = << >> THEN [gn |-> genomes[i], value |-> 0, fitness |-> 0]
               ELSE [population[i] EXCEPT !.gn = genomes[i]]]
    /\ generation' = 0
    /\ resets' = resets + 1
    /\ UNCHANGED <<domain, merging>>

-----------------------------------------------------------------------------
(* epoch *)

\* Half the population, but one at least of a population that has any.
NumProgenitors == Max({PopulationSize \div 2, Min({PopulationSize, 1})})

\* Faulty: the fitness is sorted the wrong way round.
IsFitterReversed(idv, other) == idv.fitness < other.fitness

IsFitter(idv, other) == idv.fitness > other.fitness

\* The individuals that truncation selection may leave: equals are in any order.
Survivors ==
    {kept \in kSubset(NumProgenitors, Idv) :
        \A i \in kept, j \in Idv \ kept : ~IsFitter(population[j], population[i])}

\* evaluate_genome in every trial, merged; direct_fitness_assignment takes it as it is.
Assessed(g) == [gn |-> g, value |-> Merged(g), fitness |-> Merged(g)]

\* The parents survive, offspring take the other places, and the population is sorted:
\* individuals that are equally fit are in any order.
Epoch ==
    /\ population # << >> /\ generation < MaxGenerations
    /\ \E kept \in Survivors, genomes \in [Idv -> Genomes] :
           /\ \E place \in Injection(kept, Idv) :
                  \A i \in kept : genomes[place[i]] = population[i].gn
           /\ population' = [i \in Idv |-> Assessed(genomes[i])]
           /\ \A i, j \in Idv : i < j => ~IsFitter(population'[j], population'[i])
    /\ generation' = generation + 1
    /\ UNCHANGED <<domain, merging, resets>>

GenalgNext == Generate \/ Reset \/ Epoch

GenalgSpec == GenalgInit /\ [][GenalgNext]_genalgVars

-----------------------------------------------------------------------------
(* Properties *)

\* While a domain's results do not change, the best fitness of a run never falls from
\* one generation to the next: the fittest survive the selection in next_generation and
\* are evaluated again, in whatever way their trials are merged.
BestNeverLost ==
    [][generation > 0 /\ generation' = generation + 1 => Best' >= Best]_genalgVars

\* What procreator.h says of next_generation: "Prior to being called, the objective
\* values of all members of the existing population should be initialized."
EvaluatedBeforeSelection ==
    [][generation' = generation + 1 =>
           \A i \in Idv : population[i].value = Merged(population[i].gn)]_genalgVars

=============================================================================
