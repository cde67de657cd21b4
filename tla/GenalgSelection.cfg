SPECIFICATION GenalgSpec
CONSTANTS
    Genomes = {"g1", "g2"}
    MaxResult = 1
    NumTrials = 1
    PopulationSize = 2
    MaxGenerations = 1
    MaxResets = 1
PROPERTY EvaluatedBeforeSelection
CHECK_DEADLOCK FALSE
