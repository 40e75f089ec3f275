SPECIFICATION TemplatesSpec
CONSTANT MaxWitness = 6
INVARIANTS
    DocumentedWitnessesSpend
CHECK_DEADLOCK FALSE
