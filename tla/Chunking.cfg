SPECIFICATION Spec
CONSTANTS
    Path = {1, 2, 3}
    Lines = {0, 1, 9}
    ChunkBudget = 100
    TotalBudgets = {0, 100, 190}
    TokensPerLine = 12
    TokensPerFile = 40
INVARIANTS TypeOK EveryFileAccounted ChunksFit BudgetKept
CHECK_DEADLOCK FALSE
