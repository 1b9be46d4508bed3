CONSTANTS
    N = 2
    Stacks <- MCStacks
    MaxRuns <- MCMaxRuns
    MaxLate <- MCMaxLate
SPECIFICATION Spec
INVARIANTS NodeSound ServedSource ReportTrue
CHECK_DEADLOCK FALSE
