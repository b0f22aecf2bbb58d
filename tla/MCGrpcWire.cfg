\* Up to three events of every kind, with results that have all their levels and
\* one that has not, and unary calls in between.
SPECIFICATION WireSpec
CONSTANTS
    Results <- SpecResults
    Filters <- AnyFilter
    Budgets <- AnyBudget
    taskRegistry = TRUE
    MaxEvents = 3
INVARIANTS
    WholeEventsArrive
    ServedAsAsked
\* The stream is over.
CHECK_DEADLOCK FALSE
