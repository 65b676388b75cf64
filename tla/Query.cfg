SPECIFICATION QuerySpec
CONSTANTS
    HashFirst <- MCHashFirst
    Views <- MCViews
    Indexes <- MCIndexes
    Queries <- MCQueries
    Databases <- MCDatabases
    MaxIterations <- MCMaxIterations
INVARIANTS
    SelectExact
    GroupsExact
    SetsExact
    WindowsExact
    CtesExact
    TopRows
PROPERTY QueryReturns
