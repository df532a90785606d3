CONSTANTS
    c1 = c1  c2 = c2  c3 = c3  r1 = r1  r2 = r2
    k1 = k1  k2 = k2  debit = debit  credit = credit
    Ops = {debit, credit}
    Calls = {c1, c2, c3}
    Releases = {r1}
    Keys = {k1}
    Requests <- AllRequests
SPECIFICATION CeilingSpec
INVARIANTS TypeOK LogNamesEveryCall TransientFailuresWithinBudget
PROPERTIES
    EveryCallIsAnswered
