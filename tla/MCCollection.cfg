CONSTANTS
    Callers = {t1}
    Keys <- FiveKeys
    Null = Null
    Primes <- OneThenThree
    Environment = {}
SPECIFICATION FairTableSpec
INVARIANTS ChainsSound
PROPERTIES VisitsAll IterationEnds ImplementsDictionary
