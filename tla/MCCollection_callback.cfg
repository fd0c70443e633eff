CONSTANTS
    Callers = {t1}
    Keys <- ThreeKeys
    Null = Null
    Primes <- OneThenThree
    Environment = {}
SPECIFICATION FairTableSpec
PROPERTIES BroadcastEnds
