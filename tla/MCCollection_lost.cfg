CONSTANTS
    Callers = {t1, t2}
    Keys <- ThreeKeys
    Null = Null
    Primes <- OneThenThree
    Environment = {"shared_readers"}
SPECIFICATION TableSpec
PROPERTIES ImplementsDictionary
CHECK_DEADLOCK FALSE
