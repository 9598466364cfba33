-------------------------------- MODULE MCLease --------------------------------
EXTENDS Lease, TLC

CONSTANTS a, b

EqualLeases == [n \in {a, b} |-> 8]
ShortLeases == [n \in {a, b} |-> 4]

Ends == Permutations({a, b})
===============================================================================
