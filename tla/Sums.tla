-------------------------------- MODULE Sums --------------------------------
EXTENDS Integers, Folds

\* The sum of f[x] over the members x of the finite set S.
Total(f, S) == MapThenFoldSet(+, 0, LAMBDA x : f[x], LAMBDA s : CHOOSE x \in s : TRUE, S)
=============================================================================
