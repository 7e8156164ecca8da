------------------------------- MODULE MCRun -------------------------------
EXTENDS Run, TLC

SomeRequests == {1, 2, 3, 5, NoLimit}
AnyUri == Permutations(Uris)
=============================================================================
