------------------------------ MODULE MCScoring ------------------------------
EXTENDS Scoring

FewLogLikelihoods == {-6, -2, 0}
=============================================================================
