---------------------------- MODULE MCMetricDemand ----------------------------
EXTENDS MetricDemand, TLC

Symmetry == Permutations(Viewers) \cup Permutations(Users)
=============================================================================
