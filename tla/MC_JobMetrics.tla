---------------------------- MODULE MC_JobMetrics ----------------------------
EXTENDS JobMetrics

CONSTANTS j1, j2

MCJob == {j1, j2}

\* timestamps of Width bits: an underflow lands far above any real duration
MCWidth == 3
=============================================================================
