--------------------------- MODULE MCUploadSessions ---------------------------
\* Instances of UploadSessions for TLC.
EXTENDS UploadSessions

CONSTANTS s1, s2, r1, r2

\* Sizes for the quota: either upload fits, the two together do not.
UnitSizes == [s \in Sessions |-> 1]

=============================================================================
