--------------------------- MODULE MCRunRegistry ---------------------------
EXTENDS RunRegistry

CONSTANTS t1, s1

OneDatabase == [i \in Runs |-> t1]
\* From before the first event, from its last one, from the start, in the log, beyond its end.
Places == {-9, -1, 0, 1, 9}
=============================================================================
