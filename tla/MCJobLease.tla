----------------------------- MODULE MCJobLease -----------------------------
(* API processes whose clocks differ from the database's.                  *)
EXTENDS JobLease

CONSTANTS a, b, c

MCSkew == [o \in Owners |-> IF o = a THEN 0 ELSE IF o = b THEN -1 ELSE 1]

=============================================================================
