----------------------------- MODULE MCOperator -----------------------------
(* The instance of Operator that TLC checks: a pass of two sections, one of  *)
(* them global, and a producer and a consumer that wake each other.        *)
EXTENDS Operator

MCSections == <<"kms", "iam">>

S(consumes, rds, alarm, shares, subnet) ==
    [consumes |-> consumes, rds |-> rds, alarm |-> alarm, shares |-> shares, subnet |-> subnet]

\* A producer that shares its resources or does not, and a consumer that reaches
\* its database, sends alarms to its topic, or neither.
MCSpecs ==
    [p |-> {S({}, {}, {}, {"c"}, TRUE), S({}, {}, {}, {}, FALSE)},
     c |-> {S({}, {}, {}, {}, FALSE), S({"p"}, {"p"}, {}, {}, FALSE), S({}, {}, {"p"}, {}, FALSE)}]
=============================================================================
