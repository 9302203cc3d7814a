------------------------------ MODULE MCAccess ------------------------------
(* The instance of Access that TLC checks: one producer, one consumer, an  *)
(* account of the CR's and one of somebody else's, two alarms.             *)
EXTENDS Access

MCAlarmSpecs ==
    {AlarmDeclares({}, TRUE, FALSE), AlarmDeclares({"age"}, TRUE, TRUE), AlarmDeclares(Names, TRUE, FALSE)}
=============================================================================
