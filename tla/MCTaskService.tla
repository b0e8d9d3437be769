---------------------------- MODULE MCTaskService -----------------------------
(* TaskService with two tasks of one conversation and a third one of another, *)
(* so that a lost runtime can hit several rows and spare others.              *)
EXTENDS TaskService

CONSTANTS t1, t2, t3, c1, c2

MCConvOf == [t \in Tasks |-> IF t = t3 THEN c2 ELSE c1]
=============================================================================
