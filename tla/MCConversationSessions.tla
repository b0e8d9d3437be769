------------------------ MODULE MCConversationSessions ------------------------
(* ConversationSessions with two tasks of one conversation and a third one of *)
(* another.                                                                   *)
EXTENDS ConversationSessions, TLC

CONSTANTS t1, t2, t3, c1, c2, r1, r2, s1, s2, s3, s4, s5, s6

MCConvOf == [t \in Tasks |-> IF t = t3 THEN c2 ELSE c1]

\* The tasks of one conversation are interchangeable, like sessions and runtimes.
Symmetry == Permutations(Sessions) \cup Permutations(Runtimes) \cup Permutations({t1, t2})
=============================================================================
