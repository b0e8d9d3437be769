----------------------------- MODULE MCAgentServer -----------------------------
(* AgentServer with a batch that fails half way, one that holds an empty       *)
(* command, and a request of a desktop or of a dashboard route.  The first     *)
(* batch fails by a command that is killed at its timeout, with or without     *)
(* its pipes held open.                                                        *)
EXTENDS AgentServer

CONSTANTS r1, r2, r3

MCJob(route, token, commands, stop) ==
    [route |-> route, token |-> token, commands |-> commands, stopOnError |-> stop]

MCChoices ==
    {[r \in Requests |->
        CASE r = r1 -> MCJob("exec", TRUE, <<"succeeds", last[1], "succeeds">>, TRUE)
          [] r = r2 -> MCJob("exec", TRUE, <<"fails", "empty">>, FALSE)
          [] r = r3 -> last[2]] :
     last \in {<<"hangs", MCJob("desktop", TRUE, <<>>, FALSE)>>,
               <<"held", MCJob("stats", FALSE, <<>>, FALSE)>>}}
=============================================================================
