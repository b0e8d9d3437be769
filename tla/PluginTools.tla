------------------------------ MODULE PluginTools ------------------------------
(* The tools of windows_control (all but windows_acp, see AcpClient) against   *)
(* the agents of its configuration: tools.py and the registration table of     *)
(* __init__.py.  A tool call is one HTTP request, windows_open_app two.        *)
(* Requests are not repeated, but an answer may be lost and a request handled  *)
(* after its client has given up.  The configuration does not change and names *)
(* its default agent; the plugin does not run on Windows, where it would put a *)
(* chcp in front of a command and never send an empty one.                     *)
EXTENDS Endpoints

CONSTANTS
    Calls,     \* the tool calls made
    Choices,   \* what they may be: functions from Calls to [tool, agent, arg, given]
    Agents,    \* the configured agent names
    Default,   \* default_agent
    Machines   \* what the machines may be at first: functions from Agents

\* The route of each tool's handler; windows_open_app begins with POST /exec.
Handlers == {
    <<"windows_health", "GET:/health">>,
    <<"windows_capabilities", "GET:/capabilities">>,
    <<"windows_exec", "POST:/exec">>, <<"windows_exec_batch", "POST:/exec/batch">>,
    <<"windows_file_read", "GET:/file">>, <<"windows_file_write", "PUT:/file">>,
    <<"windows_file_delete", "POST:/file/delete">>,
    <<"windows_mouse_move", "POST:/mouse/move">>,
    <<"windows_mouse_click", "POST:/mouse/click">>,
    <<"windows_mouse_doubleclick", "POST:/mouse/doubleclick">>,
    <<"windows_mouse_scroll", "POST:/mouse/scroll">>,
    <<"windows_mouse_position", "GET:/mouse/position">>,
    <<"windows_keyboard_type", "POST:/keyboard/type">>,
    <<"windows_keyboard_press", "POST:/keyboard/press">>,
    <<"windows_keyboard_hotkey", "POST:/keyboard/hotkey">>,
    <<"windows_window_focus", "POST:/window/focus">>,
    <<"windows_window_active", "GET:/window/active">>,
    <<"windows_window_list", "GET:/window/list">>,
    <<"windows_screenshot", "GET:/screenshot">>,
    <<"windows_processes", "GET:/processes">>,
    <<"windows_process_kill", "POST:/process/kill">>,
    <<"windows_system", "GET:/system">>, <<"windows_open_app", "POST:/exec">>}

Tools == {h[1] : h \in Handlers}
Route(tool) == (CHOOSE h \in Handlers : h[1] = tool)[2]

\* The arguments the schema of a tool requires.
Required == {
    <<"windows_file_read", "path">>, <<"windows_file_delete", "path">>,
    <<"windows_file_write", "path">>, <<"windows_file_write", "content">>,
    <<"windows_exec", "command">>, <<"windows_exec_batch", "commands">>,
    <<"windows_mouse_move", "x">>, <<"windows_mouse_move", "y">>,
    <<"windows_keyboard_type", "text">>, <<"windows_keyboard_press", "key">>,
    <<"windows_keyboard_hotkey", "keys">>, <<"windows_window_focus", "title_substring">>,
    <<"windows_process_kill", "pid">>, <<"windows_open_app", "executable">>}

\* The arguments a handler reads as args[...], without a default.
Read == {
    <<"windows_file_delete", "path">>,
    <<"windows_file_write", "path">>, <<"windows_file_write", "content">>,
    <<"windows_exec_batch", "commands">>,
    <<"windows_mouse_move", "x">>, <<"windows_mouse_move", "y">>,
    <<"windows_keyboard_press", "key">>, <<"windows_keyboard_hotkey", "keys">>,
    <<"windows_window_focus", "title_substring">>, <<"windows_process_kill", "pid">>}

ASSUME PluginAssumption ==
    /\ Default \in Agents
    /\ \A f \in Choices : \A c \in Calls : f[c].tool \in Tools
    /\ \A f \in Machines : f = [a \in Agents |-> f[a]] /\ \A a \in Agents : IsMachine(f[a])

VARIABLES
    call,      \* the calls
    pc,        \* "idle", "send", "wait", "done"
    step,      \* the number of the request a call is at
    inbox,     \* requests on their way to an agent
    answers,   \* responses on their way back
    results,   \* what _make_request returned for each request of a call
    machine,   \* the machine of each agent
    handled    \* history: the requests handled, with the machine before and after

clientVars == <<pc, step, results>>
networkVars == <<inbox, answers>>
vars == <<call, clientVars, networkVars, machine, handled>>

\* Does a call bring all arguments a table lists for its tool?
Brings(c, table) == \A p \in table : p[1] = call[c].tool => p[2] \in call[c].given

Init ==
    /\ call \in Choices
    /\ pc = [c \in Calls |-> "idle"] /\ step = [c \in Calls |-> 1]
    /\ inbox = {} /\ answers = {}
    /\ results = [c \in Calls |-> <<>>]
    /\ machine \in Machines
    /\ handled = {}

(* Variants that no action uses precede the definitions they are variants of. *)

\* _get_agent_config: a name that is not configured falls back to the default.
AgentAlwaysDefault(name) == Default
AgentConfig(name) == IF name \in Agents THEN name ELSE Default

\* raise_for_status: from 400 on the result is {"error": "http_<status>"}, here
\* "http_500" for an internal error and "refused" for the others.  Below, it is the
\* body: "doubtful" if that holds an exit_code of -1.
ResultOf(a) ==
    IF a.status < 400 THEN (IF a.report = "minus_one" THEN "doubtful" ELSE "ok")
    ELSE IF a.status = 500 THEN "http_500" ELSE "refused"

\* Requests are sent once; "done" ends the call, open_app goes on to the focus.
AfterTimeout(c) == "done"

\* requests.request(timeout=...): the handler's own, the agent's, or 15 s.
TimesOutNever(c) == FALSE
TimesOut(c) == pc[c] = "wait"

RequestOf(c) ==
    IF step[c] = 1 THEN [route |-> Route(call[c].tool), arg |-> call[c].arg]
    ELSE [route |-> "POST:/window/focus", arg |-> call[c].arg]

\* open_app looks for the window unless wait_focus is False ("no_wait_focus").
LastStep(c) ==
    call[c].tool # "windows_open_app" \/ step[c] = 2 \/ "no_wait_focus" \in call[c].given

\* _make_request returns: to the caller, or to open_app, which sends again.
Return(c, result, next) ==
    /\ results' = [results EXCEPT ![c] = Append(@, result)]
    /\ IF LastStep(c) \/ next = "send"
       THEN pc' = [pc EXCEPT ![c] = next] /\ UNCHANGED step
       ELSE pc' = [pc EXCEPT ![c] = "send"] /\ step' = [step EXCEPT ![c] = 2]

-----------------------------------------------------------------------------
(* The handlers.                                                            *)

\* A missing argument raises KeyError, an empty executable is refused at once.
\* _check_agent keeps the first health of a name, which decides on a warning and
\* on nothing else: it is left out.
Begin(c) ==
    /\ pc[c] = "idle"
    /\ \/ /\ ~Brings(c, Read)
          /\ results' = [results EXCEPT ![c] = <<"raised">>]
          /\ pc' = [pc EXCEPT ![c] = "done"]
       \/ /\ call[c].tool = "windows_open_app" /\ call[c].arg = Empty
          /\ results' = [results EXCEPT ![c] = <<"missing_executable">>]
          /\ pc' = [pc EXCEPT ![c] = "done"]
       \/ /\ Brings(c, Read)
          /\ call[c].tool = "windows_open_app" => call[c].arg # Empty
          /\ pc' = [pc EXCEPT ![c] = "send"] /\ UNCHANGED results
    /\ UNCHANGED <<call, step, networkVars, machine, handled>>

\* "agent_unreachable" and "agent_timeout" are one result here: no answer.
Send(c) ==
    /\ pc[c] = "send"
    /\ \/ /\ inbox' = inbox \cup {[call |-> c, step |-> step[c], request |-> RequestOf(c),
                                    agent |-> AgentConfig(call[c].agent)]}
          /\ pc' = [pc EXCEPT ![c] = "wait"] /\ UNCHANGED <<step, results>>
       \/ Return(c, "no_answer", "done") /\ UNCHANGED inbox
    /\ UNCHANGED <<call, answers, machine, handled>>

Receive(c) ==
    \E a \in answers :
        /\ pc[c] = "wait" /\ a.call = c /\ a.step = step[c]
        /\ Return(c, ResultOf(a), "done")
        /\ answers' = answers \ {a}
        /\ UNCHANGED <<call, inbox, machine, handled>>

\* The timeout of requests.request, or a connection that breaks while it waits.
GiveUp(c) ==
    /\ TimesOut(c)
    /\ Return(c, "no_answer", AfterTimeout(c))
    /\ UNCHANGED <<call, networkVars, machine, handled>>

ClientStep(c) == Begin(c) \/ Send(c) \/ Receive(c) \/ GiveUp(c)

-----------------------------------------------------------------------------
(* The agents and the network.                                              *)

\* The rate limiter refuses a request before its handler runs.
HandleRequest(q) ==
    \E o \in Outcomes(machine[q.agent], q.request) \cup Answers({429}, machine[q.agent]) :
        /\ machine' = [machine EXCEPT ![q.agent] = o.machine]
        /\ handled' = handled \cup
               {[call |-> q.call, step |-> q.step, request |-> q.request, agent |-> q.agent,
                 status |-> o.status, report |-> o.report,
                 before |-> machine[q.agent], after |-> o.machine]}
        /\ inbox' = inbox \ {q}
        /\ answers' = answers \cup {[call |-> q.call, step |-> q.step,
                                     status |-> o.status, report |-> o.report]}
        /\ UNCHANGED <<call, clientVars>>

Lose ==
    /\ \/ \E q \in inbox : inbox' = inbox \ {q} /\ UNCHANGED answers
       \/ \E a \in answers : answers' = answers \ {a} /\ UNCHANGED inbox
    /\ UNCHANGED <<call, clientVars, machine, handled>>

Next ==
    \/ \E c \in Calls : ClientStep(c)
    \/ \E q \in inbox : HandleRequest(q)
    \/ Lose

Spec == Init /\ [][Next]_vars

\* A handler runs on; requests.request ends: its timeout limits the wait for each
\* part of an answer, and an answer has finitely many.
FairSpec == Spec /\ \A c \in Calls : WF_vars(ClientStep(c))

-----------------------------------------------------------------------------
(* Properties.                                                              *)

\* A call that satisfies its schema never raises; each of its requests is handled
\* at most once, by the agent it names if that one is configured, and on a route
\* the agent has (404 is then about a file, a window or a process).
OnceAtItsAgent ==
    /\ \A c \in Calls : Brings(c, Required) => results[c] # <<"raised">>
    /\ \A h \in handled :
           /\ call[h.call].agent \in Agents => h.agent = call[h.call].agent
           /\ \A g \in handled : g.call = h.call /\ g.step = h.step => g = h
           /\ h.status = 404 => h.request.route \in {"GET:/file", "POST:/file/delete",
                                     "POST:/window/focus", "POST:/process/kill"}

\* What a handled request must have done when it was answered 200.  Killing a
\* process promises little: with psutil, that it was there and could be signalled,
\* with taskkill nothing.  A click or a key touches nothing the model has.
Done(h) ==
    LET target == h.request.arg IN
    CASE h.request.route = "PUT:/file" -> target \in h.after.files
      [] h.request.route = "POST:/file/delete" -> target \notin h.after.files
      [] h.request.route = "POST:/window/focus" -> <<target, h.after.focused>> \in Within
      [] h.request.route = "POST:/process/kill" ->
             "psutil" \in h.before.modules => target \in h.before.procs \ Protected
      [] h.request.route \in {"POST:/exec", "POST:/exec/batch"} -> h.after.ran > h.before.ran
      [] OTHER -> h.after = h.before

\* A result that is no error and holds no exit_code of -1 means that the request
\* took effect on the agent's machine (of killing a process, only what Done says);
\* one http_<status>, 500 apart, that it left the machine as it was, unless a batch
\* stopped at an empty command or a process ended by itself.  An exit_code of -1
\* says neither: the command ran into its timeout, or never ran.
ResultTellsEffect ==
    \A c \in Calls : \A i \in DOMAIN results[c] :
        LET Own == {h \in handled : h.call = c /\ h.step = i} IN
        /\ results[c][i] = "ok" => \E h \in Own : h.status = 200 /\ Done(h)
        /\ results[c][i] = "refused" => \E h \in Own :
               \/ h.after = h.before
               \/ h.request.route \in {"POST:/exec/batch", "POST:/process/kill"}

\* Every tool call returns, whatever the network and the agent do.
EveryCallReturns == \A c \in Calls : pc[c] = "send" ~> pc[c] = "done"
=============================================================================
