------------------------------- MODULE Endpoints -------------------------------
(* What the routes of the agent answer and do to the machine: routers/file.py, *)
(* mouse.py, keyboard_.py, windows.py, screenshot.py, processes.py, system.py  *)
(* and exec.py.  A handler runs to its end in the event loop, but the machine  *)
(* is in use meanwhile: a window closes before activate, a process ends before *)
(* it is signalled.  Outcomes(m, q) is the set of what may come of request q   *)
(* on machine m; an exception that leaves the handler is answered 500.  The    *)
(* report is "minus_one" when the body says so of a command: exit_code -1.     *)
EXTENDS Integers, Sequences

CONSTANTS
    Allowed,    \* the paths under HERMES_ALLOWED_PATHS
    Protected,  \* processes of which psutil answers AccessDenied
    Titles,     \* window titles, each also the application that opens it
    Within,     \* the pairs of a text and a title it is a substring of
    Empty       \* ""

(* A machine has optional libraries (modules), a screen ("win32", "display",  *)
(* "none"), files, open windows of which one has the focus, processes, and    *)
(* the number of shell commands that ran on it.  The pointer, the keyboard     *)
(* focus and what they do to applications are no part of it.                  *)
IsMachine(m) ==
    /\ m = [modules |-> m.modules, screen |-> m.screen, files |-> m.files,
            windows |-> m.windows, focused |-> m.focused, procs |-> m.procs, ran |-> m.ran]
    /\ m.ran \in Nat

Answers(codes, m) == {[status |-> code, report |-> "plain", machine |-> m] : code \in codes}

\* read_text, after check_path_allowed; "" is the working directory, and a path of
\* no file may be a directory too, which is no FileNotFoundError.
ReadFile(m, path) ==
    Answers(IF path = Empty THEN {403, 500}
            ELSE IF path \notin Allowed THEN {403}
            ELSE IF path \notin m.files THEN {404, 500} ELSE {200, 500}, m)

\* write_text creates or truncates the file before it fails on its content.
WriteFileFirst(m, path) ==
    LET written == [m EXCEPT !.files = @ \cup {path}] IN
    IF path = Empty THEN Answers({400}, m)
    ELSE Answers(IF path \notin Allowed THEN {403} ELSE {200, 500}, written)
WriteFile(m, path) ==
    LET written == [m EXCEPT !.files = @ \cup {path}] IN
    IF path = Empty THEN Answers({400}, m)
    ELSE IF path \notin Allowed THEN Answers({403}, m)
    ELSE Answers({200, 500}, written) \cup Answers({500}, m)

DeleteFile(m, path) ==
    IF path = Empty THEN Answers({400}, m)
    ELSE IF path \notin Allowed THEN Answers({403}, m)
    ELSE IF path \notin m.files THEN Answers({404, 500}, m)
    ELSE Answers({200}, [m EXCEPT !.files = @ \ {path}]) \cup Answers({500}, m)

\* _require_pyautogui, then one call of the library, which may raise.
Input(m) == Answers(IF "pyautogui" \notin m.modules THEN {503} ELSE {200, 500}, m)
Keys(m, keys) ==
    IF "pyautogui" \in m.modules /\ keys = Empty THEN Answers({400}, m) ELSE Input(m)

\* getWindowsWithTitle matches substrings.
Matching(m, text) == {w \in m.windows : <<text, w>> \in Within}
LookAtWindows(m) == Answers(IF "pygetwindow" \notin m.modules THEN {503} ELSE {200, 500}, m)
FocusWindow(m, title) ==
    IF "pygetwindow" \notin m.modules THEN Answers({503}, m)
    ELSE IF title = Empty THEN Answers({400}, m)
    ELSE IF Matching(m, title) = {} THEN Answers({404}, m)
    ELSE Answers({500}, m) \cup
         UNION {Answers({200}, [m EXCEPT !.focused = w])
                    \cup Answers({500}, [m EXCEPT !.windows = @ \ {w}]) : w \in Matching(m, title)}

\* _capture_screen, region and encoding: a missing Pillow, a region that holds
\* no numbers and a failing encoder end in 500, three numbers in 400.
Screenshot(m, options) ==
    Answers(CASE options = "bad_format" -> {422}
              [] options # "bad_format" /\ m.screen = "none" -> {503}
              [] options # "bad_format" /\ m.screen # "none" ->
                     (IF m.screen = "display" THEN {503, 500} ELSE {500})
                     \cup (IF "pillow" \notin m.modules THEN {}
                           ELSE IF options = "bad_region" THEN {400} ELSE {200}), m)

\* terminate, wait 5 s, kill and no further wait: the process may outlive the answer;
\* or taskkill, whose exit code nobody looks at.
Kill(m, pid) ==
    LET gone == [m EXCEPT !.procs = @ \ {pid}] IN
    IF "psutil" \notin m.modules THEN Answers({200}, gone) \cup Answers({200, 400}, m)
    ELSE IF pid \notin m.procs THEN Answers({404}, m)
    ELSE IF pid \in Protected THEN Answers({403}, m)
    ELSE Answers({200, 404}, gone) \cup Answers({200, 400}, m)

\* The shell ran k commands more.
Ran(m, k) == [m EXCEPT !.ran = @ + k]

\* A command starts an application or does something else; starting one need not
\* open its window at once.
AfterRunning(m, command) ==
    {Ran(m, 1), [Ran(m, 1) EXCEPT !.windows = @ \cup (Titles \cap {command})]}

\* _run_command: any exception but the 400 is answered 200 with exit_code -1, be it
\* the timeout of a command that ran or a shell that could not be started.
Reports(report, machines) ==
    {[status |-> 200, report |-> report, machine |-> n] : n \in machines}
ExecSilent(m, command) ==
    IF command = Empty THEN Answers({400}, m)
    ELSE Reports("plain", {m} \cup AfterRunning(m, command))
Exec(m, command) ==
    IF command = Empty THEN Answers({400}, m)
    ELSE Reports("plain", AfterRunning(m, command))
             \cup Reports("minus_one", {m} \cup AfterRunning(m, command))

\* No batch is empty.  The first empty command ends it with 400, the ones before it
\* have had their turn; one with stop_on_error may end with any of its commands.
Turns(commands) == {k \in 0..Len(commands) : \A i \in 1..k : commands[i] # Empty}
ExecBatch(m, commands) ==
    LET After(counts) == {Ran(m, k) : k \in counts}
        someEmpty == \E i \in 1..Len(commands) : commands[i] = Empty
    IN CASE commands = <<>> -> Answers({422}, m)
         [] commands # <<>> ->
                Reports("plain", After(Turns(commands) \ {0}))
                \cup (IF commands[1] = Empty THEN {}
                      ELSE Reports("minus_one", After(Turns(commands))))
                \cup (IF someEmpty THEN UNION {Answers({400}, n) : n \in After(Turns(commands))}
                      ELSE {})

InputRoutes == {"POST:/mouse/move", "POST:/mouse/click", "POST:/mouse/doubleclick",
                "POST:/mouse/scroll", "GET:/mouse/position", "POST:/keyboard/type"}
KeyRoutes == {"POST:/keyboard/press", "POST:/keyboard/hotkey"}
InfoRoutes == {"GET:/health", "GET:/capabilities", "GET:/processes", "GET:/system"}

Outcomes(m, q) ==
    CASE q.route \in InfoRoutes -> Answers({200, 500}, m)
      [] q.route \in InputRoutes -> Input(m)
      [] q.route \in KeyRoutes -> Keys(m, q.arg)
      [] q.route \in {"GET:/window/active", "GET:/window/list"} -> LookAtWindows(m)
      [] q.route = "POST:/window/focus" -> FocusWindow(m, q.arg)
      [] q.route \in {"GET:/file", "GET:/file/read"} -> ReadFile(m, q.arg)
      [] q.route = "PUT:/file" -> WriteFile(m, q.arg)
      [] q.route = "POST:/file/delete" -> DeleteFile(m, q.arg)
      [] q.route = "GET:/screenshot" -> Screenshot(m, q.arg)
      [] q.route = "POST:/process/kill" -> Kill(m, q.arg)
      [] q.route = "POST:/exec" -> Exec(m, q.arg)
      [] q.route = "POST:/exec/batch" -> ExecBatch(m, q.arg)
      [] OTHER -> Answers({404}, m)
=============================================================================
