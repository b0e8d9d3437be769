----------------------------- MODULE MCPluginTools -----------------------------
(* PluginTools with two agents, one of a machine with every optional library   *)
(* and one of a machine with few or none: any call next to one that changes    *)
(* something, to an agent that is configured or is not.                        *)
EXTENDS PluginTools

CONSTANTS c1, c2, a1, a2, unknown, path, outside, title, part, other, pid, guarded

MCCall(tool, agent, arg) ==
    [tool |-> tool, agent |-> agent, arg |-> arg,
     given |-> {p[2] : p \in {p \in Required : p[1] = tool}}]

MCArgs(tool) ==
    CASE tool = "windows_exec" -> {"command", Empty}
      [] tool = "windows_exec_batch" -> {<<"command", "command">>, <<"command", Empty>>, <<>>}
      [] tool \in {"windows_file_read", "windows_file_write", "windows_file_delete"} ->
             {path, outside, Empty}
      [] tool = "windows_open_app" -> {title, Empty}
      [] tool = "windows_window_focus" -> {title, part, Empty}
      [] tool = "windows_process_kill" -> {pid, guarded}
      [] tool = "windows_keyboard_press" -> {"key", Empty}
      [] tool = "windows_screenshot" -> {"bad_format", "bad_region", "full"}
      [] OTHER -> {Empty}

MCFirst ==
    UNION {{MCCall(t, a1, arg) : arg \in MCArgs(t)} : t \in Tools}
        \cup {MCCall("windows_exec", unknown, "command"),
              [MCCall("windows_open_app", a1, title) EXCEPT !.given = @ \cup {"no_wait_focus"}],
              [MCCall("windows_file_delete", a1, path) EXCEPT !.given = {}]}

\* The second call is one that can get in the way of the first.
MCSecond(first) ==
    CASE first.tool \in {"windows_file_read", "windows_file_write", "windows_file_delete"} ->
             MCCall("windows_file_delete", a1, path)
      [] first.tool \in {"windows_exec", "windows_open_app"} ->
             MCCall("windows_window_focus", a1, title)
      [] first.tool = "windows_window_focus" -> MCCall("windows_open_app", a1, title)
      [] first.tool = "windows_process_kill" -> MCCall("windows_process_kill", a1, pid)
      [] OTHER -> MCCall("windows_health", a1, Empty)

MCChoices == {[c \in Calls |-> IF c = c1 THEN first ELSE MCSecond(first)] : first \in MCFirst}

\* Two titles have a part in common.
MCWithin == {<<title, title>>, <<part, title>>, <<part, other>>}

\* A Windows machine with everything and one with no window open, a Linux machine
\* (pygetwindow is for Windows) and one without a display.
MCWindows == [modules |-> {"pyautogui", "pygetwindow", "psutil", "pillow"}, screen |-> "win32",
              files |-> {path}, windows |-> {title, other}, focused |-> Empty,
              procs |-> {pid, guarded}, ran |-> 0]
MCClosed == [MCWindows EXCEPT !.windows = {}, !.files = {}]
MCLinux == [MCClosed EXCEPT !.modules = {"pillow"}, !.screen = "display"]
MCHeadless == [MCLinux EXCEPT !.modules = {}, !.screen = "none"]
MCMachines == {[a \in Agents |-> IF a = a1 THEN m ELSE MCHeadless] :
                   m \in {MCWindows, MCClosed, MCLinux}}
=============================================================================
