-------------------------------- MODULE Host --------------------------------
(***************************************************************************)
(* The desktop process from start to exit: run_desktop, the single         *)
(* instance check (a PID file and an activation port), the crash log with  *)
(* its sentinel, and quitting.  Runs share the data directory.  A process  *)
(* may be killed anywhere.                                                 *)
(***************************************************************************)
EXTENDS Naturals, FiniteSetsExt

CONSTANTS
    MaxRuns,       \* bound on the processes started
    MaxTogether,   \* bound on the processes up together
    LastLogTime    \* bound on the crash logs: none is written later

ASSUME HostAssumption ==
    /\ MaxRuns \in Nat
    /\ MaxTogether \in Nat
    /\ LastLogTime \in Nat

VARIABLES
    desktop_runs,   \* per process: where it is and what it knows
    clock,          \* file times, one tick per write
    sentinel,       \* time of .app_running, 0 when absent
    pid_file,       \* process named by .desktop_instance.pid, 0 when absent
    crash_logs,     \* crashes/crash_*.log: time and writer
    overlapped      \* two processes were once up together

hostVars == <<desktop_runs, clock, sentinel, pid_file, crash_logs, overlapped>>

Runs == 1..MaxRuns

\* pending: time of the log offered to the user, 0 for none; marked: what the process
\* last did to the sentinel.
Unborn == [at |-> "unborn", pending |-> 0, marked |-> "never"]

Live == {"check", "mark", "bootstrap", "register", "listen", "up", "quit_pid", "quit_runtime",
         "quit_mark", "leave"}

HostInit ==
    /\ desktop_runs = [r \in Runs |-> Unborn]
    /\ clock = 1
    /\ sentinel = 0
    /\ pid_file = 0
    /\ crash_logs = {}
    /\ overlapped = FALSE

Alive(r) == desktop_runs[r].at \in Live
Listening(r) == desktop_runs[r].at \in {"up", "quit_pid", "quit_runtime", "quit_mark", "leave"}
RunGoesTo(r, place) == desktop_runs' = [desktop_runs EXCEPT ![r].at = place]

\* Logs a run wrote itself, by time.
LogsOf(r) == {l.time : l \in {k \in crash_logs : k.writer = r}}

-----------------------------------------------------------------------------
\* should_handoff_to_running_instance: a PID file of a dead process is removed; an
\* instance that answers on the port takes the start over.
StartRun(r) ==
    /\ desktop_runs[r] = Unborn /\ \A q \in 1..r - 1 : desktop_runs[q] # Unborn
    /\ Cardinality({q \in Runs : Alive(q)}) < MaxTogether
    /\ pid_file' = IF pid_file # 0 /\ ~Alive(pid_file) THEN 0 ELSE pid_file
    /\ RunGoesTo(r, IF \E q \in Runs : Listening(q) THEN "handed_off" ELSE "check")
    /\ overlapped' = (overlapped \/ (\E q \in Runs : Alive(q)) # (\E q \in Runs : Listening(q)))
    /\ UNCHANGED <<clock, sentinel, crash_logs>>

\* check_previous_crash: the newest log not older than the sentinel.
Eligible == {l \in crash_logs : l.time >= sentinel}

\* Mutant: mark_app_started came first.
check_previous_crash_Late(r) ==
    /\ desktop_runs[r].at = "check"
    /\ sentinel' = clock /\ clock' = clock + 1
    /\ desktop_runs' = [desktop_runs EXCEPT ![r].at = "bootstrap", ![r].marked = "started"]
    /\ UNCHANGED <<pid_file, crash_logs, overlapped>>

check_previous_crash(r) ==
    /\ desktop_runs[r].at = "check"
    /\ desktop_runs' = [desktop_runs EXCEPT ![r].at = "mark",
                            ![r].pending = IF sentinel = 0 \/ Eligible = {} THEN 0
                                           ELSE Max({l.time : l \in Eligible})]
    /\ UNCHANGED <<clock, sentinel, pid_file, crash_logs, overlapped>>

mark_app_started(r) ==
    /\ desktop_runs[r].at = "mark"
    /\ sentinel' = clock /\ clock' = clock + 1
    /\ desktop_runs' = [desktop_runs EXCEPT ![r].at = "bootstrap", ![r].marked = "started"]
    /\ UNCHANGED <<pid_file, crash_logs, overlapped>>

\* bootstrap_ui_session_or_exit: a refused start (SystemExit) removes the sentinel.
Bootstrap(r) ==
    /\ desktop_runs[r].at = "bootstrap"
    /\ \/ RunGoesTo(r, "register") /\ UNCHANGED sentinel
       \/ /\ desktop_runs' = [desktop_runs EXCEPT ![r].at = "ended", ![r].marked = "stopped"]
          /\ sentinel' = 0
    /\ UNCHANGED <<clock, pid_file, crash_logs, overlapped>>

write_pid_file(r) ==
    /\ desktop_runs[r].at = "register"
    /\ pid_file' = r
    /\ RunGoesTo(r, "listen")
    /\ UNCHANGED <<clock, sentinel, crash_logs, overlapped>>

WriteLog(r) ==
    /\ clock <= LastLogTime
    /\ crash_logs' = crash_logs \cup {[time |-> clock, writer |-> r]}
    /\ clock' = clock + 1

\* start_activation_listener: an address in use is an uncaught exception (some
\* systems let two processes share it).
start_activation_listener(r) ==
    /\ desktop_runs[r].at = "listen"
    /\ \/ RunGoesTo(r, "up") /\ UNCHANGED <<clock, crash_logs>>
       \/ /\ \E q \in Runs : Listening(q)
          /\ WriteLog(r)
          /\ RunGoesTo(r, "ended")
    /\ UNCHANGED <<sentinel, pid_file, overlapped>>

-----------------------------------------------------------------------------
\* thread_hook and loop_exception_handler: a log, and the process goes on.
ThreadRaises(r) ==
    /\ desktop_runs[r].at \in {"bootstrap", "register", "listen", "up", "quit_runtime"}
    /\ WriteLog(r)
    /\ UNCHANGED <<desktop_runs, sentinel, pid_file, overlapped>>

\* sys_hook: starting raises before the window exists, nothing is cleaned up.
StartRaises(r) ==
    /\ desktop_runs[r].at \in {"bootstrap", "register", "listen"}
    /\ WriteLog(r)
    /\ RunGoesTo(r, "ended")
    /\ UNCHANGED <<sentinel, pid_file, overlapped>>

\* dismiss and submit: the pending log moves out of the directory.
archive_pending_crash(r) ==
    /\ desktop_runs[r].at = "up" /\ desktop_runs[r].pending # 0
    /\ crash_logs' = {l \in crash_logs : l.time # desktop_runs[r].pending}
    /\ desktop_runs' = [desktop_runs EXCEPT ![r].pending = 0]
    /\ UNCHANGED <<clock, sentinel, pid_file, overlapped>>

\* begin_quit, once.
begin_quit(r) ==
    /\ desktop_runs[r].at = "up"
    /\ RunGoesTo(r, "quit_pid")
    /\ UNCHANGED <<clock, sentinel, pid_file, crash_logs, overlapped>>

\* From the tray, from a close that does not go to the tray, or from the finally of
\* webview.start, after an exception too.
RequestQuit(r) ==
    \E by \in {"tray", "close", "finally"}, tray_ready, close_to_tray \in BOOLEAN :
        /\ by = "close" => ~(tray_ready /\ close_to_tray)
        /\ begin_quit(r)

remove_pid_file(r) ==
    /\ desktop_runs[r].at = "quit_pid"
    /\ pid_file' = 0
    /\ RunGoesTo(r, "quit_runtime")
    /\ UNCHANGED <<clock, sentinel, crash_logs, overlapped>>

\* _shutdown_runtime: backend, connection and event writer, failures reported only.
_shutdown_runtime(r) ==
    /\ desktop_runs[r].at = "quit_runtime"
    /\ RunGoesTo(r, "quit_mark")
    /\ UNCHANGED <<clock, sentinel, pid_file, crash_logs, overlapped>>

mark_app_stopped(r) ==
    /\ desktop_runs[r].at = "quit_mark"
    /\ sentinel' = 0
    /\ desktop_runs' = [desktop_runs EXCEPT ![r].at = "leave", ![r].marked = "stopped"]
    /\ UNCHANGED <<clock, pid_file, crash_logs, overlapped>>

\* The process ends; an exception that left webview.start is logged only now.
LeaveRun(r) ==
    /\ desktop_runs[r].at = "leave"
    /\ RunGoesTo(r, "ended")
    /\ UNCHANGED <<clock, crash_logs>> \/ WriteLog(r)
    /\ UNCHANGED <<sentinel, pid_file, overlapped>>

Killed(r) ==
    /\ Alive(r)
    /\ RunGoesTo(r, "ended")
    /\ UNCHANGED <<clock, sentinel, pid_file, crash_logs, overlapped>>

HostNext ==
    \E r \in Runs :
        \/ StartRun(r) \/ check_previous_crash(r) \/ mark_app_started(r) \/ Bootstrap(r)
        \/ write_pid_file(r) \/ start_activation_listener(r) \/ ThreadRaises(r) \/ StartRaises(r)
        \/ archive_pending_crash(r) \/ RequestQuit(r) \/ remove_pid_file(r)
        \/ _shutdown_runtime(r) \/ mark_app_stopped(r) \/ LeaveRun(r) \/ Killed(r)

HostSpec == HostInit /\ [][HostNext]_hostVars

-----------------------------------------------------------------------------
HostTypeOK ==
    /\ \A r \in Runs : desktop_runs[r].at \in Live \cup {"unborn", "handed_off", "ended"}
    /\ clock \in 1..LastLogTime + MaxRuns + 1
    /\ sentinel \in 0..LastLogTime + MaxRuns
    /\ pid_file \in 0..MaxRuns
    /\ crash_logs \subseteq [time : 1..LastLogTime, writer : Runs]

\* The last process before r that marked its start.
Predecessor(r) == Max({0} \cup {q \in 1..r - 1 : desktop_runs[q].marked # "never"})

\* While no two processes were ever up together: a process that has reached its
\* bootstrap offers a crash log to the user exactly when the last process that
\* marked its start ended without marking its end and left a log; and it is the
\* last log of that process. Logs of processes that quit are never offered.
CrashIsOffered ==
    \A r \in Runs : desktop_runs[r].at = "bootstrap" /\ ~overlapped =>
        desktop_runs[r].pending =
            LET q == Predecessor(r)
            IN  IF q = 0 \/ desktop_runs[q].marked = "stopped" THEN 0 ELSE Max({0} \cup LogsOf(q))
=============================================================================
