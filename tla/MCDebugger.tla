----------------------------- MODULE MCDebugger -----------------------------
EXTENDS Debugger

\* Representatives of what an unwritten DebugEvent may hold: no thread and no
\* signal, or a thread of the target and a signal.
MCGarbage == {Ev(0, "-1"), Ev(1, "SIGSTOP"), Ev(1, "SIGTRAP")}
=============================================================================
