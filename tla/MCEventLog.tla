----------------------------- MODULE MCEventLog -----------------------------
(* Small instances of EventLog for TLC. *)
EXTENDS EventLog
CONSTANTS e1, e2, e3,   \* events
          w1, w2        \* the session's log instance, and one opened by a rebuild
=============================================================================
