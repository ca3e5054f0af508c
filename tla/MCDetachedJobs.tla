--------------------------- MODULE MCDetachedJobs ---------------------------
(* One detached job and two processes that poll it.                        *)
EXTENDS DetachedJobs

TwoPollers == {"status", "wait"}
=============================================================================
