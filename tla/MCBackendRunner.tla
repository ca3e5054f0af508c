--------------------------- MODULE MCBackendRunner ---------------------------
(* Two calls over one slot.  The idle bound is 2 ticks; a true-silence     *)
(* bound above it is the slow starter's, a stall bound below it is a       *)
(* seat's that is known to hang, with the idle bound on or switched off.   *)
EXTENDS BackendRunner

TwoCalls == {"first", "second"}
Plain == [mode |-> "idle", stall |-> 0, silence |-> 0]
FastFail == [mode |-> "idle", stall |-> 1, silence |-> 0]
SlowStarter == [mode |-> "idle", stall |-> 0, silence |-> 3]
Switched == [mode |-> "total", stall |-> 1, silence |-> 0]
Wall == [mode |-> "wall", stall |-> 0, silence |-> 0]
Ask(one, other) == [c \in TwoCalls |-> IF c = "first" THEN one ELSE other]
AllRequests == {Ask(FastFail, SlowStarter), Ask(SlowStarter, Wall), Ask(Switched, Plain)}
=============================================================================
