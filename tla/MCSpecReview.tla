---------------------------- MODULE MCSpecReview ----------------------------
EXTENDS SpecReview
CONSTANTS n1, n2
TwoNotes == {n1, n2}
EveryHandoff == [kind: {"foreground", "daemon"}, once: BOOLEAN]
=============================================================================
