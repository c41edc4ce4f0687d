---------------------------- MODULE MCPublicSync ----------------------------
(* Instances of PublicSync for TLC.                                        *)
EXTENDS PublicSync

CONSTANTS a, b      \* two companies

\* Everything that leaves HOME and VPS to be brought together by the error
\* handlers of a living publisher.
Handled == {"network", "fatal", "lost", "commit", "crash", "reopen", "repeat"}
\* Everything.
Hostile == Circumstances
\* Failures of the network and of commands, and deaths outside the promotion.
Outages == {"network", "fatal", "lost", "crash"}
Restarts == {"crash_promoted"}
Reopening == {"reopen"}
=============================================================================
