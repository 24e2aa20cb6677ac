--------------------------- MODULE MCBrowserSession ---------------------------
(* Small instances of BrowserSession for TLC.                               *)
EXTENDS BrowserSession, TLC

CONSTANTS a1, a2, ann

\* Two sessions of one user; any other session is of a user of its own.
Owners == [s \in Sessions |-> IF s \in {a1, a2} THEN ann ELSE s]
==============================================================================
