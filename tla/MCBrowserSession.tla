-------------------------- MODULE MCBrowserSession --------------------------
(* Instances of BrowserSession for TLC.                                     *)
EXTENDS BrowserSession

ThreeBrowsers == 1 .. 3

\* A customer is logged in (row 1) when the run starts: the state the first
\* login leaves, with the attempt it came from already deleted and forgotten.
LoggedIn ==
  /\ rows = [b \in Browsers |->
               IF b = 1 THEN [Unissued EXCEPT !.status = "stored", !.authenticated = TRUE,
                                              !.jar = 1, !.provider = 1]
               ELSE Unissued]
  /\ busy = [b \in Browsers |-> Idle]
  /\ kratos = [b \in Browsers |-> IF b = 1 THEN "live" ELSE "none"]
  /\ grant = [b \in Browsers |-> [state |-> IF b = 1 THEN "live" ELSE "none", generation |-> 0]]
  /\ codes = {}
  /\ latest = [login |-> 1, replaced |-> NoBrowser]

LoggedInSpec == LoggedIn /\ [][Next]_vars /\ Fairness
=============================================================================
