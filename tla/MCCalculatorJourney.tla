------------------------- MODULE MCCalculatorJourney -------------------------
(* Small instances of CalculatorJourney for TLC.                            *)
EXTENDS CalculatorJourney

CONSTANTS v2, shared, s1, x

(* Bound: two controllers live side by side on one page of one login, with  *)
(* one selection and under one set of prices; on the other pages there is   *)
(* one controller, and all of these change.  An answer changes none of      *)
(* them, so the bound takes no step away that fairness asks for.            *)
Beside ==
  IF pair = shared
    THEN /\ pair' = pair /\ session' = session /\ source' = s1
         /\ \A v \in Views : view'[v].selections \in {x, None}
    ELSE pair' # shared /\ ~view'[v2].mounted
==============================================================================
