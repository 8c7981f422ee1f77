------------------------ MODULE MCSpreadsheetEngine ------------------------
(* Small instances of SpreadsheetEngine for TLC.                           *)
EXTENDS SpreadsheetEngine, TLC

CONSTANTS c1, c2, p1, k1, k2, k3, k4, t1, t2,
          plain, nan, left, right, lost

\* Two threads of one process; one thread.
OneProcess   == c1 :> p1 @@ c2 :> p1
OneCaller    == c1 :> p1

\* Each caller has a work directory of its own, named after it; so the
\* threads of a process differ in nothing.
PrivateDirs == [c \in Callers |-> c]
Alike == Permutations(Callers)

\* plain and nan are ordinary requests, of two templates, and JSON does not
\* give nan's answer back; left and right are one set of inputs in two orders,
\* two of them written to one cell; lost has an input that has no cell.
MCTemplateOf == [r \in Requests |-> IF r = nan THEN t2 ELSE t1]
MCKeyOf == [r \in Requests |-> CASE r = plain -> k1
                                 [] r = nan   -> k2
                                 [] r = lost  -> k4
                                 [] OTHER     -> k3]
MCAmbiguous      == Requests \cap {left, right}
MCUnresolvable   == Requests \cap {lost}
MCUnreproducible == Requests \cap {nan}
=============================================================================
