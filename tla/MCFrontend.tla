----------------------------- MODULE MCFrontend -----------------------------
(***************************************************************************)
(* Model-checking instance of Frontend.                                    *)
(***************************************************************************)
EXTENDS Frontend

CONSTANTS u1, a1

MCInitial == {[base |-> u1, ws |-> u1, listen |-> a1]}

\* One save that restarts the server, and one that is refused.
MCInputs == {[base |-> u1, ws |-> NoUpstream, listen |-> a1],
             [base |-> NoUpstream, ws |-> u1, listen |-> a1]}

\* A first start, and one after a crash in a save.
MCFound == {Absent, Torn}
=============================================================================
