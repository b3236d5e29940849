------------------------------ MODULE MCHandle ------------------------------
(***************************************************************************)
(* Model-checking instance of Handle.                                      *)
(***************************************************************************)
EXTENDS Handle

CONSTANTS u1, u2, a1, a2

\* A loaded configuration, and the empty one the GUI starts from without it.
MCInitial == {[base |-> u1, ws |-> u1, listen |-> a1],
              [base |-> NoUpstream, ws |-> NoUpstream, listen |-> a1]}

\* No file; a readable one, which a GUI started without it or a process whose
\* flags say otherwise does not run on; the remains of a crashed save.
MCFound == {[base |-> u2, ws |-> u2, listen |-> a1], Absent, Torn}

\* The first input moves the proxy to another upstream on the same address and
\* passes a stale WebSocket URL; the second also moves it to another address;
\* the third does not parse.
MCInputs == {[base |-> u2, ws |-> u1, listen |-> a1],
             [base |-> u1, ws |-> u1, listen |-> a2],
             [base |-> NoUpstream, ws |-> u1, listen |-> a1]}
=============================================================================
