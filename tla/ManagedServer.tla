--------------------------- MODULE ManagedServer ---------------------------
(***************************************************************************)
(* What the server handle of cc2ws promises whoever shares it, without     *)
(* sockets, goroutines or a mutex: there is one server, off or on.  Turned *)
(* on, it takes the configuration of that moment and keeps it until it is  *)
(* turned off; a new configuration is an acceptable one, in normal form,   *)
(* and reaches the server only through off.  Handle implements this for    *)
(* any number of concurrent callers.                                       *)
(***************************************************************************)
CONSTANTS Acceptable,    \* the configurations SetConfig lets through, normalized
          Off

VARIABLES config,        \* the configuration in force
          on             \* what the server runs with, or Off

vars == <<config, on>>

Init == on = Off         \* whatever the program was started with

Configure == config' \in Acceptable /\ UNCHANGED on
TurnOn    == on = Off /\ on' = config /\ UNCHANGED config
TurnOff   == on # Off /\ on' = Off /\ UNCHANGED config

Next == Configure \/ TurnOn \/ TurnOff

Spec == Init /\ [][Next]_vars
=============================================================================
