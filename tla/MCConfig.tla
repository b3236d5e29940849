------------------------------ MODULE MCConfig ------------------------------
\* Config with one setting of each kind: parsed or not, with a flag or not, a
\* Boolean, validated or not.
EXTENDS Config

MCSettings == {"upstream", "timeout", "skip", "level", "language",
               "autostart"}
=============================================================================
