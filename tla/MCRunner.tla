----------------------------- MODULE MCRunner -----------------------------
(* Instances of Runner for TLC: the walks the sessions of each run may take. *)
EXTENDS Runner

TwoUsers == 1 .. 2

\* Two requests with a pure state between them, and a walk that hits every way a
\* node fails before its request is sent.
MixedWalks == {<<"api", "pure", "api">>, <<"bad", "off">>}
=============================================================================
