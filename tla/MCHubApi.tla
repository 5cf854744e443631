------------------------------ MODULE MCHubApi ------------------------------
EXTENDS HubApi

\* The kinds of requests that show a dangling reference.
KeyKinds == {"ready", "pair", "room"}
=============================================================================
