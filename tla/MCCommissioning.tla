-------------------------- MODULE MCCommissioning ---------------------------
EXTENDS Commissioning

CONSTANTS good, homeless, wifi, guest

\* Two requests for different Wi-Fi networks.
MCNetwork ==
  [r \in Requests |->
     IF r = good THEN wifi ELSE IF r = homeless THEN guest ELSE NoNetwork]
=============================================================================
