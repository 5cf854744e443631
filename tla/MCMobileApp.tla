---------------------------- MODULE MCMobileApp -----------------------------
EXTENDS MobileApp

CONSTANTS h1, h2, h3, h4, d1, d2

\* Two homes, and a device in each
TwoHomes == {<<h1, h2>>}
OneInEach == [d \in Devices |-> IF d = d1 THEN h1 ELSE h2]
FirstValues == [d \in Devices |-> 1]

\* The second device is yet to be commissioned.
OnlyFirst == [d \in Devices |-> IF d = d1 THEN 1 ELSE 0]

\* One home
OneHome == {<<h1>>}
InOne == [d \in Devices |-> h1]

\* A hub that has just been set up
NoHomes == {<<>>}
NoStates == [d \in Devices |-> 0]

\* Either of these hubs
TwoHomesOrNone == TwoHomes \cup NoHomes
=============================================================================
