--------------------------- MODULE MCMatterEvents ---------------------------
EXTENDS MatterEvents, TLC

CONSTANT onOff

\* The second value of the attribute is null.
MCIgnored == {<<a, v>> \in Attrs \X Versions : a = onOff /\ v = 2}

\* Commissioning while the listener waits for the next event; no value changes
\* and nothing fails.
JoinsWhileReading(n) == pc = "reading" /\ NodeJoins(n)
ReadingNext ==
  \/ Listener \/ ServerSubscribes \/ ServerAnswers
  \/ \E n \in Nodes : JoinsWhileReading(n) \/ Import(n)
ReadingSpec ==
  /\ Init /\ [][ReadingNext]_vars
  /\ WF_vars(Listener) /\ WF_vars(ServerSubscribes) /\ WF_vars(ServerAnswers)
=============================================================================
