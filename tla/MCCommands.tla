----------------------------- MODULE MCCommands -----------------------------
EXTENDS Commands, TLC

CONSTANTS r1, r2, dimmer, gangs, sensor, spare

Sym == Permutations(Requests)

\* spare is in the table and has no node yet
MCProductOf ==
  [d \in Devices |->
     CASE d = dimmer -> "dimmer_1gang"
       [] d = gangs -> "switch_2gang"
       [] d = sensor -> "motion_sensor"
       [] d = spare -> "socket"]

SetLevel(d, n) ==
  [device |-> d, endpoint |-> 1, capability |-> "level",
   action |-> "set_level", level |-> Number(n)]
Switch(d, e, action) ==
  [device |-> d, endpoint |-> e, capability |-> "on_off",
   action |-> action, level |-> NoValue]

\* Levels at both ends, beyond them, and where truncation shows; commands that
\* fit no descriptor, endpoint, action or parameter
MCInputs ==
  {SetLevel(dimmer, n) : n \in {-1, 0, 1, 33, 100, 101}}
    \cup {[SetLevel(dimmer, 0) EXCEPT !.level = NoValue],
          [SetLevel(dimmer, 0) EXCEPT !.action = "on"],
          SetLevel(gangs, 50)}
    \cup {Switch(gangs, e, "on") : e \in 0 .. 3}
    \cup {Switch(gangs, 2, "off"), Switch(dimmer, 1, "toggle"),
          Switch(sensor, 1, "on"), Switch(spare, 1, "on"),
          [Switch(sensor, 1, "on") EXCEPT !.capability = "motion"]}
=============================================================================
