---------------------------- MODULE StateMirror ----------------------------
(***************************************************************************)
(* What the hub promises of device states, with the connection, the        *)
(* messages, the failures and the restarts left out.  The hub keeps a copy *)
(* of values that change elsewhere.  It may miss values and be late, but   *)
(* it never goes back, never has a value that never was, tells the apps    *)
(* nothing but what it has stored, and in the end it catches up.           *)
(***************************************************************************)
EXTENDS Naturals

CONSTANT Keys  \* the attributes of the devices

VARIABLES
  actual,     \* the number of the value each attribute has; 0 is none
  stored,     \* the number of the value that the hub has stored
  announced,  \* the number of the one that it told last, since it started
  due         \* the attributes whose value the hub has to show

mirrorVars == <<actual, stored, announced>>

MirrorInit ==
  /\ stored = [k \in Keys |-> 0]
  /\ announced = [k \in Keys |-> 0]

Change ==
  /\ \A k \in Keys : actual[k] <= actual'[k]
  /\ UNCHANGED <<stored, announced>>

Learn(k) ==
  /\ \E v \in stored[k] .. actual[k] : stored' = [stored EXCEPT ![k] = v]
  /\ UNCHANGED <<actual, announced>>

Tell(k) ==
  /\ announced' = [announced EXCEPT ![k] = stored[k]]
  /\ UNCHANGED <<actual, stored>>

Start ==
  /\ announced' = [k \in Keys |-> 0]
  /\ UNCHANGED <<actual, stored>>

MirrorNext == Change \/ Start \/ \E k \in Keys : Learn(k) \/ Tell(k)

MirrorSafety == MirrorInit /\ [][MirrorNext]_mirrorVars

CatchesUp == \A k \in Keys : <>[](k \in due => stored[k] = actual[k])

MirrorSpec == MirrorSafety /\ CatchesUp
=============================================================================
