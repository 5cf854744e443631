------------------------------ MODULE Commands ------------------------------
(***************************************************************************)
(* POST /api/v1/devices/{deviceID}/commands: ExecuteDeviceCommand in a     *)
(* goroutine per request, with a connection to the Matter server of its    *)
(* own (Client.Execute), and the way back, from the changed attribute to   *)
(* the stored state.  The app's slider posts a request for every move and  *)
(* does not wait for answers.                                              *)
(*                                                                         *)
(* The Matter server and the devices are external.  The event stream does  *)
(* not fail here (MatterEvents has its failures).                          *)
(***************************************************************************)
EXTENDS Capability, Sequences

CONSTANTS
  Requests,     \* one element per request
  Devices,      \* the devices table
  ProductOf,    \* the product type of a device
  Commissioned, \* the devices with a Matter node
  Inputs,       \* the bodies that clients send, see AnyInput
  NoInput,      \* "nothing posted yet"
  MaxTouches    \* bound on presses of a device's own buttons

AnyInput ==
  [device : Devices, endpoint : Nat, capability : STRING, action : STRING,
   level : [kind : {"number", "boolean", "none"}, n : Int]]

ASSUME CommandsAssumption ==
  /\ ProductOf \in [Devices -> Products]
  /\ Commissioned \subseteq Devices
  /\ Inputs \subseteq AnyInput
  /\ NoInput \notin Inputs
  /\ MaxTouches \in Nat

VARIABLES
  step,       \* how far the hub is with a request
  input,      \* the body of a request
  server,     \* the Matter server's side of it
  attr,       \* the attributes of the devices
  reports,    \* attribute events on their way to the hub
  states,     \* the device_states table
  touches,    \* presses so far
  asked,      \* history: what a state should come to by the last request
  executed,   \* history: the percent of the last level executed
  overlapped  \* history: a request came while another was unanswered

history == <<asked, executed, overlapped>>
vars == <<step, input, server, attr, reports, states, touches, asked,
          executed, overlapped>>

-----------------------------------------------------------------------------
\* What commands can change, and the cluster it is an attribute of
Key(d, e, c) == [device |-> d, endpoint |-> e, capability |-> c]
Keys == {k \in [device : Commissioned, endpoint : 1 .. 3,
                capability : {"on_off", "level"}] :
           Supports(ProductOf[k.device], k.endpoint, k.capability)}
ClusterOf(c) == IF c = "on_off" THEN 6 ELSE 8

Off(k) == IF k.capability = "on_off" THEN Boolean(FALSE) ELSE Number(0)

\* What the hub makes of the attribute of a key
Stored(k, v) ==
  FromMatterAttribute(ProductOf[k.device],
    [endpoint |-> k.endpoint, cluster |-> ClusterOf(k.capability),
     attribute |-> 0], v)

Command(i) == MapDeviceCommand(i.capability, i.action, i.level)

\* The checks of ExecuteDeviceCommand, in its order
Verdict_AnyEndpoint(i) ==
  IF i.endpoint = 0 \/ i.capability = "" \/ i.action = "" THEN "invalid_input"
  ELSE IF i.device \notin Commissioned THEN "not_commissioned"
  ELSE IF ~ \E e \in 1 .. 3 : Supports(ProductOf[i.device], e, i.capability)
  THEN "unsupported_capability"
  ELSE IF Command(i).cluster = 0 THEN Command(i).name
  ELSE "ok"
Verdict(i) ==
  IF i.endpoint = 0 \/ i.capability = "" \/ i.action = "" THEN "invalid_input"
  ELSE IF i.device \notin Commissioned THEN "not_commissioned"
  ELSE IF ~Supports(ProductOf[i.device], i.endpoint, i.capability)
  THEN "unsupported_capability"
  ELSE IF Command(i).cluster = 0 THEN Command(i).name
  ELSE "ok"

\* The attributes that a command sets, and their new values
Sets(i) ==
  LET cmd == Command(i)
      onOff == Key(i.device, i.endpoint, "on_off") IN
  IF cmd.cluster = 6
  THEN [k \in {onOff} |-> Boolean(cmd.name = "on" \/
                                  (cmd.name = "toggle" /\ attr[k].n = 0))]
  ELSE [k \in {onOff, Key(i.device, i.endpoint, "level")} |->
          IF k = onOff THEN Boolean(cmd.level > 0) ELSE Number(cmd.level)]

\* What the one who asks expects to see; nothing in particular of "toggle"
Expects(i) ==
  CASE i.action = "toggle" -> [k \in DOMAIN Sets(i) |-> NoValue]
    [] i.capability = "level" ->
         [k \in DOMAIN Sets(i) |->
            IF k.capability = "level" THEN i.level ELSE Boolean(i.level.n > 0)]
    [] OTHER -> Sets(i)

Override(f, g) == [k \in DOMAIN f |-> IF k \in DOMAIN g THEN g[k] ELSE f[k]]

Waiting(r) == step[r] \in {"received", "sent"}

Init ==
  /\ step = [r \in Requests |-> "idle"]
  /\ input = [r \in Requests |-> NoInput]
  /\ server = [r \in Requests |-> "none"]
  /\ attr = [k \in Keys |-> Off(k)]
  /\ reports = <<>>
  /\ states = [k \in Keys |-> Stored(k, Off(k))]
  /\ touches = 0
  /\ asked = [k \in Keys |-> NoValue]
  /\ executed = [k \in Keys |-> 0]
  /\ overlapped = FALSE

-----------------------------------------------------------------------------
(* The hub *)

Post(r) ==
  /\ step[r] = "idle"
  /\ \E i \in Inputs :
       /\ input' = [input EXCEPT ![r] = i]
       /\ asked' = IF Verdict(i) = "ok" THEN Override(asked, Expects(i))
                                        ELSE asked
  /\ step' = [step EXCEPT ![r] = "received"]
  /\ overlapped' = (overlapped \/ \E q \in Requests : Waiting(q))
  /\ UNCHANGED <<server, attr, reports, states, touches, executed>>

Reject(r) ==
  /\ step[r] = "received"
  /\ Verdict(input[r]) # "ok"
  /\ step' = [step EXCEPT ![r] = "rejected"]
  /\ UNCHANGED <<input, server, attr, reports, states, touches, history>>

Send(r) ==
  /\ step[r] = "received"
  /\ Verdict(input[r]) = "ok"
  /\ step' = [step EXCEPT ![r] = "sent"]
  /\ server' = [server EXCEPT ![r] = "queued"]
  /\ UNCHANGED <<input, attr, reports, states, touches, history>>

\* The client goes away; or the lookup of the device, or the connection to the
\* Matter server, fails; or the answer does not come in time.
Fail_Forgets(r) ==
  /\ Waiting(r)
  /\ step' = [step EXCEPT ![r] = "idle"]
  /\ UNCHANGED <<input, server, attr, reports, states, touches, history>>
Fail(r) ==
  /\ Waiting(r)
  /\ step' = [step EXCEPT ![r] = "failed"]
  /\ UNCHANGED <<input, server, attr, reports, states, touches, history>>

Answer_Early(r) ==
  /\ step[r] = "sent"
  /\ step' = [step EXCEPT ![r] =
                IF server[r] = "refused" THEN "failed" ELSE "accepted"]
  /\ UNCHANGED <<input, server, attr, reports, states, touches, history>>
Answer(r) ==
  /\ step[r] = "sent"
  /\ server[r] \in {"done", "refused"}
  /\ step' = [step EXCEPT ![r] =
                IF server[r] = "done" THEN "accepted" ELSE "failed"]
  /\ UNCHANGED <<input, server, attr, reports, states, touches, history>>

\* ApplyMatterAttribute, for the next event
Apply ==
  /\ reports # <<>>
  /\ LET k == Head(reports).key IN
       states' = [states EXCEPT ![k] = Stored(k, Head(reports).value)]
  /\ reports' = Tail(reports)
  /\ UNCHANGED <<step, input, server, attr, touches, history>>

-----------------------------------------------------------------------------
(* The Matter server and the devices *)

Report(k, v) == IF attr[k] = v THEN <<>> ELSE <<[key |-> k, value |-> v]>>

\* In any order: each command came by a connection of its own.
Execute(r) ==
  /\ server[r] = "queued"
  /\ server' = [server EXCEPT ![r] = "done"]
  /\ LET i == input[r]
         level == Key(i.device, i.endpoint, "level")
         onOff == Key(i.device, i.endpoint, "on_off") IN
       /\ attr' = Override(attr, Sets(i))
       /\ reports' = reports
            \o (IF level \in DOMAIN Sets(i)
                THEN Report(level, Sets(i)[level]) ELSE <<>>)
            \o Report(onOff, Sets(i)[onOff])
       /\ executed' = IF level \in DOMAIN Sets(i)
                      THEN [executed EXCEPT ![level] = i.level.n]
                      ELSE executed
  /\ UNCHANGED <<step, input, states, touches, asked, overlapped>>

Refuse(r) ==
  /\ server[r] = "queued"
  /\ server' = [server EXCEPT ![r] = "refused"]
  /\ UNCHANGED <<step, input, attr, reports, states, touches, history>>

\* Somebody presses the device's own button.
Touch(k) ==
  /\ touches < MaxTouches
  /\ k.capability = "on_off"
  /\ touches' = touches + 1
  /\ attr' = [attr EXCEPT ![k] = Boolean(@.n = 0)]
  /\ reports' = reports \o Report(k, Boolean(attr[k].n = 0))
  /\ asked' = [asked EXCEPT ![k] = NoValue]
  /\ UNCHANGED <<step, input, server, states, executed, overlapped>>

-----------------------------------------------------------------------------
Request(r) ==
  \/ Post(r) \/ Reject(r) \/ Send(r) \/ Fail(r) \/ Answer(r)
  \/ Execute(r) \/ Refuse(r)

Next ==
  \/ \E r \in Requests : Request(r)
  \/ Apply
  \/ \E k \in Keys : Touch(k)

Spec == Init /\ [][Next]_vars

-----------------------------------------------------------------------------
(* Properties *)

Values == [kind : {"number", "boolean"}, n : 0 .. 254]
AttrValues(k) ==
  IF k.capability = "on_off" THEN {Boolean(TRUE), Boolean(FALSE)}
                             ELSE {Number(n) : n \in 0 .. 254}
StateValues(k) ==
  IF k.capability = "on_off" THEN {Boolean(TRUE), Boolean(FALSE)}
                             ELSE {Number(n) : n \in 0 .. 100}

\* Type invariant: attributes and states of the kinds and ranges that
\* FromMatterAttribute takes and makes, and an input for every request.
TypeOK ==
  /\ step \in [Requests -> {"idle", "received", "rejected", "sent", "failed",
                            "accepted"}]
  /\ input \in [Requests -> Inputs \cup {NoInput}]
  /\ \A r \in Requests : input[r] = NoInput <=> step[r] = "idle"
  /\ server \in [Requests -> {"none", "queued", "done", "refused"}]
  /\ DOMAIN attr = Keys /\ DOMAIN states = Keys
  /\ \A k \in Keys : attr[k] \in AttrValues(k) /\ states[k] \in StateValues(k)
  /\ reports \in Seq([key : Keys, value : Values])
  /\ \A j \in 1 .. Len(reports) :
       reports[j].value \in AttrValues(reports[j].key)
  /\ touches \in 0 .. MaxTouches

\* The Matter server gets commands only for what ExecuteDeviceCommand and
\* mapDeviceCommand have let through: writable in the descriptor of the device,
\* although neither looks at Writable, at that very endpoint, and in range; and
\* a request that was rejected never gets there.
OnlyOffered ==
  \A r \in Requests : server[r] # "none" =>
    /\ input[r].device \in Commissioned
    /\ Can(input[r].endpoint, input[r].capability, TRUE)
         \in Catalog[ProductOf[input[r].device]]
    /\ Command(input[r]).level \in 0 .. 254
    /\ step[r] # "rejected"

\* The stored level is the percent that was asked for, after the way to 0..254
\* and back, once the events are applied.
ShowsExecuted ==
  reports = <<>> =>
    \A k \in Keys : k.capability = "level" => states[k] = Number(executed[k])

AllAccepted ==
  \A r \in Requests : step[r] \in {"idle", "rejected", "accepted"}

\* A client that waits for each answer, and gets a 204 for all it asked that is
\* valid, sees in the end what it asked for last.  (The app's slider does not
\* wait: two of its commands run on two connections, in either order.)
AwaitedWins ==
  AllAccepted /\ ~overlapped /\ reports = <<>> =>
    \A k \in Keys : asked[k] # NoValue => states[k] = asked[k]
=============================================================================
