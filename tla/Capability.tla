----------------------------- MODULE Capability -----------------------------
(***************************************************************************)
(* What a product can do (internal/capability/catalog.go), what its Matter *)
(* attributes mean (state.go), and which Matter command a request becomes  *)
(* (mapDeviceCommand in application/service.go).                           *)
(*                                                                         *)
(* The parsed path of an attribute is a record; a value read from JSON is  *)
(* a number, a boolean, or something else.                                 *)
(***************************************************************************)
EXTENDS Integers

Can(endpoint, capability, writable) ==
  [endpoint |-> endpoint, capability |-> capability, writable |-> writable]

SwitchDescriptor(gangs) == {Can(i, "on_off", TRUE) : i \in 1 .. gangs}

Catalog ==
  [switch_1gang   |-> SwitchDescriptor(1),
   switch_2gang   |-> SwitchDescriptor(2),
   switch_3gang   |-> SwitchDescriptor(3),
   dimmer_1gang   |-> {Can(1, "on_off", TRUE), Can(1, "level", TRUE)},
   socket         |-> {Can(1, "on_off", TRUE), Can(1, "power", FALSE),
                       Can(1, "energy", FALSE)},
   climate_sensor |-> {Can(1, "temperature", FALSE),
                       Can(1, "humidity", FALSE)},
   motion_sensor  |-> {Can(1, "motion", FALSE)},
   contact_sensor |-> {Can(1, "contact", FALSE)}]

Products == DOMAIN Catalog

Supports(product, endpoint, capability) ==
  /\ product \in Products
  /\ \E x \in Catalog[product] :
       x.endpoint = endpoint /\ x.capability = capability

-----------------------------------------------------------------------------
(* From Matter attributes to states *)

CapabilityFor(cluster, attribute) ==
  IF attribute # 0 THEN ""
  ELSE CASE cluster = 6 -> "on_off"
         [] cluster = 8 -> "level"
         [] cluster = 1026 -> "temperature"
         [] cluster = 1029 -> "humidity"
         [] cluster = 1030 -> "motion"
         [] cluster = 69 -> "contact"
         [] OTHER -> ""

Number(n) == [kind |-> "number", n |-> n]
Boolean(b) == [kind |-> "boolean", n |-> IF b THEN 1 ELSE 0]
\* A number divided by 100
Hundredths(n) == [kind |-> "hundredths", n |-> n]
\* Null and whatever else is no number and no boolean; also "no value"
NoValue == [kind |-> "none", n |-> 0]

\* Math.Round(n * 100 / 254); no n in 0 .. 254 is half way.
PercentOf_Truncated(n) == (n * 100) \div 254
PercentOf(n) == (n * 200 + 254) \div 508

\* normalizeMatterValue; NoValue is its "not ok".
Normalize(capability, v) ==
  CASE capability \in {"on_off", "contact"} /\ v.kind # "none" ->
         Boolean(v.n # 0)
    [] capability = "motion" /\ v.kind = "number" -> Boolean(v.n # 0)
    [] capability = "level" /\ v.kind = "number" /\ v.n \in 0 .. 254 ->
         Number(PercentOf(v.n))
    [] capability \in {"temperature", "humidity"} /\ v.kind = "number" ->
         Hundredths(v.n)
    [] OTHER -> NoValue

\* FromMatterAttribute, the path being endpoint/cluster/attribute
FromMatterAttribute(product, path, v) ==
  LET c == CapabilityFor(path.cluster, path.attribute) IN
  IF path.endpoint # 0 /\ Supports(product, path.endpoint, c)
  THEN Normalize(c, v)
  ELSE NoValue

-----------------------------------------------------------------------------
(* From requests to Matter commands *)

\* int(percent * 254 / 100): the fraction is cut off.
MatterLevel(percent) == (percent * 254) \div 100

Refused(err) == [cluster |-> 0, name |-> err, level |-> 0]

\* level is the "level" of the params: a number, or NoValue
MapDeviceCommand(capability, action, level) ==
  CASE capability = "on_off" /\ action \in {"on", "off", "toggle"} ->
         [cluster |-> 6, name |-> action, level |-> 0]
    [] capability = "level" /\ action = "set_level" ->
         IF level.kind = "number" /\ level.n \in 0 .. 100
         THEN [cluster |-> 8, name |-> "moveToLevelWithOnOff",
               level |-> MatterLevel(level.n)]
         ELSE Refused("invalid_input")
    [] OTHER -> Refused("unsupported_capability")
=============================================================================
