--------------------------- MODULE CommandsProofs ---------------------------
(***************************************************************************)
(* Theorems about Capability and Commands, for any devices, requests and   *)
(* bodies of requests.                                                     *)
(***************************************************************************)
EXTENDS Commands, SequenceTheorems, TLAPS

-----------------------------------------------------------------------------
(* The level scale *)

\* A percent comes back as it was set: the fraction that MatterLevel cuts off is
\* less than PercentOf rounds.
THEOREM LevelRoundTrip ==
  \A p \in 0 .. 100 : /\ MatterLevel(p) \in 0 .. 254
                      /\ PercentOf(MatterLevel(p)) = p
  BY DEF MatterLevel, PercentOf

\* No attribute in range leaves the range of the descriptor.
LEMMA PercentInRange == \A n \in 0 .. 254 : PercentOf(n) \in 0 .. 100
  BY DEF PercentOf

-----------------------------------------------------------------------------
(* The catalog *)

LEMMA CatalogFacts ==
  ASSUME NEW p, NEW e, NEW c, Supports(p, e, c)
  PROVE  /\ e \in 1 .. 3
         /\ c = "on_off" => Can(e, c, TRUE) \in Catalog[p]
         /\ c = "level" => /\ Can(e, c, TRUE) \in Catalog[p]
                           /\ Supports(p, e, "on_off")
<1>1. PICK x \in Catalog[p] : x.endpoint = e /\ x.capability = c
  BY DEF Supports
<1>2. p \in {"switch_1gang", "switch_2gang", "switch_3gang", "dimmer_1gang",
             "socket", "climate_sensor", "motion_sensor", "contact_sensor"}
  BY DEF Supports, Products, Catalog
<1>3. ASSUME NEW g \in 1 .. 3, Catalog[p] = SwitchDescriptor(g)
      PROVE  e \in 1 .. 3 /\ c = "on_off" /\ Can(e, c, TRUE) \in Catalog[p]
  <2>1. PICK k \in 1 .. g : x = Can(k, "on_off", TRUE)
    BY <1>1, <1>3 DEF SwitchDescriptor
  <2>2. e = k /\ c = "on_off"
    BY <1>1, <2>1 DEF Can
  <2>3. Can(k, "on_off", TRUE) \in Catalog[p]
    BY <2>1
  <2>4. Can(e, c, TRUE) \in Catalog[p]
    BY <2>2, <2>3, Zenon
  <2>5. e \in 1 .. 3
    BY <1>3, <2>2
  <2> QED BY <2>2, <2>4, <2>5, Zenon
<1>4. CASE p \in {"switch_1gang", "switch_2gang", "switch_3gang"}
  <2>1. \E g \in 1 .. 3 : Catalog[p] = SwitchDescriptor(g)
    BY <1>4 DEF Catalog
  <2>2. PICK g \in 1 .. 3 : Catalog[p] = SwitchDescriptor(g)
    BY <2>1
  <2>3. e \in 1 .. 3 /\ c = "on_off" /\ Can(e, c, TRUE) \in Catalog[p]
    BY <1>3, <2>2, Zenon
  <2>4. c # "level"
    BY <2>3, SMT
  <2> QED BY <2>3, <2>4, Zenon
<1>5. CASE p = "dimmer_1gang"
  <2>1. Catalog[p] = {Can(1, "on_off", TRUE), Can(1, "level", TRUE)}
    BY <1>5 DEF Catalog
  <2>2. e = 1 /\ (c = "on_off" \/ c = "level")
    BY <1>1, <2>1 DEF Can
  <2>3. /\ Can(1, "on_off", TRUE) \in Catalog[p]
        /\ Can(1, "level", TRUE) \in Catalog[p]
    BY <2>1
  <2>4. Supports(p, 1, "on_off")
    <3>1. /\ Can(1, "on_off", TRUE).endpoint = 1
          /\ Can(1, "on_off", TRUE).capability = "on_off"
      BY DEF Can
    <3> QED BY <2>3, <3>1 DEF Supports
  <2>5. /\ c = "on_off" => Can(e, c, TRUE) \in Catalog[p]
        /\ c = "level" => Can(e, c, TRUE) \in Catalog[p]
        /\ Supports(p, e, "on_off")
    BY <2>2, <2>3, <2>4, Zenon
  <2>6. e \in 1 .. 3
    BY <2>2
  <2> QED BY <2>2, <2>5, <2>6, Zenon
<1>6. CASE p = "socket"
  <2>1. Catalog[p] = {Can(1, "on_off", TRUE), Can(1, "power", FALSE),
                      Can(1, "energy", FALSE)}
    BY <1>6 DEF Catalog
  <2>2. e = 1 /\ (c = "on_off" \/ c = "power" \/ c = "energy")
    BY <1>1, <2>1 DEF Can
  <2>3. Can(1, "on_off", TRUE) \in Catalog[p]
    BY <2>1
  <2>4. c = "on_off" => Can(e, c, TRUE) \in Catalog[p]
    BY <2>2, <2>3, Zenon
  <2>5. e \in 1 .. 3 /\ c # "level"
    BY <2>2
  <2> QED BY <2>4, <2>5, Zenon
<1>7. CASE p \in {"climate_sensor", "motion_sensor", "contact_sensor"}
  <2>1. /\ x.endpoint = 1
        /\ x.capability \in {"temperature", "humidity", "motion", "contact"}
    BY <1>1, <1>7 DEF Catalog, Can
  <2>2. e \in 1 .. 3 /\ c # "on_off" /\ c # "level"
    BY <1>1, <2>1
  <2> QED BY <2>2, Zenon
<1>8. \/ p \in {"switch_1gang", "switch_2gang", "switch_3gang"}
      \/ p = "dimmer_1gang" \/ p = "socket"
      \/ p \in {"climate_sensor", "motion_sensor", "contact_sensor"}
  BY <1>2
<1> QED BY <1>4, <1>5, <1>6, <1>7, <1>8, Zenon

-----------------------------------------------------------------------------
(* Keys, attributes and commands *)

LEMMA KeyFields ==
  ASSUME NEW d, NEW e, NEW c
  PROVE  /\ Key(d, e, c).device = d
         /\ Key(d, e, c).endpoint = e
         /\ Key(d, e, c).capability = c
  BY DEF Key

LEMMA KeyInKeys ==
  ASSUME NEW d \in Commissioned, NEW e, NEW c \in {"on_off", "level"},
         Supports(ProductOf[d], e, c)
  PROVE  Key(d, e, c) \in Keys
<1>1. e \in 1 .. 3
  BY CatalogFacts
<1> QED BY <1>1 DEF Key, Keys

LEMMA KeysFacts ==
  ASSUME NEW k \in Keys
  PROVE  /\ k.device \in Commissioned
         /\ k.endpoint \in 1 .. 3
         /\ k.capability \in {"on_off", "level"}
         /\ Supports(ProductOf[k.device], k.endpoint, k.capability)
  BY DEF Keys

\* What the hub stores for the attributes in range
LEMMA StoredFacts ==
  ASSUME NEW k \in Keys
  PROVE  /\ k.capability = "on_off" =>
              \A b \in BOOLEAN : Stored(k, Boolean(b)) = Boolean(b)
         /\ k.capability = "level" =>
              \A n \in 0 .. 254 : Stored(k, Number(n)) = Number(PercentOf(n))
<1>1. ASSUME NEW v
      PROVE  Stored(k, v) = Normalize(k.capability, v)
  <2>1. CapabilityFor(ClusterOf(k.capability), 0) = k.capability
    <3>1. /\ CapabilityFor(6, 0) = "on_off"
          /\ CapabilityFor(8, 0) = "level"
      BY DEF CapabilityFor
    <3>2. k.capability = "on_off" \/ k.capability = "level"
      BY KeysFacts
    <3> QED BY <3>1, <3>2 DEF ClusterOf
  <2>2. /\ k.endpoint # 0
        /\ Supports(ProductOf[k.device], k.endpoint, k.capability)
    BY KeysFacts
  <2> QED BY <2>1, <2>2 DEF Stored, FromMatterAttribute
<1>2. ASSUME k.capability = "on_off", NEW b \in BOOLEAN
      PROVE  Stored(k, Boolean(b)) = Boolean(b)
  BY <1>1, <1>2 DEF Normalize, Boolean
<1>3. ASSUME k.capability = "level", NEW n \in 0 .. 254
      PROVE  Stored(k, Number(n)) = Number(PercentOf(n))
  BY <1>1, <1>3 DEF Normalize, Number
<1> QED BY <1>2, <1>3

LEMMA StoredType ==
  ASSUME NEW k \in Keys, NEW v \in AttrValues(k)
  PROVE  /\ Stored(k, v) \in StateValues(k)
         /\ v \in Values
<1>1. CASE k.capability = "on_off"
  <2>1. PICK b \in BOOLEAN : v = Boolean(b)
    BY <1>1 DEF AttrValues
  <2>2. Stored(k, v) \in StateValues(k)
    BY <1>1, <2>1, StoredFacts DEF StateValues
  <2> QED BY <2>1, <2>2 DEF Values, Boolean
<1>2. CASE k.capability = "level"
  <2>1. PICK n \in 0 .. 254 : v = Number(n)
    BY <1>2 DEF AttrValues
  <2>2. Stored(k, v) = Number(PercentOf(n)) /\ PercentOf(n) \in 0 .. 100
    BY <1>2, <2>1, StoredFacts, PercentInRange
  <2>3. Stored(k, v) \in StateValues(k)
    BY <1>2, <2>2 DEF StateValues
  <2> QED BY <2>1, <2>3 DEF Values, Number
<1> QED BY <1>1, <1>2, KeysFacts

\* What ExecuteDeviceCommand has checked when it goes on to the Matter server
LEMMA Accepted ==
  ASSUME NEW i \in Inputs, Verdict(i) = "ok"
  PROVE  /\ i.device \in Commissioned
         /\ Supports(ProductOf[i.device], i.endpoint, i.capability)
         /\ \/ /\ i.capability = "on_off"
               /\ Command(i).cluster = 6 /\ Command(i).level = 0
            \/ /\ i.capability = "level"
               /\ Command(i).cluster = 8
               /\ i.level.n \in 0 .. 100
               /\ Command(i).level = MatterLevel(i.level.n)
<1>1. /\ i.device \in Commissioned
      /\ Supports(ProductOf[i.device], i.endpoint, i.capability)
      /\ Command(i).cluster # 0
  <2>1. Command(i).cluster = 0 =>
          Command(i).name \in {"invalid_input", "unsupported_capability"}
    BY DEF Command, MapDeviceCommand, Refused
  <2> QED BY <2>1 DEF Verdict
<1>2. \/ /\ i.capability = "on_off"
         /\ Command(i).cluster = 6 /\ Command(i).level = 0
      \/ /\ i.capability = "level"
         /\ Command(i).cluster = 8
         /\ i.level.n \in 0 .. 100
         /\ Command(i).level = MatterLevel(i.level.n)
  BY <1>1 DEF Command, MapDeviceCommand, Refused
<1> QED BY <1>1, <1>2

\* A command that was let through sets attributes that are there, to values of
\* theirs; a level command sets the level it asks for.
LEMMA SetsFacts ==
  ASSUME NEW i \in Inputs, Verdict(i) = "ok"
  PROVE  /\ Key(i.device, i.endpoint, "on_off") \in DOMAIN Sets(i)
         /\ DOMAIN Sets(i) \subseteq Keys
         /\ \A k \in DOMAIN Sets(i) : Sets(i)[k] \in AttrValues(k)
         /\ \A k \in DOMAIN Sets(i) : k.capability = "level" =>
              /\ k = Key(i.device, i.endpoint, "level")
              /\ i.level.n \in 0 .. 100
              /\ Sets(i)[k] = Number(MatterLevel(i.level.n))
         /\ \A k \in DOMAIN Sets(i) :
              k \in {Key(i.device, i.endpoint, "on_off"),
                    Key(i.device, i.endpoint, "level")}
<1> DEFINE onOff == Key(i.device, i.endpoint, "on_off")
           level == Key(i.device, i.endpoint, "level")
           cmd == Command(i)
<1>1. onOff.capability = "on_off" /\ level.capability = "level"
  BY KeyFields
<1>2. onOff \in Keys
  BY Accepted, CatalogFacts, KeyInKeys
<1>3. ASSUME NEW b \in BOOLEAN
      PROVE  Boolean(b) \in AttrValues(onOff)
  BY <1>1 DEF AttrValues
<1>4. CASE cmd.cluster = 6
  <2> DEFINE b == cmd.name = "on" \/ (cmd.name = "toggle" /\ attr[onOff].n = 0)
  <2>1. DOMAIN Sets(i) = {onOff} /\ Sets(i)[onOff] = Boolean(b)
    BY <1>4 DEF Sets
  <2>2. Boolean(b) \in AttrValues(onOff)
    <3> HIDE DEF onOff
    <3> QED BY <1>3
  <2> QED BY <1>1, <1>2, <2>1, <2>2
<1>5. CASE cmd.cluster = 8
  <2>1. /\ i.capability = "level" /\ i.level.n \in 0 .. 100
        /\ cmd.level = MatterLevel(i.level.n)
    BY <1>5, Accepted
  <2>2. level \in Keys
    BY <2>1, Accepted, KeyInKeys
  <2>3. cmd.level \in 0 .. 254
    <3>1. PICK n \in 0 .. 100 : n = i.level.n
      BY <2>1
    <3>2. MatterLevel(n) \in 0 .. 254
      BY LevelRoundTrip
    <3>3. cmd.level = MatterLevel(n)
      BY <2>1, <3>1
    <3> QED BY <3>2, <3>3
  <2>4. Number(cmd.level) \in AttrValues(level)
    BY <1>1, <2>3 DEF AttrValues
  <2> DEFINE b == cmd.level > 0
  <2>5. /\ DOMAIN Sets(i) = {onOff, level}
        /\ Sets(i)[onOff] = Boolean(b)
        /\ Sets(i)[level] = Number(cmd.level)
    BY <1>1, <1>5 DEF Sets
  <2>6. Boolean(b) \in AttrValues(onOff)
    <3>1. b \in BOOLEAN
      BY <2>3
    <3> HIDE DEF onOff, b
    <3> QED BY <1>3, <3>1
  <2> QED BY <1>1, <1>2, <2>1, <2>2, <2>4, <2>5, <2>6
<1> QED BY <1>4, <1>5, Accepted
-----------------------------------------------------------------------------
(* Events on their way *)

Carried(s) ==
  /\ s \in Seq([key : Keys, value : Values])
  /\ \A j \in 1 .. Len(s) : s[j].value \in AttrValues(s[j].key)

\* The last event of k in s carries v; or there is none, and w is what the hub
\* stores for v.
Mirrors(s, k, v, w) ==
  \/ \E j \in 1 .. Len(s) :
       /\ s[j].key = k /\ s[j].value = v
       /\ \A m \in 1 .. Len(s) : s[m].key = k => m <= j
  \/ /\ \A j \in 1 .. Len(s) : s[j].key # k
     /\ w = Stored(k, v)

LEMMA Reported ==
  ASSUME NEW s, Carried(s), NEW x \in Keys, NEW y \in AttrValues(x)
  PROVE  /\ Carried(s \o Report(x, y))
         /\ \A k \in Keys : \A v, w :
              k # x /\ Mirrors(s, k, v, w) =>
                Mirrors(s \o Report(x, y), k, v, w)
         /\ \A w : Mirrors(s, x, attr[x], w) =>
                   Mirrors(s \o Report(x, y), x, y, w)
<1>1. CASE attr[x] = y
  <2>1. s \o Report(x, y) = s
    BY <1>1 DEF Report, Carried
  <2> QED BY <1>1, <2>1
<1>2. CASE attr[x] # y
  <2> DEFINE e == [key |-> x, value |-> y]
             t == s \o Report(x, y)
  <2>1. e \in [key : Keys, value : Values] /\ e.key = x /\ e.value = y
    BY StoredType
  <2>2. /\ t \in Seq([key : Keys, value : Values])
        /\ Len(t) = Len(s) + 1
        /\ \A j \in 1 .. Len(s) : t[j] = s[j]
        /\ t[Len(s) + 1] = e
        /\ Len(s) \in Nat
    BY <1>2, <2>1 DEF Report, Carried
  <2> HIDE DEF t, e
  <2>3. Carried(t)
    BY <2>1, <2>2 DEF Carried
  <2>4. ASSUME NEW k \in Keys, NEW v, NEW w, k # x, Mirrors(s, k, v, w)
        PROVE  Mirrors(t, k, v, w)
    BY <2>1, <2>2, <2>4 DEF Mirrors
  <2>5. ASSUME NEW w
        PROVE  Mirrors(t, x, y, w)
    BY <2>1, <2>2 DEF Mirrors
  <2> QED BY <2>3, <2>4, <2>5 DEF t
<1> QED BY <1>1, <1>2

LEMMA Delivered ==
  ASSUME NEW s, Carried(s), s # <<>>, NEW k \in Keys, NEW v, NEW w,
         Mirrors(s, k, v, w)
  PROVE  /\ Carried(Tail(s))
         /\ k # Head(s).key => Mirrors(Tail(s), k, v, w)
         /\ k = Head(s).key =>
              Mirrors(Tail(s), k, v, Stored(k, Head(s).value))
<1>1. /\ Tail(s) \in Seq([key : Keys, value : Values])
      /\ Len(s) \in Nat \ {0}
      /\ Len(Tail(s)) = Len(s) - 1
      /\ \A j \in 1 .. Len(Tail(s)) : Tail(s)[j] = s[j + 1]
      /\ Head(s) = s[1]
  BY DEF Carried
<1>2. Carried(Tail(s))
  BY <1>1 DEF Carried
<1>3. CASE \A j \in 1 .. Len(s) : s[j].key # k
  BY <1>1, <1>2, <1>3 DEF Mirrors
<1>4. ASSUME NEW j \in 1 .. Len(s), s[j].key = k, s[j].value = v,
             \A m \in 1 .. Len(s) : s[m].key = k => m <= j
      PROVE  \A u : Mirrors(Tail(s), k, v, u) \/ (j = 1 /\ k = Head(s).key)
  <2>1. CASE j = 1
    BY <1>1, <1>4, <2>1
  <2>2. CASE j # 1
    <3>1. j - 1 \in 1 .. Len(Tail(s)) /\ Tail(s)[j - 1] = s[j]
      BY <1>1, <2>2
    <3>2. \A m \in 1 .. Len(Tail(s)) : Tail(s)[m].key = k => m <= j - 1
      BY <1>1, <1>4
    <3> QED BY <1>4, <3>1, <3>2 DEF Mirrors
  <2> QED BY <2>1, <2>2
<1>5. ASSUME NEW j \in 1 .. Len(s), s[j].key = k, s[j].value = v,
             \A m \in 1 .. Len(s) : s[m].key = k => m <= j, j = 1
      PROVE  Mirrors(Tail(s), k, v, Stored(k, Head(s).value))
  <2>1. \A m \in 1 .. Len(Tail(s)) : Tail(s)[m].key # k
    BY <1>1, <1>5
  <2> QED BY <1>1, <1>5, <2>1 DEF Mirrors
<1> QED BY <1>2, <1>3, <1>4, <1>5 DEF Mirrors

-----------------------------------------------------------------------------
(* The inductive invariant *)

\* A command is at the Matter server only once its request has passed the checks.
Sent ==
  \A r \in Requests : server[r] # "none" =>
    /\ step[r] \in {"sent", "failed", "accepted"}
    /\ Verdict(input[r]) = "ok"

\* A level is at what its last command made of the percent.
Levels ==
  /\ DOMAIN executed = Keys
  /\ \A k \in Keys : k.capability = "level" =>
       /\ executed[k] \in 0 .. 100
       /\ attr[k] = Number(MatterLevel(executed[k]))

\* What the hub lacks is on its way.
Mirrored == \A k \in Keys : Mirrors(reports, k, attr[k], states[k])

IInv == TypeOK /\ Sent /\ Levels /\ Mirrored

LEMMA InitInv == Init => IInv
<1> SUFFICES ASSUME Init PROVE IInv
  OBVIOUS
<1>1. ASSUME NEW k \in Keys
      PROVE  Off(k) \in AttrValues(k)
  <2>1. k.capability = "on_off" \/ k.capability = "level"
    BY KeysFacts
  <2>2. CASE k.capability = "on_off"
    BY <2>2, Zenon DEF Off, AttrValues
  <2>3. CASE k.capability = "level"
    BY <2>3 DEF Off, AttrValues
  <2> QED BY <2>1, <2>2, <2>3
<1>2. \A k \in Keys : attr[k] \in AttrValues(k) /\ states[k] \in StateValues(k)
  BY <1>1, StoredType DEF Init
<1>3. TypeOK
  BY <1>2, CommandsAssumption DEF TypeOK, Init
<1>4. MatterLevel(0) = 0
  BY DEF MatterLevel
<1>5. Levels
  <2>1. \A k \in Keys : k.capability = "level" => attr[k] = Number(0)
    BY DEF Init, Off
  <2> QED BY <1>4, <2>1 DEF Levels, Init
<1>6. Mirrored
  BY DEF Mirrored, Mirrors, Init
<1> QED BY <1>3, <1>5, <1>6 DEF IInv, Sent, Init

\* A step that leaves the devices, their events and the table alone
LEMMA HubStep ==
  ASSUME Levels, Mirrored, UNCHANGED <<attr, reports, states, executed>>
  PROVE  Levels' /\ Mirrored'
  BY DEF Levels, Mirrored, Mirrors

LEMMA StepInv == IInv /\ [Next]_vars => IInv'
<1> SUFFICES ASSUME IInv, [Next]_vars PROVE IInv'
  OBVIOUS
<1> USE DEF IInv
<1>0. Carried(reports)
  BY DEF TypeOK, Carried
<1>1. ASSUME NEW r \in Requests, Post(r)
      PROVE  IInv'
  <2>1. TypeOK'
    BY <1>1, CommandsAssumption DEF TypeOK, Post
  <2>2. Sent'
    BY <1>1 DEF TypeOK, Post, Sent
  <2> QED BY <1>1, <2>1, <2>2, HubStep DEF Post
<1>2. ASSUME NEW r \in Requests, Reject(r)
      PROVE  IInv'
  <2>1. TypeOK'
    BY <1>2 DEF TypeOK, Reject, history
  <2>2. Sent'
    BY <1>2 DEF TypeOK, Reject, history, Sent
  <2> QED BY <1>2, <2>1, <2>2, HubStep DEF Reject, history
<1>3. ASSUME NEW r \in Requests, Send(r)
      PROVE  IInv'
  <2>1. TypeOK'
    BY <1>3 DEF TypeOK, Send, history
  <2>2. Sent'
    BY <1>3 DEF TypeOK, Send, history, Sent
  <2> QED BY <1>3, <2>1, <2>2, HubStep DEF Send, history
<1>4. ASSUME NEW r \in Requests, Fail(r)
      PROVE  IInv'
  <2>1. TypeOK'
    BY <1>4 DEF TypeOK, Fail, Waiting, history
  <2>2. Sent'
    BY <1>4 DEF TypeOK, Fail, history, Sent
  <2> QED BY <1>4, <2>1, <2>2, HubStep DEF Fail, history
<1>5. ASSUME NEW r \in Requests, Answer(r)
      PROVE  IInv'
  <2>1. TypeOK'
    BY <1>5 DEF TypeOK, Answer, history
  <2>2. Sent'
    BY <1>5 DEF TypeOK, Answer, history, Sent
  <2> QED BY <1>5, <2>1, <2>2, HubStep DEF Answer, history
<1>6. ASSUME NEW r \in Requests, Refuse(r)
      PROVE  IInv'
  <2>1. TypeOK'
    BY <1>6 DEF TypeOK, Refuse, history
  <2>2. Sent'
    BY <1>6 DEF TypeOK, Refuse, history, Sent
  <2> QED BY <1>6, <2>1, <2>2, HubStep DEF Refuse, history
<1>7. CASE Apply
  <2> DEFINE k == Head(reports).key
             v == Head(reports).value
  <2>1. k \in Keys /\ v \in AttrValues(k)
    <3>1. Len(reports) \in Nat \ {0} /\ Head(reports) = reports[1]
      BY <1>0, <1>7 DEF Apply, Carried
    <3>2. reports[1] \in [key : Keys, value : Values]
      <4> HIDE DEF IInv
      <4>1. /\ reports \in Seq([key : Keys, value : Values])
            /\ 1 \in 1 .. Len(reports)
        BY <1>0, <3>1 DEF Carried
      <4> QED BY ONLY <4>1, ElementOfSeq
    <3> QED BY <1>0, <3>1, <3>2 DEF Carried
  <2>2. /\ DOMAIN states' = Keys
        /\ states'[k] = Stored(k, v)
        /\ \A x \in Keys : x # k => states'[x] = states[x]
        /\ reports' = Tail(reports) /\ reports # <<>>
        /\ UNCHANGED <<step, input, server, attr, touches, executed>>
    BY <1>7, <2>1 DEF Apply, history, TypeOK
  <2>3. Stored(k, v) \in StateValues(k)
    BY <2>1, StoredType
  <2> HIDE DEF v
  <2>4. Carried(reports')
    <3>1. \A x \in Keys : Mirrors(reports, x, attr[x], states[x])
      BY DEF Mirrored
    <3> QED BY <1>0, <2>1, <2>2, <3>1, Delivered
  <2>5. TypeOK'
    BY <2>2, <2>3, <2>4 DEF TypeOK, Carried
  <2>6. Mirrored'
    <3> SUFFICES ASSUME NEW x \in Keys
                 PROVE  Mirrors(reports', x, attr[x], states'[x])
      BY <2>2 DEF Mirrored, Mirrors
    <3>1. Mirrors(reports, x, attr[x], states[x])
      BY DEF Mirrored
    <3>2. CASE x = k
      BY <1>0, <2>2, <3>1, <3>2, Delivered DEF v
    <3>3. CASE x # k
      BY <1>0, <2>2, <3>1, <3>3, Delivered
    <3> QED BY <3>2, <3>3
  <2> QED BY <2>2, <2>5, <2>6 DEF Sent, Levels
<1>8. ASSUME NEW t \in Keys, Touch(t)
      PROVE  IInv'
  <2> DEFINE b == attr[t].n = 0
             v == Boolean(b)
  <2>1. v \in AttrValues(t)
    BY <1>8 DEF Touch, AttrValues
  <2>2. /\ DOMAIN attr' = Keys
        /\ attr'[t] = v
        /\ \A x \in Keys : x # t => attr'[x] = attr[x]
        /\ reports' = reports \o Report(t, v)
        /\ touches' \in 0 .. MaxTouches
        /\ t.capability = "on_off"
        /\ UNCHANGED <<step, input, server, states, executed>>
    BY <1>8, CommandsAssumption DEF Touch, TypeOK
  <2> HIDE DEF v
  <2>3. Carried(reports')
    BY <1>0, <2>1, <2>2, Reported
  <2>4. TypeOK'
    BY <2>1, <2>2, <2>3 DEF TypeOK, Carried
  <2>5. Mirrored'
    <3> SUFFICES ASSUME NEW x \in Keys
                 PROVE  Mirrors(reports', x, attr'[x], states[x])
      BY <2>2 DEF Mirrored, Mirrors
    <3>1. Mirrors(reports, x, attr[x], states[x])
      BY DEF Mirrored
    <3>2. CASE x = t
      BY <1>0, <2>1, <2>2, <3>1, <3>2, Reported
    <3>3. CASE x # t
      BY <1>0, <2>1, <2>2, <3>1, <3>3, Reported
    <3> QED BY <3>2, <3>3
  <2> QED BY <2>2, <2>4, <2>5 DEF Sent, Levels
<1>9. ASSUME NEW r \in Requests, Execute(r)
      PROVE  IInv'
  <2> DEFINE i == input[r]
             level == Key(i.device, i.endpoint, "level")
             onOff == Key(i.device, i.endpoint, "on_off")
             mid == IF level \in DOMAIN Sets(i)
                    THEN reports \o Report(level, Sets(i)[level]) ELSE reports
  <2>1. i \in Inputs /\ Verdict(i) = "ok"
    BY <1>9 DEF Execute, Sent, TypeOK
  <2>2. level # onOff
    BY KeyFields
  <2>3. /\ DOMAIN attr' = Keys
        /\ \A x \in Keys : attr'[x] =
             IF x \in DOMAIN Sets(i) THEN Sets(i)[x] ELSE attr[x]
        /\ UNCHANGED <<step, input, states, touches>>
        /\ server' = [server EXCEPT ![r] = "done"] /\ server[r] = "queued"
    BY <1>9 DEF Execute, Override, TypeOK
  <2>4. reports' = mid \o Report(onOff, Sets(i)[onOff])
    <3>1. CASE level \in DOMAIN Sets(i)
      BY <1>9, <3>1 DEF Execute
    <3>2. CASE level \notin DOMAIN Sets(i)
      <4>1. reports \o <<>> = reports
        BY <1>0 DEF Carried
      <4> QED BY <1>9, <3>2, <4>1 DEF Execute
    <3> QED BY <3>1, <3>2
  <2>5. executed' = IF level \in DOMAIN Sets(i)
                    THEN [executed EXCEPT ![level] = i.level.n]
                    ELSE executed
    BY <1>9 DEF Execute
  <2>6. /\ onOff \in DOMAIN Sets(i)
        /\ DOMAIN Sets(i) \subseteq Keys
        /\ \A k \in DOMAIN Sets(i) : Sets(i)[k] \in AttrValues(k)
        /\ \A k \in DOMAIN Sets(i) : k.capability = "level" =>
             /\ k = level
             /\ i.level.n \in 0 .. 100
             /\ Sets(i)[k] = Number(MatterLevel(i.level.n))
        /\ \A k \in DOMAIN Sets(i) : k \in {onOff, level}
    BY <2>1, SetsFacts
  <2>7. /\ Carried(mid)
        /\ \A k \in Keys :
             Mirrors(mid, k, IF k = level THEN attr'[k] ELSE attr[k], states[k])
    BY <1>0, <2>3, <2>6, Reported DEF Mirrored
  <2>8. level.capability = "level"
    BY KeyFields
  <2> HIDE DEF i, level, onOff, mid
  <2>9. Carried(reports')
    BY <2>4, <2>6, <2>7, Reported
  <2>10. TypeOK'
    BY <2>3, <2>6, <2>9 DEF TypeOK, Carried
  <2>11. Mirrored'
    <3> SUFFICES ASSUME NEW x \in Keys
                 PROVE  Mirrors(reports', x, attr'[x], states[x])
      BY <2>3 DEF Mirrored, Mirrors
    <3>1. CASE x = onOff
      BY <2>2, <2>3, <2>4, <2>6, <2>7, <3>1, Reported
    <3>2. CASE x # onOff
      BY <2>3, <2>4, <2>6, <2>7, <3>2, Reported
    <3> QED BY <3>1, <3>2
  <2>12. Levels'
    BY <2>3, <2>5, <2>6, <2>8 DEF Levels
  <2>13. Sent'
    BY <2>3 DEF Sent, TypeOK
  <2> QED BY <2>10, <2>11, <2>12, <2>13
<1>10. CASE UNCHANGED vars
  <2>1. TypeOK' /\ Sent'
    BY <1>10 DEF vars, TypeOK, Sent
  <2> QED BY <1>10, <2>1, HubStep DEF vars
<1> QED BY <1>1, <1>2, <1>3, <1>4, <1>5, <1>6, <1>7, <1>8, <1>9, <1>10
        DEF Next, Request

-----------------------------------------------------------------------------
(* Theorems *)

THEOREM Inductive == Spec => []IInv
  BY InitInv, StepInv, PTL DEF Spec

\* The attributes, the events and the table keep to the values of their
\* capabilities, and no request loses its body.
THEOREM TypeCorrect == Spec => []TypeOK
<1>1. IInv => TypeOK
  BY DEF IInv
<1> QED BY <1>1, Inductive, PTL

\* No request reaches the Matter server unless it fits a writable descriptor of
\* the very device and endpoint, whatever clients send.
THEOREM OnlyOfferedHolds == Spec => []OnlyOffered
<1>1. ASSUME IInv
      PROVE  OnlyOffered
  <2> SUFFICES ASSUME NEW r \in Requests, server[r] # "none"
               PROVE  /\ input[r].device \in Commissioned
                      /\ Can(input[r].endpoint, input[r].capability, TRUE)
                           \in Catalog[ProductOf[input[r].device]]
                      /\ Command(input[r]).level \in 0 .. 254
                      /\ step[r] # "rejected"
    BY DEF OnlyOffered
  <2> DEFINE i == input[r]
  <2>1. i \in Inputs /\ Verdict(i) = "ok" /\ step[r] # "rejected"
    BY <1>1 DEF IInv, Sent, TypeOK
  <2> HIDE DEF i
  <2>2. /\ i.device \in Commissioned
        /\ Supports(ProductOf[i.device], i.endpoint, i.capability)
        /\ i.capability = "on_off" \/ i.capability = "level"
        /\ Command(i).level \in 0 .. 254
    <3>1. /\ i.device \in Commissioned
          /\ Supports(ProductOf[i.device], i.endpoint, i.capability)
      BY <2>1, Accepted
    <3>2. \/ i.capability = "on_off" /\ Command(i).level = 0
          \/ /\ i.capability = "level" /\ i.level.n \in 0 .. 100
             /\ Command(i).level = MatterLevel(i.level.n)
      BY <2>1, Accepted
    <3>3. Command(i).level \in 0 .. 254
      <4>1. CASE Command(i).level = 0
        BY <4>1
      <4>2. CASE i.level.n \in 0 .. 100 /\ Command(i).level = MatterLevel(i.level.n)
        <5>1. PICK n \in 0 .. 100 : n = i.level.n
          BY <4>2
        <5>2. MatterLevel(n) \in 0 .. 254
          BY LevelRoundTrip
        <5> QED BY <4>2, <5>1, <5>2, Zenon
      <4> QED BY <3>2, <4>1, <4>2
    <3> QED BY <3>1, <3>2, <3>3, Zenon
  <2>3. Can(i.endpoint, i.capability, TRUE) \in Catalog[ProductOf[i.device]]
    BY <2>2, CatalogFacts, Zenon
  <2> QED BY <2>1, <2>2, <2>3, Zenon DEF i
<1> QED BY <1>1, Inductive, PTL

\* With no event on its way, every stored level is the percent last executed.
THEOREM ShowsExecutedHolds == Spec => []ShowsExecuted
<1>1. ASSUME IInv
      PROVE  ShowsExecuted
  <2> SUFFICES ASSUME reports = <<>>, NEW k \in Keys, k.capability = "level"
               PROVE  states[k] = Number(executed[k])
    BY DEF ShowsExecuted
  <2>1. states[k] = Stored(k, attr[k])
    BY <1>1 DEF IInv, Mirrored, Mirrors
  <2>2. /\ executed[k] \in 0 .. 100
        /\ attr[k] = Number(MatterLevel(executed[k]))
    BY <1>1 DEF IInv, Levels
  <2> QED BY <2>1, <2>2, LevelRoundTrip, StoredFacts
<1> QED BY <1>1, Inductive, PTL
-----------------------------------------------------------------------------
(* What a client that waits for its answers sees *)

\* Nothing failed and nothing overlapped so far.
Orderly == ~overlapped /\ \A r \in Requests : step[r] # "failed"

\* A request that will still change the devices, unless it fails
Pending(r) == Waiting(r) /\ Verdict(input[r]) = "ok" /\ server[r] # "done"

\* Who waits is alone, and a 204 is an answer of the Matter server.
Alone ==
  /\ ~overlapped => \A q, r \in Requests : Waiting(q) /\ Waiting(r) => q = r
  /\ \A r \in Requests : step[r] = "accepted" => server[r] = "done"

\* What was asked for is what the pending request expects or, with none that
\* sets this key, what the hub stores for the attribute as it is.
AskedFor(k) ==
  /\ \A r \in Requests : Pending(r) /\ k \in DOMAIN Expects(input[r]) =>
       asked[k] = Expects(input[r])[k]
  /\ (\A r \in Requests : Pending(r) => k \notin DOMAIN Expects(input[r])) =>
       asked[k] = Stored(k, attr[k])

Kept ==
  /\ DOMAIN asked = Keys
  /\ Orderly => \A k \in Keys : asked[k] # NoValue => AskedFor(k)

AInv == Alone /\ Kept

\* What is expected of a command, except of "toggle", does not depend on the
\* attributes.
LEMMA ExpectsStay ==
  ASSUME NEW i \in Inputs, Verdict(i) = "ok"
  PROVE  /\ DOMAIN Expects(i)' = DOMAIN Expects(i)
         /\ \A k \in DOMAIN Expects(i) :
              \/ Expects(i)'[k] = Expects(i)[k]
              \/ Expects(i)[k] = NoValue /\ Expects(i)'[k] = NoValue
<1>1. DOMAIN Sets(i)' = DOMAIN Sets(i)
  BY DEF Sets
<1>2. CASE i.action = "toggle"
  BY <1>1, <1>2 DEF Expects
<1>3. CASE i.action # "toggle" /\ i.capability = "level"
  BY <1>1, <1>3 DEF Expects
<1>4. CASE i.action # "toggle" /\ i.capability # "level"
  <2>1. Command(i).cluster = 6 /\ Command(i).name # "toggle"
    BY <1>4, Accepted DEF Command, MapDeviceCommand, Refused
  <2>2. Sets(i)' = Sets(i)
    BY <2>1 DEF Sets
  <2> QED BY <1>4, <2>2 DEF Expects
<1> QED BY <1>2, <1>3, <1>4

\* A command sets the keys of which something is expected, to what the hub
\* shows as expected: of "toggle", nothing in particular.
LEMMA ExpectsMet ==
  ASSUME NEW i \in Inputs, Verdict(i) = "ok"
  PROVE  /\ DOMAIN Expects(i) = DOMAIN Sets(i)
         /\ \A k \in DOMAIN Sets(i) :
              \/ Expects(i)[k] = NoValue
              \/ Expects(i)[k] = Stored(k, Sets(i)[k])
<1> DEFINE onOff == Key(i.device, i.endpoint, "on_off")
           level == Key(i.device, i.endpoint, "level")
<1>1. /\ onOff.capability = "on_off" /\ level.capability = "level"
      /\ onOff # level
  BY KeyFields
<1>2. /\ DOMAIN Sets(i) \subseteq {onOff, level}
      /\ DOMAIN Sets(i) \subseteq Keys
  BY SetsFacts
<1>3. CASE i.action = "toggle"
  <2>1. i.capability # "level"
    BY <1>3, Accepted DEF Command, MapDeviceCommand, Refused
  <2> QED BY <1>3, <2>1 DEF Expects
<1>4. CASE i.action # "toggle" /\ i.capability = "level"
  <2>1. /\ Command(i).cluster = 8
        /\ Command(i).level = MatterLevel(i.level.n)
        /\ i.level.n \in 0 .. 100
    BY <1>4, Accepted
  <2>2. i.level = Number(i.level.n)
    <3>1. i.level.kind = "number"
      BY <1>4, <2>1 DEF Command, MapDeviceCommand, Refused
    <3>2. i.level \in [kind : {"number", "boolean", "none"}, n : Int]
      BY CommandsAssumption DEF AnyInput
    <3> QED BY <3>1, <3>2 DEF Number
  <2>3. PICK n \in 0 .. 100 : n = i.level.n
    BY <2>1
  <2>4. /\ MatterLevel(n) \in 0 .. 254 /\ PercentOf(MatterLevel(n)) = n
        /\ MatterLevel(n) > 0 <=> n > 0
    BY LevelRoundTrip DEF MatterLevel
  <2>5. /\ DOMAIN Sets(i) = {onOff, level}
        /\ Sets(i)[onOff] = Boolean(MatterLevel(n) > 0)
        /\ Sets(i)[level] = Number(MatterLevel(n))
    BY <1>1, <2>1, <2>3 DEF Sets
  <2>6. /\ DOMAIN Expects(i) = {onOff, level}
        /\ Expects(i)[onOff] = Boolean(n > 0)
        /\ Expects(i)[level] = Number(n)
    BY <1>1, <1>4, <2>2, <2>3, <2>5 DEF Expects
  <2> HIDE DEF onOff, level
  <2>7. Expects(i)[onOff] = Stored(onOff, Sets(i)[onOff])
    <3>1. (MatterLevel(n) > 0) \in BOOLEAN /\ onOff \in Keys
      BY <1>2, <2>5
    <3>2. Boolean(MatterLevel(n) > 0) = Boolean(n > 0)
      BY <2>4 DEF Boolean
    <3>3. \A b \in BOOLEAN : Stored(onOff, Boolean(b)) = Boolean(b)
      BY <1>1, <3>1, StoredFacts
    <3>4. Stored(onOff, Boolean(MatterLevel(n) > 0))
            = Boolean(MatterLevel(n) > 0)
      BY <3>1, <3>3, Zenon
    <3> QED BY <2>5, <2>6, <3>2, <3>4, Zenon
  <2>8. Expects(i)[level] = Stored(level, Sets(i)[level])
    BY <1>1, <1>2, <2>4, <2>5, <2>6, StoredFacts
  <2> QED BY <2>5, <2>6, <2>7, <2>8
<1>5. CASE i.action # "toggle" /\ i.capability # "level"
  <2>1. Expects(i) = Sets(i)
    BY <1>5 DEF Expects
  <2>2. Command(i).cluster = 6
    BY <1>5, Accepted
  <2>3. /\ DOMAIN Sets(i) = {onOff}
        /\ \E b \in BOOLEAN : Sets(i)[onOff] = Boolean(b)
    BY <2>2 DEF Sets
  <2>4. \A b \in BOOLEAN : Stored(onOff, Boolean(b)) = Boolean(b)
    BY <1>1, <1>2, <2>3, StoredFacts
  <2> QED BY <2>1, <2>3, <2>4
<1> QED BY <1>3, <1>4, <1>5
-----------------------------------------------------------------------------
(* Every step keeps it. *)

LEMMA InitKept == Init => AInv
<1> SUFFICES ASSUME Init PROVE AInv
  OBVIOUS
<1>1. Alone
  BY DEF Init, Alone, Waiting
<1>2. Kept
  BY DEF Init, Kept
<1> QED BY <1>1, <1>2 DEF AInv

\* A step that leaves alone what was asked for, and what is expected
LEMMA KeptStays ==
  ASSUME TypeOK, Kept, UNCHANGED <<input, attr, asked>>,
         Orderly' => /\ Orderly
                     /\ \A r \in Requests : Pending(r)' <=> Pending(r)
  PROVE  Kept'
<1> SUFFICES ASSUME Orderly', NEW k \in Keys, asked[k] # NoValue
             PROVE  AskedFor(k)'
  BY DEF Kept
<1>1. AskedFor(k)
  BY DEF Kept
<1>2. \A r \in Requests : Pending(r)' <=> Pending(r)
  OBVIOUS
<1>3. ASSUME NEW i
      PROVE  Expects(i)' = Expects(i)
  BY DEF Expects, Sets
<1>4. \A r \in Requests : Expects(input[r])' = Expects(input[r])
  BY <1>3
<1> QED BY <1>1, <1>2, <1>4 DEF AskedFor

LEMMA StepKept == IInv /\ AInv /\ [Next]_vars => AInv'
<1> SUFFICES ASSUME IInv, AInv, [Next]_vars PROVE AInv'
  OBVIOUS
<1> USE DEF AInv
<1>0. TypeOK /\ Sent
  BY DEF IInv
<1>1. ASSUME NEW r \in Requests, Post(r)
      PROVE  AInv'
  <2>1. PICK i \in Inputs :
          /\ input' = [input EXCEPT ![r] = i]
          /\ asked' = IF Verdict(i) = "ok" THEN Override(asked, Expects(i))
                                           ELSE asked
    BY <1>1 DEF Post
  <2>2. /\ input'[r] = i /\ step'[r] = "received"
        /\ \A q \in Requests : q # r => /\ input'[q] = input[q]
                                        /\ step'[q] = step[q]
        /\ server[r] = "none" /\ step[r] = "idle"
        /\ overlapped' = (overlapped \/ \E q \in Requests : Waiting(q))
        /\ UNCHANGED <<server, attr>>
    BY <1>0, <1>1, <2>1 DEF Post, TypeOK, Sent
  <2>3. Alone'
    BY <2>2 DEF Alone, Waiting
  <2>4. Orderly' =>
          /\ Orderly
          /\ \A q \in Requests : ~Waiting(q)
          /\ \A q \in Requests :
               Pending(q)' => q = r /\ Verdict(i) = "ok"
    BY <2>2 DEF Orderly, Pending, Waiting
  <2>5. DOMAIN asked' = Keys
    BY <2>1 DEF Kept, Override
  <2>6. ASSUME Orderly', NEW k \in Keys, asked'[k] # NoValue
        PROVE  AskedFor(k)'
    <3>1. Expects(i)' = Expects(i)
      BY <2>2 DEF Expects, Sets
    <3>2. asked[k] # NoValue => asked[k] = Stored(k, attr[k])
      BY <2>4, <2>6 DEF Kept, AskedFor, Pending
    <3>3. CASE Verdict(i) = "ok" /\ k \in DOMAIN Expects(i)
      <4>1. asked'[k] = Expects(i)[k]
        BY <2>1, <3>3 DEF Override, Kept
      <4>2. Pending(r)'
        BY <2>2, <3>3 DEF Pending, Waiting
      <4> QED BY <2>2, <2>4, <2>6, <3>1, <3>3, <4>1, <4>2 DEF AskedFor
    <3>4. CASE ~(Verdict(i) = "ok" /\ k \in DOMAIN Expects(i))
      <4>1. asked'[k] = asked[k]
        BY <2>1, <3>4 DEF Override, Kept
      <4>2. \A q \in Requests : Pending(q)' => k \notin DOMAIN Expects(input[q])'
        BY <2>2, <2>4, <2>6, <3>1, <3>4
      <4> QED BY <2>2, <2>6, <3>2, <4>1, <4>2 DEF AskedFor
    <3> QED BY <3>3, <3>4
  <2> QED BY <2>3, <2>5, <2>6 DEF Kept
<1>2. ASSUME NEW r \in Requests, Reject(r) \/ Send(r)
      PROVE  AInv'
  <2>1. Alone'
    BY <1>0, <1>2 DEF Reject, Send, TypeOK, Alone, Waiting, history
  <2>2. /\ UNCHANGED <<input, attr, asked, overlapped>>
        /\ Orderly' => Orderly
    BY <1>0, <1>2 DEF Reject, Send, TypeOK, Orderly, history
  <2>3. \A q \in Requests : Pending(q)' <=> Pending(q)
    BY <1>0, <1>2 DEF Reject, Send, TypeOK, Sent, Pending, Waiting, history
  <2> QED BY <1>0, <2>1, <2>2, <2>3, KeptStays
<1>3. ASSUME NEW r \in Requests, Fail(r)
      PROVE  AInv'
  <2>1. Alone'
    BY <1>0, <1>3 DEF Fail, TypeOK, Alone, Waiting, history
  <2>2. /\ UNCHANGED <<input, attr, asked>>
        /\ ~Orderly'
    BY <1>0, <1>3 DEF Fail, TypeOK, Orderly, history
  <2> QED BY <1>0, <2>1, <2>2, KeptStays
<1>4. ASSUME NEW r \in Requests, Answer(r)
      PROVE  AInv'
  <2>1. Alone'
    BY <1>0, <1>4 DEF Answer, TypeOK, Alone, Waiting, history
  <2>2. UNCHANGED <<input, attr, asked, overlapped, server>>
    BY <1>4 DEF Answer, history
  <2>3. Orderly' => Orderly /\ server[r] = "done"
    BY <1>0, <1>4 DEF Answer, TypeOK, Orderly, history
  <2>4. server[r] = "done" =>
          \A q \in Requests : Pending(q)' <=> Pending(q)
    BY <1>0, <1>4 DEF Answer, TypeOK, Pending, Waiting, history
  <2> QED BY <1>0, <2>1, <2>2, <2>3, <2>4, KeptStays
<1>5. ASSUME NEW r \in Requests, Refuse(r)
      PROVE  AInv'
  <2>1. Alone'
    BY <1>0, <1>5 DEF Refuse, TypeOK, Alone, Waiting, history
  <2>2. /\ UNCHANGED <<input, attr, asked, step, overlapped>>
        /\ Orderly' => Orderly
    BY <1>5 DEF Refuse, Orderly, history
  <2>3. \A q \in Requests : Pending(q)' <=> Pending(q)
    BY <1>0, <1>5 DEF Refuse, TypeOK, Pending, Waiting, history
  <2> QED BY <1>0, <2>1, <2>2, <2>3, KeptStays
<1>6. CASE Apply \/ UNCHANGED vars
  <2>1. UNCHANGED <<step, input, server, attr, asked, overlapped>>
    BY <1>6 DEF Apply, history, vars
  <2>2. Alone'
    BY <2>1 DEF Alone, Waiting
  <2>3. /\ Orderly' => Orderly
        /\ \A q \in Requests : Pending(q)' <=> Pending(q)
    BY <2>1 DEF Orderly, Pending, Waiting
  <2> QED BY <1>0, <2>1, <2>2, <2>3, KeptStays
<1>7. ASSUME NEW t \in Keys, Touch(t)
      PROVE  AInv'
  <2>1. /\ UNCHANGED <<step, input, server, overlapped>>
        /\ DOMAIN asked' = Keys
        /\ asked'[t] = NoValue
        /\ \A k \in Keys : k # t => /\ asked'[k] = asked[k]
                                     /\ attr'[k] = attr[k]
    BY <1>0, <1>7 DEF Touch, Kept, TypeOK
  <2>2. Alone'
    BY <2>1 DEF Alone, Waiting
  <2>3. /\ Orderly' => Orderly
        /\ \A q \in Requests : Pending(q)' <=> Pending(q)
    BY <2>1 DEF Orderly, Pending, Waiting
  <2>4. ASSUME Orderly', NEW k \in Keys, asked'[k] # NoValue
        PROVE  AskedFor(k)'
    <3>1. k # t /\ asked'[k] = asked[k] /\ attr'[k] = attr[k]
      BY <2>1, <2>4
    <3>2. AskedFor(k)
      BY <2>3, <2>4, <3>1 DEF Kept
    <3>3. ASSUME NEW q \in Requests, Pending(q)
          PROVE  /\ DOMAIN Expects(input[q])' = DOMAIN Expects(input[q])
                 /\ k \in DOMAIN Expects(input[q]) =>
                      Expects(input[q])'[k] = Expects(input[q])[k]
      <4>1. PICK i \in Inputs : i = input[q] /\ i = input'[q] /\ Verdict(i) = "ok"
        BY <1>0, <2>1, <3>3 DEF Pending, Waiting, TypeOK
      <4>2. Expects(input[q])' = Expects(i)'
        BY <4>1
      <4>3. k \in DOMAIN Expects(i) => Expects(i)[k] # NoValue
        BY <2>4, <3>1, <3>2, <3>3, <4>1 DEF AskedFor
      <4> QED BY <4>1, <4>2, <4>3, ExpectsStay
    <3> QED BY <2>3, <3>1, <3>2, <3>3 DEF AskedFor
  <2> QED BY <2>1, <2>2, <2>4 DEF Kept
<1>8. ASSUME NEW r \in Requests, Execute(r)
      PROVE  AInv'
  <2> DEFINE i == input[r]
  <2>1. i \in Inputs /\ Verdict(i) = "ok"
    BY <1>0, <1>8 DEF Execute, Sent, TypeOK
  <2>2. /\ UNCHANGED <<step, input, asked, overlapped>>
        /\ server[r] = "queued" /\ server'[r] = "done"
        /\ \A q \in Requests : q # r => server'[q] = server[q]
        /\ \A k \in Keys : attr'[k] =
             IF k \in DOMAIN Sets(i) THEN Sets(i)[k] ELSE attr[k]
    BY <1>0, <1>8 DEF Execute, Override, TypeOK
  <2>3. Alone'
    BY <2>2 DEF Alone, Waiting
  <2>4. ASSUME Orderly', NEW k \in Keys, asked[k] # NoValue
        PROVE  AskedFor(k)'
    <3>1. Orderly
      BY <2>2, <2>4 DEF Orderly
    <3>2. Pending(r)
      BY <1>0, <2>1, <2>2, <3>1 DEF Orderly, Sent, Alone, Pending, Waiting
    <3>3. \A q \in Requests : Pending(q) => q = r
      BY <3>1, <3>2 DEF Orderly, Alone, Pending
    <3>4. \A q \in Requests : ~Pending(q)'
      BY <2>2, <3>3 DEF Pending, Waiting
    <3>5. AskedFor(k)
      BY <2>4, <3>1 DEF Kept
    <3>6. asked[k] = Stored(k, attr'[k])
      <4> HIDE DEF i
      <4>1. DOMAIN Expects(i) = DOMAIN Sets(i)
        BY <2>1, ExpectsMet
      <4>2. CASE k \in DOMAIN Sets(i)
        <5>1. asked[k] = Expects(i)[k]
          BY <3>2, <3>5, <4>1, <4>2 DEF AskedFor, i
        <5>2. attr'[k] = Sets(i)[k]
          BY <2>2, <4>2
        <5> QED BY <2>1, <2>4, <4>2, <5>1, <5>2, ExpectsMet
      <4>3. CASE k \notin DOMAIN Sets(i)
        <5>1. asked[k] = Stored(k, attr[k])
          BY <3>3, <3>5, <4>1, <4>3 DEF AskedFor, i
        <5>2. attr'[k] = attr[k]
          BY <2>2, <4>3
        <5> QED BY <5>1, <5>2
      <4> QED BY <4>2, <4>3
    <3> QED BY <2>2, <3>4, <3>6 DEF AskedFor
  <2> QED BY <2>2, <2>3, <2>4 DEF Kept
<1> QED BY <1>1, <1>2, <1>3, <1>4, <1>5, <1>6, <1>7, <1>8
        DEF Next, Request

\* A client that waits for each answer, and has all it asked for accepted, sees
\* in the end what it asked for last: no event that is still to come, and no
\* rounding of the level, makes it something else.
THEOREM AwaitedWinsHolds == Spec => []AwaitedWins
<1>1. ASSUME IInv, AInv
      PROVE  AwaitedWins
  <2> SUFFICES ASSUME AllAccepted, ~overlapped, reports = <<>>,
                      NEW k \in Keys, asked[k] # NoValue
               PROVE  states[k] = asked[k]
    BY DEF AwaitedWins
  <2>1. Orderly /\ \A r \in Requests : ~Pending(r)
    BY DEF AllAccepted, Orderly, Pending, Waiting
  <2>2. asked[k] = Stored(k, attr[k])
    BY <1>1, <2>1 DEF AInv, Kept, AskedFor
  <2>3. states[k] = Stored(k, attr[k])
    BY <1>1 DEF IInv, Mirrored, Mirrors
  <2> QED BY <2>2, <2>3
<1> QED BY <1>1, InitInv, StepInv, InitKept, StepKept, PTL DEF Spec
=============================================================================
