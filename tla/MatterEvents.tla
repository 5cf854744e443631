---------------------------- MODULE MatterEvents ----------------------------
(***************************************************************************)
(* The path of a device state into the hub: runMatterEvents in             *)
(* cmd/manisa-core/main.go keeps one listener (adapters/matterjs/          *)
(* listener.go) connected to the Matter server; the listener hands every   *)
(* attribute it is told of to ApplyMatterAttribute (application/           *)
(* service.go), which stores it in SQLite and publishes it on the bus.     *)
(*                                                                         *)
(* The values an attribute takes are numbered in the order the device      *)
(* takes them; 0 stands for no value.  The Matter server is not in the     *)
(* repository: its actions say what the listener's code expects of it.     *)
(***************************************************************************)
EXTENDS Integers, Sequences

CONSTANTS
  Nodes,       \* the Matter nodes that are or may come to be on the fabric
  Attrs,       \* the attribute paths of a node
  Ignored,     \* the <<attribute, value>> that map to no capability state
  Imported,    \* the nodes registered as devices from the start
  MaxVersion,  \* bound on the values an attribute takes
  MaxStream,   \* a node is re-interviewed only when fewer messages wait
  MaxFaults    \* bound on failures and restarts

Keys == Nodes \X Attrs
NoKey == <<>>
Versions == 0 .. MaxVersion

ASSUME EventsAssumption ==
  /\ Imported \subseteq Nodes
  /\ Ignored \subseteq Attrs \X Nat
  /\ MaxVersion \in Nat \ {0}
  /\ MaxStream \in Nat
  /\ MaxFaults \in Nat

VARIABLES
  actual,     \* the value each attribute has on its node
  devices,    \* nodes with a row in the devices table
  stored,     \* the device_states table
  announced,  \* the value last published on the bus, by this process
  pc,         \* where the listener is
  server,     \* what the server knows of the listener's connection
  stream,     \* the messages on the connection the listener has not read
  batch,      \* the attributes of the message being dispatched
  todo,       \* those not dispatched yet: a Go map is ranged in any order
  key,        \* the one in ApplyMatterAttribute
  faults      \* failures so far

table == <<devices, stored, announced>>
local == <<batch, todo, key>>
vars == <<actual, devices, stored, announced, pc, server, stream,
          batch, todo, key, faults>>

Nothing == [k \in {} |-> 0]

\* FromMatterAttribute finds a capability of the device and a usable value.
Reportable(k, v) == <<k[2], v>> \notin Ignored

KeysOf(n) == {n} \X Attrs
Joined(n) == \A k \in KeysOf(n) : actual[k] # 0
Current(K) == [k \in K |-> actual[k]]

Init ==
  /\ actual = [k \in Keys |-> IF k[1] \in Imported THEN 1 ELSE 0]
  /\ devices = Imported
  /\ stored = [k \in Keys |-> 0]
  /\ announced = [k \in Keys |-> 0]
  /\ pc = "dialing"
  /\ server = "off"
  /\ stream = <<>>
  /\ batch = Nothing
  /\ todo = {}
  /\ key = NoKey
  /\ faults = 0

-----------------------------------------------------------------------------
(* The Matter server.  It answers start_listening with all its nodes, and  *)
(* tells the connections that listen of every change from then on; changes *)
(* between the two are sent ahead of the answer.                           *)

Message(type, items) == [type |-> type, items |-> items]
Listening == server \in {"subscribed", "answered"}
Emit(m) == stream' = IF Listening THEN Append(stream, m) ELSE stream

\* attribute_updated
ValueChanges(k) ==
  /\ actual[k] \in 1 .. MaxVersion - 1
  /\ actual' = [actual EXCEPT ![k] = @ + 1]
  /\ Emit(Message("event", [x \in {k} |-> actual[k] + 1]))
  /\ UNCHANGED <<table, local, pc, server, faults>>

\* node_added, when the commissioning of the node ends
NodeJoins(n) ==
  /\ \A k \in KeysOf(n) : actual[k] = 0
  /\ actual' = [k \in Keys |-> IF k \in KeysOf(n) THEN 1 ELSE actual[k]]
  /\ Emit(Message("event", [k \in KeysOf(n) |-> 1]))
  /\ UNCHANGED <<table, local, pc, server, faults>>

\* node_updated, when the server has interviewed the node again
NodeUpdated(n) ==
  /\ Joined(n)
  /\ Listening
  /\ Len(stream) < MaxStream
  /\ Emit(Message("event", Current(KeysOf(n))))
  /\ UNCHANGED <<actual, table, local, pc, server, faults>>

ServerSubscribes ==
  /\ pc = "calling"
  /\ server = "off"
  /\ server' = "subscribed"
  /\ UNCHANGED <<actual, table, local, pc, stream, faults>>

ServerAnswers ==
  /\ server = "subscribed"
  /\ server' = "answered"
  /\ Emit(Message("result", Current({k \in Keys : Joined(k[1])})))
  /\ UNCHANGED <<actual, table, local, pc, faults>>

Fault ==
  /\ faults < MaxFaults
  /\ faults' = faults + 1

\* server_shutdown: the last message of a server that goes down
ServerStops ==
  /\ Fault
  /\ Listening
  /\ server' = "gone"
  /\ Emit(Message("shutdown", Nothing))
  /\ UNCHANGED <<actual, table, local, pc>>

\* What was on its way may be lost with the connection.
ConnectionBreaks ==
  /\ Fault
  /\ pc \notin {"dialing", "backoff"}
  /\ server # "gone"
  /\ server' = "gone"
  /\ stream' \in {<<>>, stream}
  /\ UNCHANGED <<actual, table, local, pc>>

-----------------------------------------------------------------------------
(* Listen, called by runMatterEvents *)

\* Listen returns an error: its connection is closed, and the next one is
\* tried after the backoff.
Close_KeepsKey ==
  /\ pc' = "backoff"
  /\ server' = "off"
  /\ stream' = <<>>
  /\ UNCHANGED local
Close ==
  /\ pc' = "backoff"
  /\ server' = "off"
  /\ stream' = <<>>
  /\ batch' = Nothing
  /\ todo' = {}
  /\ key' = NoKey

\* Dial, the server's greeting and the start_listening request
Dial ==
  /\ pc = "dialing"
  /\ pc' = "calling"
  /\ UNCHANGED <<actual, table, local, server, stream, faults>>

DialFails ==
  /\ Fault
  /\ pc = "dialing"
  /\ Close
  /\ UNCHANGED <<actual, table>>

\* call passes over every message that is not the answer to its request.
SkipUnmatched_Defers ==
  /\ pc = "calling"
  /\ stream # <<>>
  /\ Head(stream).type # "result"
  /\ stream' = Append(Tail(stream), Head(stream))
  /\ UNCHANGED <<actual, table, local, pc, server, faults>>
SkipUnmatched ==
  /\ pc = "calling"
  /\ stream # <<>>
  /\ Head(stream).type # "result"
  /\ stream' = Tail(stream)
  /\ UNCHANGED <<actual, table, local, pc, server, faults>>

Dispatch(m) ==
  /\ batch' = m.items
  /\ todo' = DOMAIN m.items
  /\ pc' = "looking"
  /\ stream' = Tail(stream)

TakeResult ==
  /\ pc = "calling"
  /\ stream # <<>>
  /\ Head(stream).type = "result"
  /\ Dispatch(Head(stream))
  /\ UNCHANGED <<actual, table, key, server, faults>>

TakeEvent ==
  /\ pc = "reading"
  /\ stream # <<>>
  /\ Head(stream).type = "event"
  /\ Dispatch(Head(stream))
  /\ UNCHANGED <<actual, table, key, server, faults>>

TakeShutdown ==
  /\ pc = "reading"
  /\ stream # <<>>
  /\ Head(stream).type = "shutdown"
  /\ Close
  /\ UNCHANGED <<actual, table, faults>>

ReadFails ==
  /\ pc \in {"calling", "reading"}
  /\ stream = <<>>
  /\ server = "gone"
  /\ Close
  /\ UNCHANGED <<actual, table, faults>>

EndBatch ==
  /\ pc = "looking"
  /\ todo = {}
  /\ pc' = "reading"
  /\ batch' = Nothing
  /\ UNCHANGED <<actual, table, todo, key, server, stream, faults>>

Retry_Never == pc = "backoff" /\ UNCHANGED vars
Retry ==
  /\ pc = "backoff"
  /\ pc' = "dialing"
  /\ UNCHANGED <<actual, table, local, server, stream, faults>>

-----------------------------------------------------------------------------
(* ApplyMatterAttribute *)

\* The node is no device of Manisa, or the attribute is of no use.
Ignore(k) ==
  /\ pc = "looking"
  /\ k \in todo
  /\ k[1] \in devices => ~Reportable(k, batch[k])
  /\ todo' = todo \ {k}
  /\ UNCHANGED <<actual, table, pc, batch, key, server, stream, faults>>

Accept(k) ==
  /\ pc = "looking"
  /\ k \in todo
  /\ k[1] \in devices
  /\ Reportable(k, batch[k])
  /\ key' = k
  /\ pc' = "persisting"
  /\ UNCHANGED <<actual, table, batch, todo, server, stream, faults>>

LookupFails ==
  /\ Fault
  /\ pc = "looking"
  /\ todo # {}
  /\ Close
  /\ UNCHANGED <<actual, table>>

Persist ==
  /\ pc = "persisting"
  /\ stored' = [stored EXCEPT ![key] = batch[key]]
  /\ pc' = "announcing"
  /\ UNCHANGED <<actual, devices, announced, local, server, stream, faults>>

\* What the code does not do: log the error and go on; not look at it.
PersistFails_Logged ==
  /\ Fault
  /\ pc = "persisting"
  /\ todo' = todo \ {key}
  /\ key' = NoKey
  /\ pc' = "looking"
  /\ UNCHANGED <<actual, table, batch, server, stream>>
PersistFails_Announced ==
  /\ Fault
  /\ pc = "persisting"
  /\ pc' = "announcing"
  /\ UNCHANGED <<actual, table, local, server, stream>>
PersistFails ==
  /\ Fault
  /\ pc = "persisting"
  /\ Close
  /\ UNCHANGED <<actual, table>>

Announce ==
  /\ pc = "announcing"
  /\ announced' = [announced EXCEPT ![key] = batch[key]]
  /\ todo' = todo \ {key}
  /\ key' = NoKey
  /\ pc' = "looking"
  /\ UNCHANGED <<actual, devices, stored, batch, server, stream, faults>>

-----------------------------------------------------------------------------
(* The rest of the hub *)

\* CommissionDevice registers a node after the server has commissioned it.
Import(n) ==
  /\ n \notin devices
  /\ Joined(n)
  /\ devices' = devices \cup {n}
  /\ UNCHANGED <<actual, stored, announced, local, pc, server, stream, faults>>

\* The process stops, or is killed, and is started again: the tables stay.
Restart ==
  /\ Fault
  /\ pc' = "dialing"
  /\ server' = "off"
  /\ stream' = <<>>
  /\ batch' = Nothing
  /\ todo' = {}
  /\ key' = NoKey
  /\ announced' = [k \in Keys |-> 0]
  /\ UNCHANGED <<actual, devices, stored>>

-----------------------------------------------------------------------------
Listener ==
  \/ Dial \/ SkipUnmatched \/ TakeResult \/ TakeEvent \/ TakeShutdown
  \/ ReadFails \/ EndBatch \/ Retry
  \/ \E k \in Keys : Ignore(k) \/ Accept(k)
  \/ Persist \/ Announce

Failure ==
  \/ DialFails \/ LookupFails \/ PersistFails
  \/ ServerStops \/ ConnectionBreaks \/ Restart

Next ==
  \/ \E k \in Keys : ValueChanges(k)
  \/ \E n \in Nodes : NodeJoins(n) \/ NodeUpdated(n) \/ Import(n)
  \/ ServerSubscribes
  \/ ServerAnswers
  \/ Listener
  \/ Failure

Spec == Init /\ [][Next]_vars

\* The listener's goroutine and its timer run, and the server answers.
FairSpec ==
  /\ Spec
  /\ WF_vars(Listener)
  /\ WF_vars(ServerSubscribes)
  /\ WF_vars(ServerAnswers)

-----------------------------------------------------------------------------
(* Properties *)

Items == UNION {[K -> Versions] : K \in SUBSET Keys}
Messages == [type : {"event", "result", "shutdown"}, items : Items]

\* Type invariant; the attribute in ApplyMatterAttribute is one of the
\* message being dispatched that is not done with.
TypeOK ==
  /\ actual \in [Keys -> Versions]
  /\ devices \in SUBSET Nodes
  /\ stored \in [Keys -> Versions]
  /\ announced \in [Keys -> Versions]
  /\ pc \in {"dialing", "calling", "reading", "looking", "persisting",
             "announcing", "backoff"}
  /\ server \in {"off", "subscribed", "answered", "gone"}
  /\ stream \in Seq(Messages)
  /\ batch \in Items
  /\ todo \in SUBSET DOMAIN batch
  /\ IF pc \in {"persisting", "announcing"} THEN key \in todo ELSE key = NoKey
  /\ faults \in 0 .. MaxFaults

\* What the apps are told is in the database already: whoever re-reads the
\* state after an event finds that value or a newer one.
AnnouncedIsDurable == \A k \in Keys : announced[k] <= stored[k]

\* The listener waits for a message and none is under way.
Quiet == pc = "reading" /\ stream = <<>> /\ server = "answered"

\* Then every state is current, on disk and in what this process announced:
\* no failure on the way leaves a stale value behind.  Only a device
\* registered later may have no state at all yet.
Synced ==
  Quiet =>
    \A k \in Keys :
      k[1] \in devices /\ Reportable(k, actual[k]) =>
        \/ stored[k] = actual[k] /\ announced[k] = actual[k]
        \/ k[1] \notin Imported /\ announced[k] = 0 /\ stored[k] = 0

\* The hub is a mirror of the states of the devices registered from the
\* start: whatever is lost, repeated or retried, a stored state never goes
\* back, and once values stop changing it becomes the actual one.
Mirror == INSTANCE StateMirror WITH
  due <- {k \in Imported \X Attrs : Reportable(k, actual[k])}
ImplementsMirror == Mirror!MirrorSpec

\* The same of every device from its registration on: its node is ignored
\* only "until" it is imported (service.go).
RegisteredConverges ==
  \A k \in Keys :
    <>[](k[1] \in devices /\ Reportable(k, actual[k]) => stored[k] = actual[k])
=============================================================================
