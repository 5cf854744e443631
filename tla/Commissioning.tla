--------------------------- MODULE Commissioning ----------------------------
(***************************************************************************)
(* POST /api/v1/matter/commission: CommissionDevice (application/          *)
(* service.go) has the Matter server commission a node, inserts the        *)
(* device's row, and has the node removed again when the insert fails.     *)
(* Two stores change, on two sides of a connection that may be lost, while *)
(* the client that asked may go away: nothing makes the two one step.      *)
(***************************************************************************)
EXTENDS Naturals

CONSTANTS
  Requests,  \* the commissioning requests
  Invalid,   \* those the validation turns away
  BadHome,   \* those whose home or room the foreign keys turn away, where
             \* the connection the insert gets from the pool enforces them
  Network,   \* the network each names with its credentials, or none; all of one
             \* transport, since the server keeps Wi-Fi and Thread apart
  NoNetwork, \* "no network"
  Nodes,     \* the node ids the Matter server has to give
  NoNode     \* "no node"

ASSUME CommissioningAssumption ==
  /\ Invalid \subseteq Requests
  /\ BadHome \subseteq Requests
  /\ NoNode \notin Nodes

VARIABLES
  setup,       \* what the Matter server makes of a request's credentials
  credentials, \* the network whose credentials it has, for all connections
  joined,      \* the network that the node of a request has joined
  mixed,       \* history: the requests that had another network's credentials
               \* set between their own and their commissioning
  step,     \* where CommissionDevice is, and how it ended
  gone,     \* requests whose context is cancelled: the client went away
  job,      \* what the Matter server makes of a request's command
  removal,  \* ... and of its remove_node
  node,     \* the node the server commissioned for a request
  fabric,   \* the nodes of the Matter fabric
  rows      \* the requests whose device is in the devices table

network == <<setup, credentials, joined>>
server == <<job, removal, node, fabric, network>>
vars == <<step, gone, server, rows, mixed>>

\* How a request ends: "created" is 201 and "rejected" is 400.  The others
\* are answered alike, with an error, but differ in what is known: the server
\* refused; its answer was lost; the node was removed again; that failed too.
\* "cut" is the end of the process.
Ended == {"created", "rejected", "refused", "lost", "undone", "stuck", "cut"}

Init ==
  /\ setup = [r \in Requests |-> "none"]
  /\ credentials = NoNetwork
  /\ joined = [r \in Requests |-> NoNetwork]
  /\ mixed = {}
  /\ step = [r \in Requests |-> "new"]
  /\ gone = {}
  /\ job = [r \in Requests |-> "none"]
  /\ removal = [r \in Requests |-> "none"]
  /\ node = [r \in Requests |-> NoNode]
  /\ fabric = {}
  /\ rows = {}

Goto(r, s) == step' = [step EXCEPT ![r] = s]

-----------------------------------------------------------------------------
(* The Matter server.  It carries a command out although the connection it *)
(* came by is gone, and never gives the same node id twice.                *)

ServerSets(r) ==
  /\ setup[r] = "running"
  /\ credentials' = Network[r]
  /\ setup' = [setup EXCEPT ![r] = "done"]
  /\ mixed' = mixed \cup {q \in Requests :
       setup[q] = "done" /\ job[q] # "done" /\ Network[q] # Network[r]}
  /\ UNCHANGED <<joined, step, gone, job, removal, node, fabric, rows>>

ServerCommissions(r) ==
  /\ job[r] = "running"
  /\ \E n \in Nodes \ {node[q] : q \in Requests} :
       /\ node' = [node EXCEPT ![r] = n]
       /\ fabric' = fabric \cup {n}
  /\ joined' = [joined EXCEPT ![r] = credentials]
  /\ job' = [job EXCEPT ![r] = "done"]
  /\ UNCHANGED <<setup, credentials, step, gone, removal, rows, mixed>>

ServerRefuses(r) ==
  /\ job[r] = "running"
  /\ job' = [job EXCEPT ![r] = "refused"]
  /\ UNCHANGED <<step, gone, removal, node, fabric, network, rows, mixed>>

ServerRemoves(r) ==
  /\ removal[r] = "running"
  /\ fabric' = fabric \ {node[r]}
  /\ removal' = [removal EXCEPT ![r] = "done"]
  /\ UNCHANGED <<step, gone, job, node, network, rows, mixed>>

ServerKeeps(r) ==
  /\ removal[r] = "running"
  /\ removal' = [removal EXCEPT ![r] = "refused"]
  /\ UNCHANGED <<step, gone, job, node, fabric, network, rows, mixed>>

-----------------------------------------------------------------------------
(* Commission, called with the request's context *)

Validate(r) ==
  /\ step[r] = "new"
  /\ Goto(r, IF r \in Invalid THEN "rejected" ELSE "connecting")
  /\ UNCHANGED <<gone, server, rows, mixed>>

\* The connection is made, the credentials are sent if there are any ...
SendCredentials(r) ==
  /\ step[r] = "connecting"
  /\ Network[r] # NoNetwork
  /\ Goto(r, "setting")
  /\ setup' = [setup EXCEPT ![r] = "running"]
  /\ UNCHANGED <<credentials, joined, gone, job, removal, node, fabric, rows, mixed>>

\* ... and once they are set the command is sent ...
SendCommission_AtOnce(r) ==
  /\ step[r] \in {"connecting", "setting"}
  /\ Goto(r, "waiting")
  /\ job' = [job EXCEPT ![r] = "running"]
  /\ UNCHANGED <<network, gone, removal, node, fabric, rows, mixed>>
SendCommission(r) ==
  /\ \/ step[r] = "connecting" /\ Network[r] = NoNetwork
     \/ step[r] = "setting" /\ setup[r] = "done"
  /\ Goto(r, "waiting")
  /\ job' = [job EXCEPT ![r] = "running"]
  /\ UNCHANGED <<network, gone, removal, node, fabric, rows, mixed>>

\* ... or one of these fails, before the command is sent.
ConnectFails(r) ==
  /\ step[r] \in {"connecting", "setting"}
  /\ Goto(r, "refused")
  /\ UNCHANGED <<gone, server, rows, mixed>>

TakeNode_AnyAnswer(r) ==
  /\ step[r] = "waiting"
  /\ Goto(r, "inserting")
  /\ UNCHANGED <<gone, server, rows, mixed>>
TakeNode(r) ==
  /\ step[r] = "waiting"
  /\ job[r] = "done"
  /\ Goto(r, "inserting")
  /\ UNCHANGED <<gone, server, rows, mixed>>

TakeError(r) ==
  /\ step[r] = "waiting"
  /\ job[r] = "refused"
  /\ Goto(r, "refused")
  /\ UNCHANGED <<gone, server, rows, mixed>>

\* Sixty seconds pass, the connection breaks, the answer cannot be decoded,
\* or the client has gone.
AnswerLost_Waits(r) ==
  /\ step[r] = "waiting"
  /\ r \in gone
  /\ Goto(r, "lost")
  /\ UNCHANGED <<gone, server, rows, mixed>>
AnswerLost(r) ==
  /\ step[r] = "waiting"
  /\ Goto(r, "lost")
  /\ UNCHANGED <<gone, server, rows, mixed>>

-----------------------------------------------------------------------------
(* createDevice, and RemoveNode when it fails *)

Insert_Anyway(r) ==
  /\ step[r] = "inserting"
  /\ rows' = rows \cup {r}
  /\ Goto(r, IF r \in BadHome THEN "removing" ELSE "created")
  /\ UNCHANGED <<gone, server, mixed>>
Insert(r) ==
  /\ step[r] = "inserting"
  /\ r \notin gone \cup BadHome
  /\ rows' = rows \cup {r}
  /\ Goto(r, "created")
  /\ UNCHANGED <<gone, server, mixed>>

\* A constraint, the database, or the context.
InsertFails_NoRollback(r) ==
  /\ step[r] = "inserting"
  /\ Goto(r, "undone")
  /\ UNCHANGED <<gone, server, rows, mixed>>
InsertFails_Unnoticed(r) ==
  /\ step[r] = "inserting"
  /\ Goto(r, "created")
  /\ UNCHANGED <<gone, server, rows, mixed>>
InsertFails(r) ==
  /\ step[r] = "inserting"
  /\ Goto(r, "removing")
  /\ UNCHANGED <<gone, server, rows, mixed>>

\* The driver reports a cancelled context of a statement that took effect.
InsertCancelled(r) ==
  /\ step[r] = "inserting"
  /\ r \in gone \ BadHome
  /\ rows' = rows \cup {r}
  /\ Goto(r, "removing")
  /\ UNCHANGED <<gone, server, mixed>>

SendRemove(r) ==
  /\ step[r] = "removing"
  /\ Goto(r, "unwinding")
  /\ removal' = [removal EXCEPT ![r] = "running"]
  /\ UNCHANGED <<gone, job, node, fabric, network, rows, mixed>>

Removed(r) ==
  /\ step[r] = "unwinding"
  /\ removal[r] = "done"
  /\ Goto(r, "undone")
  /\ UNCHANGED <<gone, server, rows, mixed>>

\* Its own context of fifteen seconds ends, the connection is not made or
\* breaks, or the server answers with an error: the error is dropped.
RemoveFails(r) ==
  /\ step[r] \in {"removing", "unwinding"}
  /\ Goto(r, "stuck")
  /\ UNCHANGED <<gone, server, rows, mixed>>

-----------------------------------------------------------------------------
(* The world around *)

ClientLeaves(r) ==
  /\ step[r] \notin Ended \cup {"new"}
  /\ gone' = gone \cup {r}
  /\ UNCHANGED <<step, server, rows, mixed>>

\* An insert under way may still take effect.
HubStops ==
  /\ \E r \in Requests : step[r] \notin Ended \cup {"new"}
  /\ step' = [r \in Requests |->
                IF step[r] \in Ended \cup {"new"} THEN step[r] ELSE "cut"]
  /\ \E written \in SUBSET {r \in Requests \ BadHome : step[r] = "inserting"} :
       rows' = rows \cup written
  /\ UNCHANGED <<gone, server, mixed>>

-----------------------------------------------------------------------------
\* The goroutine that serves a request.
Serve(r) ==
  \/ Validate(r) \/ SendCredentials(r) \/ SendCommission(r) \/ ConnectFails(r)
  \/ TakeNode(r) \/ TakeError(r) \/ AnswerLost(r)
  \/ Insert(r) \/ InsertFails(r) \/ InsertCancelled(r)
  \/ SendRemove(r) \/ Removed(r) \/ RemoveFails(r)

MatterServer(r) ==
  \/ ServerSets(r) \/ ServerCommissions(r) \/ ServerRefuses(r)
  \/ ServerRemoves(r) \/ ServerKeeps(r)

Next ==
  \/ \E r \in Requests : Serve(r) \/ MatterServer(r) \/ ClientLeaves(r)
  \/ HubStops

Spec == Init /\ [][Next]_vars

\* Goroutines run and deadlines pass; the Matter server may do nothing.
FairSpec == Spec /\ \A r \in Requests : WF_vars(Serve(r))

-----------------------------------------------------------------------------
(* Properties *)

Networks == {Network[r] : r \in Requests} \cup {NoNetwork}

\* Type invariant; the insert and what follows it need the server's answer.
TypeOK ==
  /\ step \in [Requests -> Ended \cup {"new", "connecting", "setting",
                                       "waiting", "inserting", "removing", "unwinding"}]
  /\ setup \in [Requests -> {"none", "running", "done"}]
  /\ joined \in [Requests -> Networks] /\ credentials \in Networks
  /\ mixed \in SUBSET Requests
  /\ gone \in SUBSET Requests
  /\ job \in [Requests -> {"none", "running", "done", "refused"}]
  /\ removal \in [Requests -> {"none", "running", "done", "refused"}]
  /\ node \in [Requests -> Nodes \cup {NoNode}]
  /\ fabric \in SUBSET Nodes
  /\ rows \in SUBSET Requests
  /\ \A r \in Requests :
       /\ job[r] = "done" <=> node[r] # NoNode
       /\ step[r] \in {"inserting", "created", "removing", "unwinding",
                      "undone", "stuck"} => job[r] = "done"
       /\ removal[r] # "none" => job[r] = "done"

\* The client that gets its 201 has a device in the table and a node on the
\* fabric, and the rollback of another request never takes it away.
CreatedIsReal ==
  \A r \in Requests :
    step[r] = "created" => r \in rows /\ node[r] \in fabric

\* A request that ends any other way leaves no node on the fabric, unless the
\* answer to its command was lost ("lost"), the removal was refused, was not
\* answered or could not be sent ("stuck"), or the process ended ("cut").  It
\* leaves no row either, unless its client left or the process ended.
FailureLeavesNothing ==
  \A r \in Requests : step[r] \in Ended \ {"created"} =>
    /\ node[r] \in fabric => step[r] \in {"lost", "stuck", "cut"}
    /\ r \in rows => r \in gone \/ step[r] = "cut"

\* A row without a node, which shows as a device nobody can command, needs a
\* client that left while its row was being written.
NoDeadDevice ==
  \A r \in rows : node[r] \in fabric \/ r \in gone

\* A node joins the network that its request named, whatever other requests
\* do, failed ones and those of an earlier process included: only another
\* network's credentials that the server is given between a request's own and
\* its commissioning, of which it keeps one set for all, lead it astray.
JoinsItsNetwork ==
  \A r \in Requests \ mixed :
    job[r] = "done" /\ Network[r] # NoNetwork => joined[r] = Network[r]

\* Whatever the Matter server does, every request is answered.
Answered == \A r \in Requests : step[r] = "new" ~> step[r] \in Ended
=============================================================================
