------------------------ MODULE CommissioningProofs -------------------------
(***************************************************************************)
(* Theorems of Commissioning for any requests and any node ids.            *)
(*                                                                         *)
(* What a finished request leaves behind is known only from what its steps *)
(* and the server's have established on the way: Path relates the step of  *)
(* a request to the server's side of it, Fabric the server's side to the   *)
(* nodes, and Distinct keeps one request's rollback off another's node.    *)
(* Own says whose credentials the server has from a request's own to its   *)
(* commissioning.                                                          *)
(***************************************************************************)
EXTENDS Commissioning, TLAPS

Path(r) ==
  /\ step[r] \in {"new", "connecting", "setting", "rejected"} => job[r] = "none"
  /\ step[r] \in {"new", "connecting", "rejected"} => setup[r] = "none"
  /\ setup[r] = "running" => job[r] = "none"
  /\ job[r] # "none" /\ Network[r] # NoNetwork => setup[r] = "done"
  /\ step[r] = "refused" => job[r] \in {"none", "refused"}
  /\ removal[r] # "none" => step[r] \in {"unwinding", "undone", "stuck", "cut"}
  /\ step[r] = "undone" => removal[r] = "done"
  /\ step[r] = "created" => r \in rows
  /\ r \in rows => step[r] \in {"created", "removing", "unwinding", "undone",
                                "stuck", "cut"}
  /\ r \in rows \ gone =>
       step[r] \in {"created", "cut"} /\ job[r] = "done" /\ removal[r] = "none"

Fabric(r) ==
  node[r] \in fabric <=> job[r] = "done" /\ removal[r] # "done"

Distinct == \A q, r \in Requests : node[q] = node[r] => q = r \/ node[r] = NoNode

Core == TypeOK /\ Distinct /\ \A r \in Requests : Path(r) /\ Fabric(r)

\* From its credentials to its node the server has those of r, unless others
\* came between.
Own(r) ==
  r \notin mixed /\ setup[r] = "done" /\ job[r] # "done" => credentials = Network[r]

IInv == Core /\ JoinsItsNetwork /\ \A r \in Requests : Own(r)

\* The initial state satisfies the inductive invariant.
LEMMA InitIInv == Init => IInv
<1> SUFFICES ASSUME Init PROVE IInv
  OBVIOUS
<1> USE CommissioningAssumption DEF Init
<1>1. TypeOK
  BY DEF TypeOK, Ended, Networks
<1> QED
  BY <1>1 DEF IInv, Core, Ended, Path, Fabric, Distinct, Own, JoinsItsNetwork

\* Steps that leave the server's side alone preserve it when they preserve
\* the path of the request that takes them.
LEMMA HubStep ==
  ASSUME Core, NEW r \in Requests, Serve(r),
         ~SendCredentials(r), ~SendCommission(r), ~SendRemove(r)
  PROVE  Core'
<1> USE DEF Core, TypeOK, Ended, Goto, server, network
<1>1. UNCHANGED server
  BY DEF Serve, Validate, ConnectFails, TakeNode, TakeError, AnswerLost,
         Insert, InsertFails, InsertCancelled, Removed, RemoveFails
<1>2. /\ TypeOK'
      /\ Path(r)'
      /\ \A q \in Requests \ {r} : Path(q)'
  <2>1. CASE Validate(r)
    BY <2>1 DEF Validate, Path
  <2>2. CASE ConnectFails(r)
    BY <2>2 DEF ConnectFails, Path
  <2>3. CASE TakeNode(r) \/ TakeError(r)
    BY <2>3 DEF TakeNode, TakeError, Path
  <2>4. CASE AnswerLost(r)
    BY <2>4 DEF AnswerLost, Path
  <2>5. CASE Insert(r) \/ InsertFails(r) \/ InsertCancelled(r)
    BY <2>5 DEF Insert, InsertFails, InsertCancelled, Path
  <2>6. CASE Removed(r)
    BY <2>6 DEF Removed, Path
  <2>7. CASE RemoveFails(r)
    BY <2>7 DEF RemoveFails, Path
  <2> QED
    BY <2>1, <2>2, <2>3, <2>4, <2>5, <2>6, <2>7 DEF Serve
<1>3. Distinct' /\ \A q \in Requests : Fabric(q)'
  BY <1>1 DEF Distinct, Fabric
<1> QED
  BY <1>2, <1>3

\* Sending a command changes the server's side of one request only.
LEMMA SendStep ==
  ASSUME Core, NEW r \in Requests,
         SendCredentials(r) \/ SendCommission(r) \/ SendRemove(r)
  PROVE  Core'
<1> USE DEF Core, TypeOK, Ended, Goto, network
<1>0. CASE SendCredentials(r)
  BY <1>0 DEF SendCredentials, Path, Fabric, Distinct
<1>1. CASE SendCommission(r)
  BY <1>1 DEF SendCommission, Path, Fabric, Distinct
<1>2. CASE SendRemove(r)
  BY <1>2 DEF SendRemove, Path, Fabric, Distinct
<1> QED
  BY <1>0, <1>1, <1>2

\* So do the server's own steps; a node id is given once.
LEMMA ServerStep ==
  ASSUME Core, NEW r \in Requests, MatterServer(r)
  PROVE  Core'
<1> USE CommissioningAssumption DEF Core, TypeOK, Ended, network
<1>0. CASE ServerSets(r)
  BY <1>0 DEF ServerSets, Networks, Path, Fabric, Distinct
<1>1. CASE ServerCommissions(r)
  <2>1. PICK n \in Nodes \ {node[q] : q \in Requests} :
          /\ node' = [node EXCEPT ![r] = n]
          /\ fabric' = fabric \cup {n}
    BY <1>1 DEF ServerCommissions
  <2>2. \A q \in Requests : node[q] # n
    BY <2>1
  <2>3. TypeOK' /\ \A q \in Requests : Path(q)'
    BY <1>1, <2>1, <2>2 DEF ServerCommissions, Path
  <2>4. Distinct' /\ \A q \in Requests : Fabric(q)'
    BY <1>1, <2>1, <2>2 DEF ServerCommissions, Fabric, Distinct
  <2> QED
    BY <2>3, <2>4
<1>2. CASE ServerRefuses(r)
  BY <1>2 DEF ServerRefuses, Path, Fabric, Distinct
<1>3. CASE ServerRemoves(r)
  BY <1>3 DEF ServerRemoves, Path, Fabric, Distinct
<1>4. CASE ServerKeeps(r)
  BY <1>4 DEF ServerKeeps, Path, Fabric, Distinct
<1> QED
  BY <1>0, <1>1, <1>2, <1>3, <1>4 DEF MatterServer

\* Every step preserves the core.
LEMMA CoreStep == Core /\ [Next]_vars => Core'
<1> SUFFICES ASSUME Core, [Next]_vars PROVE Core'
  OBVIOUS
<1> USE DEF Core, TypeOK, Ended, server, network, Networks, Path, Fabric, Distinct
<1>1. ASSUME NEW r \in Requests, Serve(r) PROVE Core'
  BY <1>1, HubStep, SendStep
<1>2. ASSUME NEW r \in Requests, MatterServer(r) PROVE Core'
  BY <1>2, ServerStep
<1>3. ASSUME NEW r \in Requests, ClientLeaves(r) PROVE Core'
  BY <1>3 DEF ClientLeaves
<1>4. CASE HubStops
  BY <1>4 DEF HubStops
<1>5. CASE UNCHANGED vars
  BY <1>5 DEF vars
<1> QED
  BY <1>1, <1>2, <1>3, <1>4, <1>5 DEF Next

\* Only ServerSets changes the credentials, and marks the requests for which
\* that is too late.
LEMMA NetworkStep ==
  ASSUME IInv, [Next]_vars
  PROVE  JoinsItsNetwork' /\ \A r \in Requests : Own(r)'
<1> DEFINE Goal == JoinsItsNetwork' /\ \A r \in Requests : Own(r)'
<1> USE DEF IInv, Core, TypeOK, Goto, server, network, Path, Own, JoinsItsNetwork
<1>1. ASSUME NEW r \in Requests, SendCredentials(r) \/ SendCommission(r) PROVE Goal
  BY <1>1 DEF SendCredentials, SendCommission
<1>2. ASSUME NEW r \in Requests, ServerSets(r) PROVE Goal
  BY <1>2 DEF ServerSets
<1>3. ASSUME NEW r \in Requests, ServerCommissions(r) PROVE Goal
  BY <1>3 DEF ServerCommissions
<1>4. ASSUME NEW r \in Requests, ServerRefuses(r) PROVE Goal
  BY <1>4 DEF ServerRefuses
<1>5. ASSUME UNCHANGED <<network, job, mixed>> PROVE Goal
  BY <1>5
<1>6. ASSUME NEW r \in Requests,
             Validate(r) \/ ConnectFails(r) \/ TakeNode(r) \/ TakeError(r)
               \/ AnswerLost(r) \/ Insert(r) \/ InsertFails(r) \/ InsertCancelled(r)
      PROVE Goal
  BY <1>5, <1>6 DEF Validate, ConnectFails, TakeNode, TakeError, AnswerLost,
       Insert, InsertFails, InsertCancelled
<1>7. ASSUME NEW r \in Requests,
             SendRemove(r) \/ Removed(r) \/ RemoveFails(r) \/ ServerRemoves(r)
               \/ ServerKeeps(r) \/ ClientLeaves(r)
      PROVE Goal
  BY <1>5, <1>7 DEF SendRemove, Removed, RemoveFails, ServerRemoves, ServerKeeps,
       ClientLeaves
<1>8. CASE HubStops \/ UNCHANGED vars
  BY <1>5, <1>8 DEF HubStops, vars
<1> QED
  BY <1>1, <1>2, <1>3, <1>4, <1>6, <1>7, <1>8 DEF Next, Serve, MatterServer

LEMMA IInvInvariant == Spec => []IInv
<1>1. IInv /\ [Next]_vars => IInv'
  BY CoreStep, NetworkStep DEF IInv
<1> QED
  BY <1>1, InitIInv, PTL DEF Spec

-----------------------------------------------------------------------------
\* The variables keep their types.
THEOREM TypeCorrect == Spec => []TypeOK
<1>1. IInv => TypeOK
  BY DEF IInv, Core
<1> QED
  BY <1>1, IInvInvariant, PTL

\* A client that gets its 201 has a row and a node on the fabric.
THEOREM CreatedIsRealHolds == Spec => []CreatedIsReal
<1>1. IInv => CreatedIsReal
  BY DEF IInv, Core, TypeOK, CreatedIsReal, Path, Fabric
<1> QED
  BY <1>1, IInvInvariant, PTL

\* A request that fails leaves a node only when the answer to its command was
\* lost, its removal failed or the process ended, and a row only when its client
\* left or the process ended.
THEOREM FailureLeavesNothingHolds == Spec => []FailureLeavesNothing
<1>1. IInv => FailureLeavesNothing
  BY DEF IInv, Core, TypeOK, FailureLeavesNothing, Ended, Path, Fabric
<1> QED
  BY <1>1, IInvInvariant, PTL

\* Only a client that leaves in time can leave a device without a node.
THEOREM NoDeadDeviceHolds == Spec => []NoDeadDevice
<1>1. IInv => NoDeadDevice
  BY DEF IInv, Core, TypeOK, NoDeadDevice, Path, Fabric
<1> QED
  BY <1>1, IInvInvariant, PTL

\* A node joins the network its request named, unless another network's
\* credentials were set between the request's own and its commissioning.
THEOREM JoinsItsNetworkHolds == Spec => []JoinsItsNetwork
<1>1. IInv => JoinsItsNetwork
  BY DEF IInv
<1> QED
  BY <1>1, IInvInvariant, PTL
=============================================================================
