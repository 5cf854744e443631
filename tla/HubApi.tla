------------------------------- MODULE HubApi -------------------------------
(***************************************************************************)
(* The life of the hub's process and of the REST requests in it: main, the *)
(* connection pool that sqlite.Open leaves behind, requireLocalAuth, and   *)
(* the handlers that pair a client and create and list homes, rooms and    *)
(* devices.  Each request is a goroutine that makes one statement after    *)
(* another, each on a connection of the pool.                              *)
(*                                                                         *)
(* A row is known by the request that inserts it, its columns are in the   *)
(* body of that request, and nothing deletes a row.  Commissioning has the *)
(* devices that come with a node.                                          *)
(***************************************************************************)
EXTENDS Naturals

CONSTANTS
  Requests,  \* the requests there may ever be
  Kinds,     \* what they ask for
  None       \* an id, or a token, that is not in the tables

AllKinds == {"ready", "list", "invalid", "pair", "home", "room", "device"}

ASSUME ApiAssumption == None \notin Requests /\ Kinds \subseteq AllKinds

VARIABLES
  phase,       \* of the process: what main is doing
  deadline,    \* has the time of Shutdown run out?
  free,        \* the free connections of the pool: how many have foreign_keys
               \* "on", how many have it "off"
  stored,      \* the rows, by the requests that inserted them
  body,        \* what each request asks
  step,        \* the statement a request has come to, or its answer
  conn,        \* the connection its statement runs on: "none", "on" or "off"
  left,        \* the requests whose client has gone away
  faulted,     \* history: the requests whose token could not be looked up
  disturbed    \* history: have two statements ever run at the same time, or
               \* has a client left during one?

mainVars == <<phase, deadline>>
poolVars == <<free, conn, disturbed>>
vars == <<mainVars, poolVars, stored, body, step, left, faulted>>

Body == [kind : AllKinds, token : Requests \cup {None},
         home : Requests \cup {None}, room : Requests \cup {None}]

\* The request has nothing to say.
Blank == [kind |-> "ready", token |-> None, home |-> None, room |-> None]

Creates(r) == body[r].kind \in {"pair", "home", "room", "device"}
Active(r) == step[r] \in {"lookup", "touch", "handle"}
Rows(kind) == {r \in stored : body[r].kind = kind}

NoConns == [on |-> 0, off |-> 0]

Init ==
  /\ phase = "down"
  /\ deadline = FALSE
  /\ free = NoConns
  /\ stored = {}
  /\ body = [r \in Requests |-> Blank]
  /\ step = [r \in Requests |-> "none"]
  /\ conn = [r \in Requests |-> "none"]
  /\ left = {}
  /\ faulted = {}
  /\ disturbed = FALSE

-----------------------------------------------------------------------------
(* main *)

\* The tables are created if they do not exist.
Migrate_Drops(rows) == {}
Migrate(rows) == rows

\* Open sets the pragmas on the first connection of the pool, the only one.
Open ==
  /\ phase = "down"
  /\ phase' = "serving"
  /\ deadline' = FALSE
  /\ free' = [on |-> 1, off |-> 0]
  /\ stored' = Migrate(stored)
  /\ UNCHANGED <<body, step, conn, left, faulted, disturbed>>

\* A signal: Shutdown accepts no more requests and waits for those there are.
Signal ==
  /\ phase = "serving"
  /\ phase' = "stopping"
  /\ UNCHANGED <<deadline, poolVars, stored, body, step, left, faulted>>

DeadlinePasses ==
  /\ phase = "stopping"
  /\ ~deadline
  /\ deadline' = TRUE
  /\ UNCHANGED <<phase, poolVars, stored, body, step, left, faulted>>

MayReturn_AtOnce == TRUE
MayReturn_WhenDrained == \A r \in Requests : ~Active(r)
MayReturn == deadline \/ \A r \in Requests : ~Active(r)

\* Shutdown returns, and the deferred Close closes the free connections.
Close ==
  /\ phase = "stopping"
  /\ MayReturn
  /\ phase' = "closed"
  /\ free' = NoConns
  /\ UNCHANGED <<deadline, conn, disturbed, stored, body, step, left, faulted>>

-----------------------------------------------------------------------------
(* database/sql *)

MaxIdle == 2

\* A statement takes a free connection, or opens one if none is free: that
\* one has the default of SQLite, which does not look at foreign keys.
Begin(r) ==
  /\ Active(r)
  /\ conn[r] = "none"
  /\ phase # "closed"
  /\ r \notin left
  /\ step[r] = "handle" => body[r].kind # "invalid"
  /\ \/ \E k \in {"on", "off"} :
          /\ free[k] > 0
          /\ conn' = [conn EXCEPT ![r] = k]
          /\ free' = [free EXCEPT ![k] = @ - 1]
     \/ /\ free = NoConns
        /\ conn' = [conn EXCEPT ![r] = "off"]
        /\ free' = free
  /\ disturbed' = (disturbed \/ \E q \in Requests : conn[q] # "none")
  /\ UNCHANGED <<mainVars, stored, body, step, left, faulted>>

\* A statement ends.  Its connection, if it has one, goes back to the pool, or is
\* closed: when there are enough, and when the statement was interrupted, which
\* a client that leaves does, and the driver says the connection is not valid.
\* The interrupt may come too late to be seen.
Enough_Always == TRUE
Enough_Never == FALSE
Enough == free["on"] + free["off"] >= MaxIdle
Release(r) ==
  /\ \/ free' = IF conn[r] = "none" \/ phase = "closed" \/ Enough THEN free
                ELSE [free EXCEPT ![conn[r]] = @ + 1]
     \/ r \in left /\ free' = free
  /\ conn' = [conn EXCEPT ![r] = "none"]

\* The row that r inserts refers to rows that are there.
RefersToRows(r) ==
  /\ body[r].kind \in {"room", "device"} => body[r].home \in Rows("home")
  /\ body[r].kind = "device" => body[r].room \in Rows("room") \cup {None}

\* Does the connection let the insert of r through?
Passes(r) == conn[r] = "on" => RefersToRows(r)

-----------------------------------------------------------------------------
(* Requests *)

\* A client knows the ids and the token that it was answered, if it was still
\* there.
Answered(kind) ==
  {r \in Requests \ left : step[r] = "ok" /\ body[r].kind = kind}
Known(kind) == Answered(kind) \cup {None}

\* Where a request begins: /health/ready and pairing need no token, but
\* pairing needs the right code.
First(kind, token) ==
  IF kind = "ready" THEN {"handle"}
  ELSE IF kind = "pair" THEN {"handle", "unauthorized"}
  ELSE IF token = None THEN {"unauthorized"} ELSE {"lookup"}

Accept(r) ==
  /\ phase = "serving"
  /\ step[r] = "none"
  /\ \E kind \in Kinds, token \in Known("pair"), home \in Known("home"),
        room \in Known("room") :
       /\ kind \in {"ready", "pair"} => token = None
       /\ kind \notin {"room", "device"} => home = None
       /\ kind # "device" => room = None
       /\ body' = [body EXCEPT ![r] = [kind |-> kind, token |-> token,
                                       home |-> home, room |-> room]]
       /\ \E first \in First(kind, token) : step' = [step EXCEPT ![r] = first]
  /\ UNCHANGED <<mainVars, poolVars, stored, left, faulted>>

\* Authenticate looks the token up ...
Lookup(r) ==
  /\ step[r] = "lookup"
  /\ conn[r] # "none"
  /\ step' = [step EXCEPT ![r] =
       IF body[r].token \in Rows("pair") THEN "touch" ELSE "unauthorized"]
  /\ Release(r)
  /\ UNCHANGED <<mainVars, disturbed, stored, body, left, faulted>>

\* ... and updates last_used.
Touch(r) ==
  /\ step[r] = "touch"
  /\ conn[r] # "none"
  /\ step' = [step EXCEPT ![r] = "handle"]
  /\ Release(r)
  /\ UNCHANGED <<mainVars, disturbed, stored, body, left, faulted>>

\* An input that the service turns away.
Refuse(r) ==
  /\ step[r] = "handle"
  /\ conn[r] = "none"
  /\ body[r].kind = "invalid"
  /\ step' = [step EXCEPT ![r] = "failed"]
  /\ UNCHANGED <<mainVars, poolVars, stored, body, left, faulted>>

\* The handler's own statement.
Handle(r) ==
  /\ step[r] = "handle"
  /\ conn[r] # "none"
  /\ IF Creates(r) /\ ~Passes(r)
     THEN step' = [step EXCEPT ![r] = "failed"] /\ stored' = stored
     ELSE /\ step' = [step EXCEPT ![r] = "ok"]
          /\ stored' = IF Creates(r) THEN stored \cup {r} ELSE stored
  /\ Release(r)
  /\ UNCHANGED <<mainVars, disturbed, body, left, faulted>>

\* What becomes of a request whose statement returns an error.
AfterError_Ignored(r) == IF step[r] = "touch" THEN "handle" ELSE "ok"
AfterError(r) ==
  IF step[r] = "touch" THEN "handle"
  ELSE IF step[r] = "lookup" \/ body[r].kind = "pair" THEN "unauthorized"
  ELSE "failed"

\* An insert that may have taken effect when it reports a cancelled context
\* or when the process ends.
Uncertain(r) == step[r] = "handle" /\ conn[r] # "none" /\ Creates(r) /\ Passes(r)

\* The statement fails, or cannot begin: its client has gone, or the
\* database is closed.
Fail(r) ==
  /\ Active(r)
  /\ conn[r] # "none" \/ r \in left \/ phase = "closed"
  /\ step' = [step EXCEPT ![r] = AfterError(r)]
  /\ \/ stored' = stored
     \/ r \in left /\ Uncertain(r) /\ stored' = stored \cup {r}
  /\ faulted' = IF step[r] = "lookup" THEN faulted \cup {r} ELSE faulted
  /\ Release(r)
  /\ UNCHANGED <<mainVars, disturbed, body, left>>

\* The client goes away, which cancels the context of its request.
Leave(r) ==
  /\ Active(r)
  /\ left' = left \cup {r}
  /\ disturbed' = (disturbed \/ conn[r] # "none")
  /\ UNCHANGED <<mainVars, free, conn, stored, body, step, faulted>>

\* The process ends, and with it every request: main has returned, or a crash.
Die ==
  /\ phase # "down"
  /\ phase' = "down"
  /\ free' = NoConns
  /\ conn' = [r \in Requests |-> "none"]
  /\ step' = [r \in Requests |-> IF Active(r) THEN "gone" ELSE step[r]]
  /\ \E written \in SUBSET {r \in Requests : Uncertain(r)} :
       stored' = stored \cup written
  /\ UNCHANGED <<deadline, disturbed, body, left, faulted>>
Exit == phase = "closed" /\ Die

-----------------------------------------------------------------------------
Statement(r) == Begin(r) \/ Lookup(r) \/ Touch(r) \/ Handle(r) \/ Fail(r)

Next ==
  \/ Open \/ Signal \/ DeadlinePasses \/ Close \/ Die
  \/ \E r \in Requests : Accept(r) \/ Statement(r) \/ Refuse(r) \/ Leave(r)

Spec == Init /\ [][Next]_vars

\* main's goroutine and its timer run; no request need ever come to an end,
\* since no client is obliged to send what it has announced.
FairSpec == Spec /\ WF_vars(DeadlinePasses) /\ WF_vars(Close) /\ WF_vars(Exit)

-----------------------------------------------------------------------------
(* Properties *)

\* Type invariant: only a statement holds a connection, the pool keeps no
\* more free ones than it may.
TypeOK ==
  /\ phase \in {"down", "serving", "stopping", "closed"}
  /\ deadline \in BOOLEAN
  /\ free \in [on : Nat, off : Nat]
  /\ free["on"] + free["off"] <= MaxIdle
  /\ stored \subseteq Requests
  /\ body \in [Requests -> Body]
  /\ step \in [Requests -> {"none", "lookup", "touch", "handle", "ok",
                            "unauthorized", "failed", "gone"}]
  /\ conn \in [Requests -> {"none", "on", "off"}]
  /\ \A r \in Requests : conn[r] # "none" => Active(r)
  /\ left \subseteq Requests
  /\ faulted \subseteq Requests
  /\ disturbed \in BOOLEAN

\* Rooms and devices belong to homes and rooms that exist ("SQLite with WAL
\* and foreign keys").
ReferencesHold == \A r \in stored : RefersToRows(r)

\* They do as long as statements come one at a time and no client leaves during
\* one, over any number of restarts: the pool then never has another connection
\* than Open's.
ReferencesHoldUndisturbed == disturbed \/ ReferencesHold

\* A client that was told "created" finds its row, and one that was told of
\* an error does not, through concurrent requests, crashes and restarts.
AnswersTrue ==
  \A r \in Requests : Creates(r) =>
    /\ step[r] = "ok" => r \in stored
    /\ step[r] \in {"failed", "unauthorized"} /\ r \notin left => r \notin stored

\* A client that was given a token is let in from then on, whatever happens
\* to the process, unless the database fails during its request.
PairingLasts ==
  \A r \in Requests \ faulted :
    ~(step[r] = "unauthorized" /\ body[r].token # None /\ body[r].kind # "pair")

\* The database is not closed under a request before Shutdown's time is up.
GracefulStop == phase = "closed" /\ ~deadline => \A r \in Requests : ~Active(r)

\* The process ends after a signal, although no request need end.
Stops == (phase = "stopping") ~> (phase = "down")
=============================================================================
