---------------------------- MODULE HubApiProofs ----------------------------
(***************************************************************************)
(* Theorems of HubApi for every number of requests.                        *)
(*                                                                         *)
(* The inductive invariant adds what an answer says of a row (Progress),   *)
(* that a token in use is in the table (Tokens), and that the pool is one  *)
(* connection as long as no two statements overlap and no client leaves    *)
(* during one (Single).                                                    *)
(***************************************************************************)
EXTENDS HubApi, TLAPS

\* A row is there only when its request is over.
Progress ==
  \A r \in Requests :
    r \in stored => step[r] \in {"ok", "unauthorized", "failed", "gone"}

\* No request outlives its process.
Down == phase = "down" => \A r \in Requests : ~Active(r)

Tokens == \A r \in Requests : body[r].token \in Rows("pair") \cup {None}

\* The one connection of Open is free, or held, or the pool is not open.
Single ==
  ~disturbed =>
    /\ free["off"] = 0
    /\ free["on"] <= 1
    /\ \A r \in Requests : conn[r] # "off"
    /\ \A r \in Requests : conn[r] = "on" => free["on"] = 0
    /\ \A q, r \in Requests : conn[q] = "on" /\ conn[r] = "on" => q = r
    /\ free["on"] = 0 /\ phase \in {"serving", "stopping"} =>
         \E r \in Requests : conn[r] = "on"
    /\ \A r \in Requests : conn[r] = "on" => r \notin left

IInv ==
  /\ TypeOK /\ Progress /\ Down /\ Tokens /\ Single
  /\ AnswersTrue /\ PairingLasts /\ GracefulStop /\ ReferencesHoldUndisturbed

\* The initial state satisfies the inductive invariant.
LEMMA InitIInv == Init => IInv
<1> SUFFICES ASSUME Init PROVE IInv
  OBVIOUS
<1> USE DEF Init, Active
<1>1. deadline \in BOOLEAN /\ disturbed \in BOOLEAN
  BY Zenon
<1>2. body \in [Requests -> Body]
  BY DEF Blank, Body, AllKinds
<1>3. TypeOK
  BY <1>1, <1>2 DEF TypeOK, NoConns, MaxIdle
<1>4. Progress /\ Down /\ Tokens /\ Single
  BY DEF Progress, Down, Tokens, Blank, Single, NoConns
<1>5. AnswersTrue /\ PairingLasts /\ GracefulStop
  BY DEF AnswersTrue, PairingLasts, GracefulStop, Blank, Creates
<1>6. ReferencesHoldUndisturbed
  BY DEF ReferencesHoldUndisturbed, ReferencesHold
<1> QED
  BY <1>3, <1>4, <1>5, <1>6 DEF IInv

\* The type invariant is preserved by every step.
LEMMA TypeStep == IInv /\ [Next]_vars => TypeOK'
<1> SUFFICES ASSUME IInv, [Next]_vars PROVE TypeOK'
  OBVIOUS
<1> USE ApiAssumption DEF IInv, TypeOK, mainVars, poolVars, Active, MaxIdle
<1>1. CASE Open
  <2>1. deadline' \in BOOLEAN
    BY <1>1, Zenon DEF Open
  <2> QED
    BY <1>1, <2>1 DEF Open, Migrate
<1>2. CASE Signal \/ DeadlinePasses
  BY <1>2 DEF Signal, DeadlinePasses
<1>3. CASE Close
  BY <1>3 DEF Close, NoConns
<1>4. CASE Die
  BY <1>4 DEF Die, NoConns
<1>5. ASSUME NEW r \in Requests, Accept(r) PROVE TypeOK'
  <2>1. PICK kind \in Kinds, token \in Known("pair"), home \in Known("home"),
             room \in Known("room") :
          /\ body' = [body EXCEPT ![r] = [kind |-> kind, token |-> token,
                                          home |-> home, room |-> room]]
          /\ \E first \in First(kind, token) :
               step' = [step EXCEPT ![r] = first]
    BY <1>5 DEF Accept
  <2>2. [kind |-> kind, token |-> token, home |-> home, room |-> room] \in Body
    BY DEF Body, Known, Answered
  <2>3. First(kind, token) \subseteq {"handle", "unauthorized", "lookup"}
    BY DEF First
  <2>4. conn[r] = "none" /\ step[r] = "none"
    BY <1>5 DEF Accept
  <2> QED
    BY <1>5, <2>1, <2>2, <2>3, <2>4 DEF Accept
<1>6. ASSUME NEW r \in Requests, Begin(r) PROVE TypeOK'
  BY <1>6 DEF Begin
<1>7. ASSUME NEW r \in Requests, Release(r),
             step' \in [Requests -> {"none", "lookup", "touch", "handle", "ok",
                                     "unauthorized", "failed", "gone"}],
             \A q \in Requests : q # r => step'[q] = step[q],
             UNCHANGED <<phase, deadline, body, left, disturbed>>,
             stored' \subseteq Requests, faulted' \subseteq Requests
      PROVE TypeOK'
  BY <1>7 DEF Release, Enough
<1>8. ASSUME NEW r \in Requests, Lookup(r) \/ Touch(r) PROVE TypeOK'
  BY <1>7, <1>8 DEF Lookup, Touch
<1>9. ASSUME NEW r \in Requests, Handle(r) PROVE TypeOK'
  BY <1>7, <1>9 DEF Handle
<1>10. ASSUME NEW r \in Requests, Fail(r) PROVE TypeOK'
  BY <1>7, <1>10 DEF Fail, AfterError
<1>11. ASSUME NEW r \in Requests, Refuse(r) \/ Leave(r) PROVE TypeOK'
  BY <1>11 DEF Refuse, Leave
<1>12. CASE UNCHANGED vars
  BY <1>12 DEF vars
<1> QED
  BY <1>1, <1>2, <1>3, <1>4, <1>5, <1>6, <1>8, <1>9, <1>10, <1>11, <1>12
  DEF Next, Statement

\* A request that is over stays so, its answer with it; only a request that
\* has not begun changes its body; rows are never lost.
LEMMA OverStep ==
  ASSUME IInv, [Next]_vars
  PROVE  /\ stored \subseteq stored'
         /\ \A r \in Requests : step[r] # "none" => body'[r] = body[r]
         /\ \A r \in Requests : ~Active(r) /\ step[r] # "none" => step'[r] = step[r]
         /\ left \subseteq left' /\ faulted \subseteq faulted'
         /\ Progress'
<1> USE DEF IInv, TypeOK, Progress, mainVars, poolVars, Active
<1> DEFINE Over ==
      /\ stored \subseteq stored'
      /\ \A r \in Requests : step[r] # "none" => body'[r] = body[r]
      /\ \A r \in Requests : ~Active(r) /\ step[r] # "none" => step'[r] = step[r]
      /\ left \subseteq left' /\ faulted \subseteq faulted'
      /\ Progress'
<1>1. CASE Open \/ Signal \/ DeadlinePasses \/ Close
  BY <1>1 DEF Open, Signal, DeadlinePasses, Close, Migrate
<1>2. CASE Die
  BY <1>2 DEF Die, Uncertain
<1>3. ASSUME NEW r \in Requests, Accept(r) PROVE Over
  BY <1>3 DEF Accept
<1>4. ASSUME NEW r \in Requests, Begin(r) \/ Refuse(r) \/ Leave(r) PROVE Over
  BY <1>4 DEF Begin, Refuse, Leave
<1>5. ASSUME NEW r \in Requests, Lookup(r) \/ Touch(r) PROVE Over
  BY <1>5 DEF Lookup, Touch
<1>6. ASSUME NEW r \in Requests, Handle(r) PROVE Over
  BY <1>6 DEF Handle
<1>7. ASSUME NEW r \in Requests, Fail(r) PROVE Over
  BY <1>7 DEF Fail, AfterError, Uncertain
<1>8. CASE UNCHANGED vars
  BY <1>8 DEF vars
<1> QED
  BY <1>1, <1>2, <1>3, <1>4, <1>5, <1>6, <1>7, <1>8 DEF Next, Statement

\* So the rows of each table only grow.
LEMMA RowsStep ==
  ASSUME IInv, [Next]_vars, NEW kind
  PROVE  Rows(kind) \subseteq Rows(kind)'
<1>1. \A r \in stored : r \in stored' /\ body'[r] = body[r]
  BY OverStep DEF IInv, TypeOK, Progress
<1> QED
  BY <1>1 DEF Rows

\* A token in use is that of a row.
LEMMA TokensStep == IInv /\ [Next]_vars => Tokens'
<1> SUFFICES ASSUME IInv, [Next]_vars, NEW r \in Requests
             PROVE  body'[r].token \in Rows("pair")' \cup {None}
  BY DEF Tokens
<1>1. CASE body'[r] = body[r]
  BY <1>1, RowsStep DEF IInv, Tokens
<1>2. CASE body'[r] # body[r]
  <2>1. Accept(r)
    BY <1>2 DEF Next, Statement, vars, mainVars, poolVars, Open, Signal,
         DeadlinePasses, Close, Die, Accept, Begin, Lookup, Touch, Handle, Fail,
         Refuse, Leave, IInv, TypeOK
  <2>2. PICK kind \in Kinds, token \in Known("pair"), home \in Known("home"),
             room \in Known("room") :
          body' = [body EXCEPT ![r] = [kind |-> kind, token |-> token,
                                       home |-> home, room |-> room]]
    BY <2>1 DEF Accept
  <2>3. body'[r].token = token
    BY <2>2 DEF IInv, TypeOK
  <2>4. Known("pair") \subseteq Rows("pair") \cup {None}
    BY DEF Known, Answered, Rows, IInv, AnswersTrue, Creates
  <2> QED
    BY <2>3, <2>4, RowsStep
<1> QED
  BY <1>1, <1>2

\* What a request was answered stays true.
LEMMA AnswersStep == IInv /\ [Next]_vars => AnswersTrue'
<1> SUFFICES ASSUME IInv, [Next]_vars PROVE AnswersTrue'
  OBVIOUS
<1> USE DEF IInv, TypeOK, AnswersTrue, Progress, mainVars, poolVars, Active, Creates
<1>1. CASE Open \/ Signal \/ DeadlinePasses \/ Close
  BY <1>1 DEF Open, Signal, DeadlinePasses, Close, Migrate
<1>2. CASE Die
  BY <1>2 DEF Die, Uncertain
<1>3. ASSUME NEW r \in Requests, Accept(r) PROVE AnswersTrue'
  <2>1. r \notin stored /\ step'[r] # "ok" /\ stored' = stored /\ left' = left
    BY <1>3 DEF Accept, First
  <2>2. \A q \in Requests : q # r => body'[q] = body[q] /\ step'[q] = step[q]
    BY <1>3 DEF Accept
  <2> QED
    BY <2>1, <2>2
<1>4. ASSUME NEW r \in Requests, Begin(r) \/ Refuse(r) \/ Leave(r)
      PROVE AnswersTrue'
  BY <1>4 DEF Begin, Refuse, Leave
<1>5. ASSUME NEW r \in Requests, Lookup(r) \/ Touch(r) PROVE AnswersTrue'
  BY <1>5 DEF Lookup, Touch
<1>6. ASSUME NEW r \in Requests, Handle(r) PROVE AnswersTrue'
  BY <1>6 DEF Handle
<1>7. ASSUME NEW r \in Requests, Fail(r) PROVE AnswersTrue'
  BY <1>7 DEF Fail, AfterError, Uncertain
<1>8. CASE UNCHANGED vars
  BY <1>8 DEF vars
<1> QED
  BY <1>1, <1>2, <1>3, <1>4, <1>5, <1>6, <1>7, <1>8 DEF Next, Statement

\* A paired client is turned away only by a lookup that fails.
LEMMA PairingStep == IInv /\ [Next]_vars => PairingLasts'
<1> SUFFICES ASSUME IInv, [Next]_vars PROVE PairingLasts'
  OBVIOUS
<1> USE ApiAssumption DEF IInv, TypeOK, PairingLasts, mainVars, poolVars, Active
<1>1. CASE Open \/ Signal \/ DeadlinePasses \/ Close \/ Die
  BY <1>1 DEF Open, Signal, DeadlinePasses, Close, Die
<1>2. ASSUME NEW r \in Requests, Accept(r) PROVE PairingLasts'
  <2>1. PICK kind \in Kinds, token \in Known("pair"), home \in Known("home"),
             room \in Known("room") :
          /\ body' = [body EXCEPT ![r] = [kind |-> kind, token |-> token,
                                          home |-> home, room |-> room]]
          /\ \E first \in First(kind, token) : step' = [step EXCEPT ![r] = first]
    BY <1>2 DEF Accept
  <2>2. step'[r] = "unauthorized" => kind = "pair" \/ token = None
    BY <2>1 DEF First
  <2>3. body'[r].kind = kind /\ body'[r].token = token
    BY <2>1
  <2>4. \A q \in Requests : q # r => body'[q] = body[q] /\ step'[q] = step[q]
    BY <2>1
  <2> QED
    BY <1>2, <2>2, <2>3, <2>4 DEF Accept
<1>3. ASSUME NEW r \in Requests, Begin(r) \/ Refuse(r) \/ Leave(r) \/ Touch(r)
      PROVE PairingLasts'
  BY <1>3 DEF Begin, Refuse, Leave, Touch
<1>4. ASSUME NEW r \in Requests, Lookup(r) PROVE PairingLasts'
  BY <1>4 DEF Lookup, Tokens
<1>5. ASSUME NEW r \in Requests, Handle(r) PROVE PairingLasts'
  BY <1>5 DEF Handle
<1>6. ASSUME NEW r \in Requests, Fail(r) PROVE PairingLasts'
  BY <1>6 DEF Fail, AfterError
<1>7. CASE UNCHANGED vars
  BY <1>7 DEF vars
<1> QED
  BY <1>1, <1>2, <1>3, <1>4, <1>5, <1>6, <1>7 DEF Next, Statement

\* Once the database is closed in time, no request is left to begin.
LEMMA GracefulStep == IInv /\ [Next]_vars => GracefulStop' /\ Down'
<1> SUFFICES ASSUME IInv, [Next]_vars PROVE GracefulStop' /\ Down'
  OBVIOUS
<1> USE DEF IInv, TypeOK, GracefulStop, Down, mainVars, poolVars, Active
<1>1. CASE Open \/ Signal \/ DeadlinePasses \/ Die
  BY <1>1 DEF Open, Signal, DeadlinePasses, Die
<1>2. CASE Close
  BY <1>2 DEF Close, MayReturn
<1>3. ASSUME NEW r \in Requests, Accept(r) PROVE GracefulStop' /\ Down'
  BY <1>3 DEF Accept
<1>4. ASSUME NEW r \in Requests, Statement(r) \/ Refuse(r) \/ Leave(r)
      PROVE GracefulStop' /\ Down'
  BY <1>4 DEF Statement, Begin, Lookup, Touch, Handle, Fail, Refuse, Leave
<1>5. CASE UNCHANGED vars
  BY <1>5 DEF vars
<1> QED
  BY <1>1, <1>2, <1>3, <1>4, <1>5 DEF Next

\* While statements run to their end one at a time, the connection of Open is
\* the only one.
LEMMA SingleStep == IInv /\ [Next]_vars => Single'
<1> SUFFICES ASSUME IInv, [Next]_vars PROVE Single'
  OBVIOUS
<1> USE DEF IInv, TypeOK, Single, mainVars, poolVars, Active, NoConns, MaxIdle
<1>1. CASE Open \/ Signal \/ DeadlinePasses \/ Close \/ Die
  BY <1>1 DEF Open, Signal, DeadlinePasses, Close, Die, Down
<1>2. ASSUME NEW r \in Requests, Accept(r) \/ Refuse(r) PROVE Single'
  BY <1>2 DEF Accept, Refuse
<1>3. ASSUME NEW r \in Requests, Begin(r) PROVE Single'
  <2>1. CASE ~disturbed'
    <3>1. ~disturbed /\ \A q \in Requests : conn[q] = "none"
      BY <1>3, <2>1 DEF Begin
    <3>2. phase \in {"serving", "stopping"}
      BY <1>3 DEF Begin, Down
    <3>3. free["on"] = 1 /\ free["off"] = 0
      BY <3>1, <3>2
    <3>4. /\ conn' = [conn EXCEPT ![r] = "on"]
          /\ free' = [free EXCEPT !["on"] = @ - 1]
      BY <1>3, <3>3 DEF Begin
    <3>5. conn'[r] = "on" /\ \A q \in Requests : q # r => conn'[q] = "none"
      BY <3>1, <3>4
    <3>6. free'["on"] = 0 /\ free'["off"] = 0
      BY <3>3, <3>4
    <3>7. r \notin left /\ left' = left
      BY <1>3 DEF Begin
    <3> QED
      BY <3>5, <3>6, <3>7
  <2> QED
    BY <2>1, Zenon
<1>4. ASSUME NEW r \in Requests, Release(r), UNCHANGED <<phase, disturbed, left>>
      PROVE Single'
  <2>1. CASE ~disturbed /\ conn[r] = "on"
    <3>1. r \notin left /\ free = NoConns
      BY <2>1
    <3>2. free' = IF phase = "closed" THEN NoConns ELSE [on |-> 1, off |-> 0]
      BY <1>4, <2>1, <3>1 DEF Release, Enough
    <3>3. \A q \in Requests : conn'[q] = "none"
      BY <1>4, <2>1 DEF Release
    <3> QED
      BY <1>4, <2>1, <3>2, <3>3
  <2>2. CASE ~disturbed /\ conn[r] = "none"
    BY <1>4, <2>2 DEF Release
  <2> QED
    BY <1>4, <2>1, <2>2, Zenon
<1>5. ASSUME NEW r \in Requests, Lookup(r) \/ Touch(r) \/ Handle(r) \/ Fail(r)
      PROVE Single'
  BY <1>4, <1>5 DEF Lookup, Touch, Handle, Fail
<1>6. ASSUME NEW r \in Requests, Leave(r) PROVE Single'
  <2>1. CASE ~disturbed'
    <3>1. ~disturbed /\ conn[r] = "none"
      BY <1>6, <2>1, Zenon DEF Leave
    <3> QED
      BY <1>6, <3>1 DEF Leave
  <2> QED
    BY <2>1, Zenon
<1>7. CASE UNCHANGED vars
  BY <1>7 DEF vars
<1> QED
  BY <1>1, <1>2, <1>3, <1>5, <1>6, <1>7 DEF Next, Statement

\* Every insert goes through the connection that looks at foreign keys.
LEMMA ReferencesStep == IInv /\ [Next]_vars => ReferencesHoldUndisturbed'
<1> SUFFICES ASSUME IInv, [Next]_vars, ~disturbed', NEW r \in stored'
             PROVE  RefersToRows(r)'
  BY Zenon DEF ReferencesHoldUndisturbed, ReferencesHold
<1>1. ~disturbed
  BY DEF Next, Statement, vars, mainVars, poolVars, Open, Signal, DeadlinePasses,
     Close, Die, Accept, Begin, Lookup, Touch, Handle, Fail, Refuse, Leave
<1>2. r \in Requests
  BY TypeStep DEF TypeOK
<1>3. RefersToRows(r) /\ body'[r] = body[r] => RefersToRows(r)'
  BY RowsStep DEF RefersToRows
<1>4. CASE r \in stored
  BY <1>1, <1>2, <1>3, <1>4, OverStep
  DEF IInv, Progress, ReferencesHoldUndisturbed, ReferencesHold
<1>5. CASE r \notin stored
  <2>1. Uncertain(r) \/ (Handle(r) /\ Passes(r))
    BY <1>5 DEF Next, Statement, vars, mainVars, poolVars, Open, Migrate, Signal,
       DeadlinePasses, Close, Die, Accept, Begin, Lookup, Touch, Handle, Fail,
       Refuse, Leave
  <2>2. Passes(r) /\ step[r] = "handle" /\ conn[r] # "none"
    BY <2>1 DEF Uncertain, Handle
  <2>3. conn[r] = "on"
    BY <1>1, <1>2, <2>2 DEF IInv, TypeOK, Single
  <2>4. RefersToRows(r)
    BY <2>2, <2>3 DEF Passes
  <2> QED
    BY <1>2, <1>3, <2>2, <2>4, OverStep
<1> QED
  BY <1>4, <1>5

LEMMA IInvInvariant == Spec => []IInv
<1>1. IInv /\ [Next]_vars => IInv'
  BY TypeStep, OverStep, TokensStep, AnswersStep, PairingStep, GracefulStep,
     SingleStep, ReferencesStep DEF IInv
<1> QED
  BY <1>1, InitIInv, PTL DEF Spec

-----------------------------------------------------------------------------
\* The variables keep their types, only a statement holds a connection, and the
\* pool never keeps more free ones than it may.
THEOREM TypeCorrect == Spec => []TypeOK
<1>1. IInv => TypeOK
  BY DEF IInv
<1> QED
  BY <1>1, IInvInvariant, PTL

\* Rooms and devices belong to homes and rooms that exist, until two statements
\* have run at the same time or a client has left during one.
THEOREM ReferencesHoldUndisturbedHolds == Spec => []ReferencesHoldUndisturbed
<1>1. IInv => ReferencesHoldUndisturbed
  BY DEF IInv
<1> QED
  BY <1>1, IInvInvariant, PTL

\* Who was told "created" finds the row, who was told of an error does not,
\* through crashes and restarts.
THEOREM AnswersTrueHolds == Spec => []AnswersTrue
<1>1. IInv => AnswersTrue
  BY DEF IInv
<1> QED
  BY <1>1, IInvInvariant, PTL

\* A client that was given a token is let in unless its lookup fails.
THEOREM PairingLastsHolds == Spec => []PairingLasts
<1>1. IInv => PairingLasts
  BY DEF IInv
<1> QED
  BY <1>1, IInvInvariant, PTL

\* The database is not closed under a request before Shutdown's time is up.
THEOREM GracefulStopHolds == Spec => []GracefulStop
<1>1. IInv => GracefulStop
  BY DEF IInv
<1> QED
  BY <1>1, IInvInvariant, PTL
=============================================================================
