--------------------------- MODULE EventBusProofs ---------------------------
(***************************************************************************)
(* Theorems of EventBus for every set of clients, every buffer size and    *)
(* every number of events.                                                 *)
(*                                                                         *)
(* NewestKept and EmptyMeansCurrent are not inductive alone: that the send *)
(* after the drain finds room depends on who can have filled the buffer in *)
(* between, that is on the lock: IInv adds what the lock guarantees.       *)
(***************************************************************************)
EXTENDS EventBus, TLAPS

\* Subscriptions come and go only when the publisher is not in its loop.
LockInv ==
  /\ \A c \in Clients : c \in subscribers <=> session[c] # "off"
  /\ todo \subseteq subscribers
  /\ pc \in {"idle", "sequenced"} => todo = {}
  /\ pc \in {"drain", "resend"} => current \in todo
  /\ pc # "idle" => sequence >= 1

\* Nobody fills the slot that the drain has made.
RoomInv == pc = "resend" => Len(channel[current]) < Capacity(current)

IInv == TypeOK /\ LockInv /\ RoomInv /\ NewestKept /\ EmptyMeansCurrent

LEMMA CapacityPositive == \A c \in Clients : Capacity(c) \in Nat /\ Capacity(c) >= 1
  BY BusAssumption DEF Capacity

\* The initial state satisfies the inductive invariant.
LEMMA InitIInv == Init => IInv
  BY CapacityPositive, BusAssumption
  DEF Init, IInv, TypeOK, LockInv, RoomInv, NewestKept, EmptyMeansCurrent

\* The type invariant is preserved by every step.
LEMMA TypeStep == IInv /\ [Next]_vars => TypeOK'
<1> SUFFICES ASSUME IInv, [Next]_vars PROVE TypeOK'
  OBVIOUS
<1> USE CapacityPositive, BusAssumption DEF IInv, TypeOK, LockInv, RoomInv
<1>1. CASE Publish
  BY <1>1 DEF Publish
<1>2. CASE AcquireRead
  BY <1>2 DEF AcquireRead
<1>3. ASSUME NEW c \in Clients, Send(c) PROVE TypeOK'
  BY <1>3 DEF Send
<1>4. ASSUME NEW c \in Clients, SendFull(c) PROVE TypeOK'
  BY <1>4 DEF SendFull
<1>5. CASE Drain
  BY <1>5 DEF Drain, DropOldest
<1>6. CASE Resend
  BY <1>6 DEF Resend, TrySend
<1>7. CASE ReleaseRead
  BY <1>7 DEF ReleaseRead
<1>8. ASSUME NEW c \in Clients, Subscribe(c) PROVE TypeOK'
  BY <1>8 DEF Subscribe, pubVars, Announced, WriteLockFree
<1>9. ASSUME NEW c \in Clients, Receive(c) PROVE TypeOK'
  BY <1>9 DEF Receive
<1>10. ASSUME NEW c \in Clients,
              WriteDone(c) \/ WriteFails(c) \/ Leave(c) \/ Unsubscribe(c)
       PROVE TypeOK'
  BY <1>10 DEF WriteDone, WriteFails, Leave, Unsubscribe
<1>11. CASE UNCHANGED vars
  BY <1>11 DEF vars
<1> QED
  BY <1>1, <1>2, <1>3, <1>4, <1>5, <1>6, <1>7, <1>8, <1>9, <1>10, <1>11
  DEF Next, Publisher

\* What the lock guarantees is preserved by every step.
LEMMA LockStep == IInv /\ [Next]_vars => LockInv' /\ RoomInv'
<1> SUFFICES ASSUME IInv, [Next]_vars PROVE LockInv' /\ RoomInv'
  OBVIOUS
<1> USE CapacityPositive, BusAssumption DEF IInv, TypeOK, LockInv, RoomInv
<1>1. CASE Publish
  BY <1>1 DEF Publish
<1>2. CASE AcquireRead
  BY <1>2 DEF AcquireRead
<1>3. ASSUME NEW c \in Clients, Send(c) PROVE LockInv' /\ RoomInv'
  BY <1>3 DEF Send
<1>4. ASSUME NEW c \in Clients, SendFull(c) PROVE LockInv' /\ RoomInv'
  BY <1>4 DEF SendFull
<1>5. CASE Drain
  BY <1>5 DEF Drain, DropOldest
<1>6. CASE Resend
  BY <1>6 DEF Resend
<1>7. CASE ReleaseRead
  BY <1>7 DEF ReleaseRead
<1>8. ASSUME NEW c \in Clients, Subscribe(c) PROVE LockInv' /\ RoomInv'
  BY <1>8 DEF Subscribe, pubVars, WriteLockFree
<1>9. ASSUME NEW c \in Clients, Receive(c) PROVE LockInv' /\ RoomInv'
  BY <1>9 DEF Receive
<1>10. ASSUME NEW c \in Clients, WriteDone(c) \/ WriteFails(c) \/ Leave(c)
       PROVE LockInv' /\ RoomInv'
  BY <1>10 DEF WriteDone, WriteFails, Leave
<1>11. ASSUME NEW c \in Clients, Unsubscribe(c) PROVE LockInv' /\ RoomInv'
  BY <1>11 DEF Unsubscribe, WriteLockFree
<1>12. CASE UNCHANGED vars
  BY <1>12 DEF vars
<1> QED
  BY <1>1, <1>2, <1>3, <1>4, <1>5, <1>6, <1>7, <1>8, <1>9, <1>10, <1>11, <1>12
  DEF Next, Publisher

-----------------------------------------------------------------------------
(* Runs of events *)

\* The next event extends a run, and the client stays behind it.
LEMMA RunAppend ==
  ASSUME NEW s \in Seq(Nat), NEW e \in Nat, IsRun(s, e - 1),
         NEW t \in Nat, t <= e - 1 - Len(s)
  PROVE  /\ IsRun(Append(s, e), e)
         /\ t <= e - Len(Append(s, e))
         /\ Append(s, e) # <<>>
<1>1. /\ Len(s) \in Nat
      /\ Len(Append(s, e)) = Len(s) + 1
  OBVIOUS
<1>2. ASSUME NEW i \in 1 .. Len(s) + 1
      PROVE  Append(s, e)[i] = e - (Len(s) + 1) + i
  BY DEF IsRun
<1>3. IsRun(Append(s, e), e)
  BY <1>1, <1>2 DEF IsRun
<1>4. t <= e - Len(Append(s, e))
  BY <1>1
<1>5. Append(s, e) # <<>>
  BY <1>1, Len(<<>>) = 0
<1> QED
  BY <1>3, <1>4, <1>5

\* A run without its oldest event is a run.
LEMMA RunTail ==
  ASSUME NEW s \in Seq(Nat), s # <<>>, NEW e \in Int, IsRun(s, e)
  PROVE  /\ Tail(s) \in Seq(Nat)
         /\ \A t \in Nat : t <= e - Len(s) => t <= e - Len(Tail(s))
         /\ Head(s) <= e - Len(Tail(s))
         /\ Tail(s) = <<>> => Head(s) = e
         /\ Len(Tail(s)) = Len(s) - 1
         /\ Len(s) >= 1
         /\ IsRun(Tail(s), e)
         /\ Head(s) \in Nat
         /\ Head(s) = e - Len(s) + 1
<1>1. /\ Tail(s) \in Seq(Nat)
      /\ Len(Tail(s)) = Len(s) - 1
      /\ Len(s) \in Nat
      /\ Len(s) >= 1
      /\ Head(s) = s[1]
      /\ s[1] \in Nat
  OBVIOUS
<1>2. s[1] = e - Len(s) + 1
  BY <1>1 DEF IsRun
<1>3. ASSUME NEW i \in 1 .. Len(s) - 1
      PROVE  Tail(s)[i] = e - (Len(s) - 1) + i
  <2>1. Tail(s)[i] = s[i + 1] /\ i + 1 \in 1 .. Len(s)
    BY <1>1
  <2> QED
    BY <1>1, <2>1 DEF IsRun
<1>4. Tail(s) = <<>> => Len(Tail(s)) = 0
  BY Len(<<>>) = 0
<1>5. IsRun(Tail(s), e)
  BY <1>1, <1>3 DEF IsRun
<1>6. \A t \in Nat : t <= e - Len(s) => t <= e - Len(Tail(s))
  BY <1>1
<1> QED
  BY <1>1, <1>2, <1>4, <1>5, <1>6

-----------------------------------------------------------------------------
(* The window of each subscriber.  Latest moves only at AcquireRead, where  *)
(* every subscriber joins todo, and at Send and Resend, where one leaves it *)
(* with the event appended.                                                 *)

Window(c) ==
  /\ IsRun(channel[c], Latest(c))
  /\ seen[c] <= Latest(c) - Len(channel[c])
  /\ channel[c] = <<>> => seen[c] = Latest(c) \/ (pc = "resend" /\ current = c)

\* A client that a step does not touch keeps its window.
LEMMA WindowFrame ==
  ASSUME NEW c, Window(c), Latest(c)' = Latest(c),
         channel'[c] = channel[c], seen'[c] = seen[c],
         pc = "resend" /\ current = c => pc' = "resend" /\ current' = c
  PROVE  Window(c)'
  BY DEF Window

\* The event that reaches a client's buffer extends its window.
LEMMA AppendWindow ==
  ASSUME NEW d, channel[d] \in Seq(Nat), sequence \in Nat, Window(d),
         channel'[d] = Append(channel[d], sequence),
         Latest(d) = sequence - 1, Latest(d)' = sequence,
         seen'[d] = seen[d], seen[d] \in Nat
  PROVE  Window(d)'
<1>1. /\ IsRun(channel[d], sequence - 1)
      /\ seen[d] <= sequence - 1 - Len(channel[d])
  BY DEF Window
<1> QED
  BY <1>1, RunAppend DEF Window

\* Every window is preserved by every step.
LEMMA WindowStep ==
  ASSUME IInv, [Next]_vars, NEW d \in subscribers'
  PROVE  Window(d)'
<1> USE CapacityPositive, BusAssumption DEF IInv, TypeOK, LockInv, RoomInv
<1>0. d \in Clients
  <2>1. subscribers' \subseteq Clients
    BY TypeStep DEF TypeOK
  <2> QED BY <2>1
<1>w. d \in subscribers => Window(d)
  BY DEF NewestKept, EmptyMeansCurrent, Window
<1>1. CASE Publish
  BY <1>1, <1>w, WindowFrame DEF Publish, Latest, Announced
<1>2. CASE AcquireRead
  BY <1>2, <1>w, WindowFrame DEF AcquireRead, Latest, Announced
<1>3. ASSUME NEW c \in Clients, Send(c) PROVE Window(d)'
  <2>1. CASE c = d
    <3>1. /\ channel[d] \in Seq(Nat) /\ sequence \in Nat /\ Window(d)
          /\ channel'[d] = Append(channel[d], sequence)
          /\ Latest(d) = sequence - 1 /\ Latest(d)' = sequence
          /\ seen'[d] = seen[d] /\ seen[d] \in Nat
      BY <1>0, <1>3, <1>w, <2>1 DEF Send, Latest, Announced
    <3> QED
      BY <3>1, AppendWindow
  <2>2. CASE c # d
    BY <1>0, <1>3, <1>w, <2>2, WindowFrame DEF Send, Latest, Announced
  <2> QED BY <2>1, <2>2
<1>4. ASSUME NEW c \in Clients, SendFull(c) PROVE Window(d)'
  BY <1>4, <1>w, WindowFrame DEF SendFull, Latest, Announced
<1>5. CASE Drain
  <2>1. CASE current = d
    <3>1. /\ channel[d] \in Seq(Nat) /\ seen'[d] = seen[d] /\ seen[d] \in Nat
          /\ Latest(d) = sequence - 1 /\ Latest(d)' = sequence - 1
          /\ sequence \in Nat /\ Window(d)
          /\ pc' = "resend" /\ current' = d
      BY <1>0, <1>5, <1>w, <2>1 DEF Drain, Latest, Announced
    <3>2. CASE channel[d] = <<>>
      BY <1>0, <1>5, <2>1, <3>1, <3>2 DEF Drain, DropOldest, Window
    <3>3. CASE channel[d] # <<>>
      <4>1. channel'[d] = Tail(channel[d])
        BY <1>0, <1>5, <2>1, <3>3 DEF Drain, DropOldest
      <4>2. IsRun(channel[d], sequence - 1) /\ seen[d] <= sequence - 1 - Len(channel[d])
        BY <3>1 DEF Window
      <4>3. /\ IsRun(Tail(channel[d]), sequence - 1)
            /\ seen[d] <= sequence - 1 - Len(Tail(channel[d]))
        <5>1. sequence - 1 \in Int
          BY <3>1
        <5> QED
          BY <3>1, <3>3, <4>2, <5>1, RunTail
      <4> QED
        BY <3>1, <4>1, <4>3 DEF Window
    <3> QED
      BY <3>2, <3>3
  <2>2. CASE current # d
    BY <1>0, <1>5, <1>w, <2>2, WindowFrame DEF Drain, Latest, Announced
  <2> QED BY <2>1, <2>2
<1>6. CASE Resend
  <2>1. CASE current = d
    <3>1. /\ channel[d] \in Seq(Nat) /\ sequence \in Nat /\ Window(d)
          /\ channel'[d] = Append(channel[d], sequence)
          /\ Latest(d) = sequence - 1 /\ Latest(d)' = sequence
          /\ seen'[d] = seen[d] /\ seen[d] \in Nat
      BY <1>0, <1>6, <1>w, <2>1 DEF Resend, TrySend, Latest, Announced
    <3> QED
      BY <3>1, AppendWindow
  <2>2. CASE current # d
    BY <1>0, <1>6, <1>w, <2>2, WindowFrame DEF Resend, Latest, Announced
  <2> QED BY <2>1, <2>2
<1>7. CASE ReleaseRead
  BY <1>7, <1>w, WindowFrame DEF ReleaseRead, Latest, Announced
<1>8. ASSUME NEW c \in Clients, Subscribe(c) PROVE Window(d)'
  <2>1. CASE c = d
    BY <1>0, <1>8, <2>1
    DEF Subscribe, pubVars, WriteLockFree, Window, IsRun, Latest, Announced
  <2>2. CASE c # d
    BY <1>0, <1>8, <1>w, <2>2, WindowFrame
    DEF Subscribe, pubVars, WriteLockFree, Latest, Announced
  <2> QED BY <2>1, <2>2
<1>9. ASSUME NEW c \in Clients, Receive(c) PROVE Window(d)'
  <2>1. CASE c = d
    <3>1. /\ channel[d] \in Seq(Nat) /\ channel[d] # <<>> /\ Window(d)
          /\ channel'[d] = Tail(channel[d]) /\ seen'[d] = Head(channel[d])
          /\ Latest(d)' = Latest(d) /\ Latest(d) \in Int
      BY <1>0, <1>9, <1>w, <2>1 DEF Receive, Latest, Announced
    <3>2. IsRun(channel[d], Latest(d))
      BY <3>1 DEF Window
    <3>3. /\ IsRun(Tail(channel[d]), Latest(d))
          /\ Head(channel[d]) <= Latest(d) - Len(Tail(channel[d]))
          /\ Tail(channel[d]) = <<>> => Head(channel[d]) = Latest(d)
      BY <3>1, <3>2, RunTail
    <3> QED
      BY <3>1, <3>3 DEF Window
  <2>2. CASE c # d
    BY <1>0, <1>9, <1>w, <2>2, WindowFrame DEF Receive, Latest, Announced
  <2> QED BY <2>1, <2>2
<1>10. ASSUME NEW c \in Clients, WriteDone(c) \/ WriteFails(c) \/ Leave(c)
       PROVE Window(d)'
  BY <1>10, <1>w, WindowFrame DEF WriteDone, WriteFails, Leave, Latest, Announced
<1>11. ASSUME NEW c \in Clients, Unsubscribe(c) PROVE Window(d)'
  BY <1>11, <1>w, WindowFrame DEF Unsubscribe, Latest, Announced
<1>12. CASE UNCHANGED vars
  BY <1>12, <1>w, WindowFrame DEF vars, Latest, Announced
<1> QED
  BY <1>1, <1>2, <1>3, <1>4, <1>5, <1>6, <1>7, <1>8, <1>9, <1>10, <1>11, <1>12
  DEF Next, Publisher

\* The inductive invariant is preserved by every step.
LEMMA StepIInv == IInv /\ [Next]_vars => IInv'
<1> SUFFICES ASSUME IInv, [Next]_vars PROVE IInv'
  OBVIOUS
<1>1. TypeOK' /\ LockInv' /\ RoomInv'
  BY TypeStep, LockStep
<1>2. NewestKept' /\ EmptyMeansCurrent'
  BY WindowStep DEF NewestKept, EmptyMeansCurrent, Window
<1> QED
  BY <1>1, <1>2 DEF IInv

LEMMA IInvInvariant == Spec => []IInv
  BY InitIInv, StepIInv, PTL DEF Spec

-----------------------------------------------------------------------------
\* The variables keep their types and no buffer outgrows its channel.
THEOREM TypeCorrect == Spec => []TypeOK
<1>1. IInv => TypeOK
  BY DEF IInv
<1> QED
  BY <1>1, IInvInvariant, PTL

\* The buffer of every subscriber is always the unbroken run of the newest
\* events: publish drops the oldest one and nothing else.
THEOREM NewestKeptHolds == Spec => []NewestKept
<1>1. IInv => NewestKept
  BY DEF IInv
<1> QED
  BY <1>1, IInvInvariant, PTL

\* A client with an empty buffer has taken the newest event.
THEOREM EmptyMeansCurrentHolds == Spec => []EmptyMeansCurrent
<1>1. IInv => EmptyMeansCurrent
  BY DEF IInv
<1> QED
  BY <1>1, IInvInvariant, PTL

-----------------------------------------------------------------------------
(* The bus implements the safety part of the feed: AcquireRead announces,  *)
(* Receive delivers, everything between them is invisible to the apps.     *)

\* The initial state of the bus is one of the feed.
LEMMA FeedInitially == Init => Feed!FeedInit
  BY DEF Init, Feed!FeedInit, Announced

\* Every step of the bus is a step of the feed or leaves it alone.
LEMMA FeedStep == IInv /\ [Next]_vars => [Feed!FeedNext]_(Feed!feedVars)
<1> SUFFICES ASSUME IInv, [Next]_vars
             PROVE  [Feed!FeedNext]_(Feed!feedVars)
  OBVIOUS
<1> USE DEF IInv, TypeOK, LockInv, Announced, Feed!feedVars
<1>1. CASE Publish
  BY <1>1 DEF Publish
<1>2. CASE AcquireRead
  BY <1>2 DEF AcquireRead, Feed!FeedNext, Feed!Announce
<1>3. ASSUME NEW c \in Clients, Send(c) \/ SendFull(c)
      PROVE UNCHANGED Feed!feedVars
  BY <1>3 DEF Send, SendFull
<1>4. CASE Drain \/ Resend \/ ReleaseRead
  BY <1>4 DEF Drain, Resend, ReleaseRead
<1>5. ASSUME NEW c \in Clients, Subscribe(c) PROVE Feed!Connect(c)
  BY <1>5 DEF Subscribe, pubVars, Feed!Connect
<1>6. ASSUME NEW c \in Clients, Receive(c) PROVE Feed!Deliver(c)
  <2>1. /\ Head(channel[c]) \in Nat
        /\ Head(channel[c]) > seen[c]
        /\ Head(channel[c]) <= Announced
    <3>1. /\ c \in subscribers /\ channel[c] \in Seq(Nat) /\ channel[c] # <<>>
          /\ Latest(c) \in Int /\ Latest(c) <= Announced /\ seen[c] \in Nat
      BY <1>6 DEF Receive, Latest
    <3>2. IsRun(channel[c], Latest(c)) /\ seen[c] <= Latest(c) - Len(channel[c])
      BY <3>1 DEF NewestKept
    <3>3. /\ Head(channel[c]) \in Nat /\ Len(channel[c]) \in Nat
          /\ Head(channel[c]) = Latest(c) - Len(channel[c]) + 1
          /\ Len(channel[c]) >= 1
      BY <3>1, <3>2, RunTail
    <3> QED
      BY <3>1, <3>2, <3>3
  <2>2. /\ Announced' = Announced /\ Announced \in Int /\ seen[c] \in Nat
        /\ seen' = [seen EXCEPT ![c] = Head(channel[c])]
    BY <1>6 DEF Receive
  <2>3. /\ c \in {k \in Clients : session[k] \in {"waiting", "writing"}}
        /\ {k \in Clients : session'[k] \in {"waiting", "writing"}}
             = {k \in Clients : session[k] \in {"waiting", "writing"}}
    BY <1>6 DEF Receive
  <2>4. Head(channel[c]) \in (seen[c] + 1) .. Announced
    BY <2>1, <2>2
  <2> QED
    BY <2>2, <2>3, <2>4 DEF Feed!Deliver
<1>7. ASSUME NEW c \in Clients, WriteDone(c) \/ Unsubscribe(c)
      PROVE UNCHANGED Feed!feedVars
  BY <1>7 DEF WriteDone, Unsubscribe
<1>8. ASSUME NEW c \in Clients, WriteFails(c) \/ Leave(c) PROVE Feed!Leave(c)
  BY <1>8 DEF WriteFails, Leave, Feed!Leave
<1>9. CASE UNCHANGED vars
  BY <1>9 DEF vars
<1> QED
  BY <1>1, <1>2, <1>3, <1>4, <1>5, <1>6, <1>7, <1>8, <1>9
  DEF Next, Publisher, Feed!FeedNext

\* What the apps see of the bus is a feed: connected clients only move
\* forward through the announced events, whatever they lose.
THEOREM ImplementsFeedSafety == Spec => Feed!FeedSafety
  BY FeedInitially, FeedStep, IInvInvariant, PTL DEF Spec, Feed!FeedSafety
=============================================================================
