------------------------------ MODULE EventBus ------------------------------
(***************************************************************************)
(* The realtime event bus of the application service                       *)
(* (internal/application/eventbus.go) and the goroutine that serves one    *)
(* WebSocket client from it (serveEvents in internal/httpapi/router.go).   *)
(*                                                                         *)
(* An event is its sequence number.  publish is modelled statement by      *)
(* statement, since the receivers run between its three select statements  *)
(* and new subscribers between the numbering and the read lock.  It has    *)
(* one caller, ApplyMatterAttribute, itself called by the one goroutine    *)
(* main starts for the Matter event stream, so there is one publisher.     *)
(***************************************************************************)
EXTENDS Integers, Sequences

CONSTANTS
  Clients,    \* WebSocket clients; a client may come back after leaving
  NoClient,   \* "no client"
  Buffer,     \* the buffer size each client's session asks from subscribe
  MaxEvents   \* bound on the number of events published

\* subscribe never makes an unbuffered channel.
Capacity(c) == IF Buffer[c] < 1 THEN 1 ELSE Buffer[c]

ASSUME BusAssumption ==
  /\ NoClient \notin Clients
  /\ Buffer \in [Clients -> Int]
  /\ MaxEvents \in Nat

VARIABLES
  sequence,     \* the number of the last event
  pc,           \* where the publisher is in publish
  todo,         \* the subscribers its loop has not finished with
  current,      \* the one whose buffer it found full
  subscribers,  \* the keys of the bus's map
  channel,      \* the buffered events of each subscriber
  session,      \* what each client's serveEvents is doing
  seen          \* the last event taken from its channel, or where it began

pubVars == <<sequence, pc, todo, current>>
subVars == <<subscribers, session, seen>>
vars == <<sequence, pc, todo, current, subscribers, channel, session, seen>>

Init ==
  /\ sequence = 0
  /\ pc = "idle"
  /\ todo = {}
  /\ current = NoClient
  /\ subscribers = {}
  /\ channel = [c \in Clients |-> <<>>]
  /\ session = [c \in Clients |-> "off"]
  /\ seen = [c \in Clients |-> 0]

-----------------------------------------------------------------------------
(* publish *)

\* A non-blocking send, and the non-blocking receive that makes room.
TrySend(c, e) ==
  IF Len(channel[c]) < Capacity(c) THEN Append(channel[c], e) ELSE channel[c]

DropOldest_Nothing(ch) == ch
DropOldest_Newest(ch) ==
  IF ch = <<>> THEN ch ELSE SubSeq(ch, 1, Len(ch) - 1)
DropOldest(ch) == IF ch = <<>> THEN ch ELSE Tail(ch)

Publish ==
  /\ pc = "idle"
  /\ sequence < MaxEvents
  /\ sequence' = sequence + 1
  /\ pc' = "sequenced"
  /\ UNCHANGED <<todo, current, subscribers, channel, session, seen>>

AcquireRead ==
  /\ pc = "sequenced"
  /\ pc' = "send"
  /\ todo' = subscribers
  /\ UNCHANGED <<sequence, current, subscribers, channel, session, seen>>

\* The first select: the event fits and the loop goes on to the next one ...
Send_Unbounded(c) ==
  /\ pc = "send"
  /\ c \in todo
  /\ channel' = [channel EXCEPT ![c] = Append(@, sequence)]
  /\ todo' = todo \ {c}
  /\ UNCHANGED <<sequence, pc, current, subscribers, session, seen>>
Send(c) ==
  /\ pc = "send"
  /\ c \in todo
  /\ Len(channel[c]) < Capacity(c)
  /\ channel' = [channel EXCEPT ![c] = Append(@, sequence)]
  /\ todo' = todo \ {c}
  /\ UNCHANGED <<sequence, pc, current, subscribers, session, seen>>

\* ... or the client is too slow.
SendFull_Blocks(c) ==
  /\ pc = "send"
  /\ c \in todo
  /\ Len(channel[c]) = Capacity(c)
  /\ UNCHANGED vars
SendFull(c) ==
  /\ pc = "send"
  /\ c \in todo
  /\ Len(channel[c]) = Capacity(c)
  /\ current' = c
  /\ pc' = "drain"
  /\ UNCHANGED <<sequence, todo, subscribers, channel, session, seen>>

Drain ==
  /\ pc = "drain"
  /\ channel' = [channel EXCEPT ![current] = DropOldest(@)]
  /\ pc' = "resend"
  /\ UNCHANGED <<sequence, todo, current, subscribers, session, seen>>

Resend ==
  /\ pc = "resend"
  /\ channel' = [channel EXCEPT ![current] = TrySend(current, sequence)]
  /\ todo' = todo \ {current}
  /\ current' = NoClient
  /\ pc' = "send"
  /\ UNCHANGED <<sequence, subscribers, session, seen>>

ReleaseRead ==
  /\ pc = "send"
  /\ todo = {}
  /\ pc' = "idle"
  /\ UNCHANGED <<sequence, todo, current, subscribers, channel, session, seen>>

Publisher ==
  \/ AcquireRead
  \/ \E c \in Clients : Send(c) \/ SendFull(c)
  \/ Drain
  \/ Resend
  \/ ReleaseRead

-----------------------------------------------------------------------------
(* subscribe, unsubscribe and serveEvents *)

\* The write lock is free when no publisher holds the read lock.
WriteLockFree == pc \in {"idle", "sequenced"}

\* The events announced to the subscribers of the moment so far: the one
\* that has a number but not yet the read lock reaches later subscribers.
Announced == IF pc = "sequenced" THEN sequence - 1 ELSE sequence

Subscribe(c) ==
  /\ session[c] = "off"
  /\ WriteLockFree
  /\ subscribers' = subscribers \cup {c}
  /\ channel' = [channel EXCEPT ![c] = <<>>]
  /\ session' = [session EXCEPT ![c] = "waiting"]
  /\ seen' = [seen EXCEPT ![c] = Announced]
  /\ UNCHANGED pubVars

Receive_Coalesces(c) ==
  /\ session[c] = "waiting"
  /\ channel[c] # <<>>
  /\ seen' = [seen EXCEPT ![c] = Head(channel[c])]
  /\ channel' = [channel EXCEPT ![c] = <<>>]
  /\ session' = [session EXCEPT ![c] = "writing"]
  /\ UNCHANGED <<sequence, pc, todo, current, subscribers>>
Receive(c) ==
  /\ session[c] = "waiting"
  /\ channel[c] # <<>>
  /\ seen' = [seen EXCEPT ![c] = Head(channel[c])]
  /\ channel' = [channel EXCEPT ![c] = Tail(@)]
  /\ session' = [session EXCEPT ![c] = "writing"]
  /\ UNCHANGED <<sequence, pc, todo, current, subscribers>>

\* The write to the socket ends within its five seconds, one way ...
WriteDone(c) ==
  /\ session[c] = "writing"
  /\ session' = [session EXCEPT ![c] = "waiting"]
  /\ UNCHANGED <<sequence, pc, todo, current, subscribers, channel, seen>>

\* ... or the other.
WriteFails(c) ==
  /\ session[c] = "writing"
  /\ session' = [session EXCEPT ![c] = "closing"]
  /\ UNCHANGED <<sequence, pc, todo, current, subscribers, channel, seen>>

\* A client that goes away ends the wait for its next event.
Leave(c) ==
  /\ session[c] = "waiting"
  /\ session' = [session EXCEPT ![c] = "closing"]
  /\ UNCHANGED <<sequence, pc, todo, current, subscribers, channel, seen>>

Unsubscribe(c) ==
  /\ session[c] = "closing"
  /\ WriteLockFree
  /\ subscribers' = subscribers \ {c}
  /\ session' = [session EXCEPT ![c] = "off"]
  /\ UNCHANGED <<sequence, pc, todo, current, channel, seen>>

-----------------------------------------------------------------------------
Next ==
  \/ Publish
  \/ Publisher
  \/ \E c \in Clients :
       \/ Subscribe(c) \/ Receive(c) \/ WriteDone(c) \/ WriteFails(c)
       \/ Leave(c) \/ Unsubscribe(c)

Spec == Init /\ [][Next]_vars

\* The publisher's goroutine runs; nothing is asked of the clients.
PublisherSpec == Spec /\ WF_vars(Publisher)

\* The goroutine of a session runs too, and its write ends in five seconds.
SessionsRun ==
  \A c \in Clients : WF_vars(Receive(c)) /\ WF_vars(WriteDone(c) \/ WriteFails(c))

-----------------------------------------------------------------------------
(* Properties *)

\* Type invariant of the bus: no buffer outgrows its channel.
TypeOK ==
  /\ sequence \in 0 .. MaxEvents
  /\ pc \in {"idle", "sequenced", "send", "drain", "resend"}
  /\ todo \in SUBSET Clients
  /\ current \in Clients \cup {NoClient}
  /\ subscribers \in SUBSET Clients
  /\ channel \in [Clients -> Seq(Nat)]
  /\ \A c \in Clients : Len(channel[c]) <= Capacity(c)
  /\ session \in [Clients -> {"off", "waiting", "writing", "closing"}]
  /\ seen \in [Clients -> Nat]

\* The newest event that publish is done with for this subscriber.
Latest(c) == IF c \in todo THEN Announced - 1 ELSE Announced

\* s is the run of consecutive events that ends with e.
IsRun(s, e) == \A i \in 1 .. Len(s) : s[i] = e - Len(s) + i

\* What a slow client loses is always the oldest: whatever publish, the
\* receivers and the subscriptions do in between, the buffer of a subscriber
\* is the unbroken run of the newest events, all newer than what it took.
NewestKept ==
  \A c \in subscribers :
    /\ IsRun(channel[c], Latest(c))
    /\ seen[c] <= Latest(c) - Len(channel[c])

\* A client with nothing left to read has read the newest event published
\* since it subscribed, unless publish is just between making room in that
\* client's buffer and using it.
EmptyMeansCurrent ==
  \A c \in subscribers :
    channel[c] = <<>> => seen[c] = Latest(c) \/ (pc = "resend" /\ current = c)

\* publish never waits for a client: once entered it returns, although no
\* client is ever obliged to read ("keep the realtime path non-blocking").
PublishReturns == (pc # "idle") ~> (pc = "idle")

\* The bus and the sessions implement the feed the apps are promised: the
\* steps of the bus are steps of the feed whatever the clients do, and a
\* session that keeps running reaches the newest event.
Feed == INSTANCE RealtimeFeed WITH
  Horizon <- MaxEvents,
  published <- Announced,
  connected <- {c \in Clients : session[c] \in {"waiting", "writing"}},
  cursor <- seen
ImplementsFeed == Feed!FeedSafety /\ (SessionsRun => Feed!Reaches)
=============================================================================
