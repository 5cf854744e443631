---------------------------- MODULE RealtimeFeed ----------------------------
(***************************************************************************)
(* What the hub promises to the apps on WS /api/v1/events, with the        *)
(* buffers, the lock and the goroutines left out.  State changes are       *)
(* numbered in the order they are announced.  A connected client only ever *)
(* moves forward through them: it may skip events (a slow client loses the *)
(* older ones), it never sees one twice nor an older one after a newer     *)
(* one, and as long as it stays connected it reaches the newest.           *)
(***************************************************************************)
EXTENDS Naturals

CONSTANTS
  Clients,  \* the WebSocket clients
  Horizon   \* bound on the events the promise below is stated for

VARIABLES
  published,  \* how many state changes have been announced
  connected,  \* the clients whose subscription is served
  cursor      \* the last event each client took, or where it subscribed

feedVars == <<published, connected, cursor>>

FeedInit ==
  /\ published = 0
  /\ connected = {}
  /\ cursor = [c \in Clients |-> 0]

Announce ==
  /\ published' = published + 1
  /\ UNCHANGED <<connected, cursor>>

Connect(c) ==
  /\ c \notin connected
  /\ connected' = connected \cup {c}
  /\ cursor' = [cursor EXCEPT ![c] = published]
  /\ UNCHANGED published

Deliver(c) ==
  /\ c \in connected
  /\ \E e \in (cursor[c] + 1) .. published :
       cursor' = [cursor EXCEPT ![c] = e]
  /\ UNCHANGED <<published, connected>>

Leave(c) ==
  /\ c \in connected
  /\ connected' = connected \ {c}
  /\ UNCHANGED <<published, cursor>>

FeedNext ==
  \/ Announce
  \/ \E c \in Clients : Connect(c) \/ Deliver(c) \/ Leave(c)

FeedSafety == FeedInit /\ [][FeedNext]_feedVars

\* A connected client is not left behind: for every event announced to it,
\* it comes to that event or to a newer one, or it leaves.
Reaches ==
  \A c \in Clients, e \in 1 .. Horizon :
    (c \in connected /\ published >= e) ~> (c \notin connected \/ cursor[c] >= e)

FeedSpec == FeedSafety /\ Reaches
=============================================================================
