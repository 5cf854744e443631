----------------------------- MODULE MobileApp ------------------------------
(***************************************************************************)
(* The app's controller (apps/mobile/lib/src/state/app_controller.dart)    *)
(* with the requests and the realtime stream it awaits, and the hub it     *)
(* asks.  Dart runs one piece of code at a time, from one await to the     *)
(* next: an action is such a piece, or a step of the hub.  The calls that  *)
(* initialize, pair, createHome, commissionMatterDevice and selectHome     *)
(* make run side by side as the screens allow (app.dart), and an answer    *)
(* may be read from the hub long before it arrives.                        *)
(*                                                                         *)
(* A device has one state; its values are numbered, 0 stands for none.     *)
(***************************************************************************)
EXTENDS Naturals, SequencesExt

CONSTANTS
  Homes,       \* homes there are or may come to be
  Devices,     \* likewise
  NoHome,      \* "no home"
  HomeOf,      \* the home a device is registered in
  WithRooms,   \* the homes that have a room; the app cannot create one
  FirstHomes,  \* the homes when the app starts, in the order of creation:
               \* one sequence for each hub
  FirstStates, \* the states then; devices that are there have one
  Paired,      \* whether the app has a token then: TRUE, FALSE, or either
  Buffer,      \* the events the hub keeps for a stream, 128 in the code
  MaxCalls,    \* bound on calls at a time
  MaxVersion,  \* bound on the values of a state
  MaxFaults    \* bound on failing requests and connections

Calls == 1 .. MaxCalls

ASSUME AppAssumption ==
  /\ NoHome \notin Homes
  /\ HomeOf \in [Devices -> Homes]
  /\ WithRooms \subseteq Homes
  /\ FirstHomes \subseteq Seq(Homes)
  /\ FirstStates \in [Devices -> 0 .. MaxVersion]
  /\ Paired \subseteq BOOLEAN
  /\ Buffer \in Nat \ {0}
  /\ MaxCalls \in Nat \ {0}
  /\ MaxVersion \in Nat
  /\ MaxFaults \in Nat

VARIABLES
  hubHomes,    \* the homes table
  registered,  \* the devices table
  hubState,    \* the device_states table
  unsent,      \* the device whose new value is stored and not published yet
  token,       \* the phone holds a token of the hub
  paired,      \* AppController.paired
  homes,       \* AppController.homes
  selected,    \* AppController.selectedHomeId
  devices,     \* AppController.devices
  shown,       \* AppController._states
  loading,     \* AppController.loading
  failed,      \* AppController.errorMessage is set
  dashboard,   \* the dashboard is what was built last, see Build
  call,        \* the calls, and what they await
  stream,      \* the realtime stream: "none" is _events == null
  feed,        \* events on their way to the app
  faults,      \* failures so far
  overlapped,  \* history: a selectHome began while another call ran
  raced        \* history: a value missed the screen, see CurrentUnlessRaced

hub == <<hubHomes, registered, hubState, unsent>>
model == <<paired, homes, selected, devices>>
status == <<loading, failed, dashboard>>
link == <<stream, feed, faults>>
history == <<overlapped, raced>>
rest == <<link, history>>
vars == <<hubHomes, registered, hubState, unsent, token, paired, homes, selected,
          devices, shown, loading, failed, dashboard, call, stream, feed,
          faults, overlapped, raced>>

\* asked: the devices whose states are awaited; snap: those the hub has read.
NoCall == [op |-> "none", at |-> "off", home |-> NoHome,
           asked |-> {}, snap |-> <<>>, bad |-> FALSE]
Active(c) == call[c].at # "off"

Init ==
  /\ hubHomes \in FirstHomes
  /\ hubState = [d \in Devices |->
                   IF HomeOf[d] \in ToSet(hubHomes) THEN FirstStates[d] ELSE 0]
  /\ registered = {d \in Devices : hubState[d] # 0}
  /\ unsent = {}
  /\ token \in Paired
  /\ paired = FALSE
  /\ homes = <<>>
  /\ selected = NoHome
  /\ devices = {}
  /\ shown = [d \in Devices |-> 0]
  /\ loading = TRUE
  /\ failed = FALSE
  /\ dashboard = FALSE
  /\ call = [c \in Calls |->
       IF c = 1 THEN [NoCall EXCEPT !.op = "initialize", !.at = "token"]
                ELSE NoCall]
  /\ stream = "none"
  /\ feed = <<>>
  /\ faults = 0
  /\ overlapped = FALSE
  /\ raced = FALSE

-----------------------------------------------------------------------------
(* How calls begin, go on and end *)

\* notifyListeners: what the user can touch is what was built then.  Between
\* two notifications the fields change and the screen does not.
Build(isPaired) == dashboard' = (isPaired /\ homes # <<>>)

Await(c, step) == call' = [call EXCEPT ![c].at = step]

\* selectHome up to its first await, in a call that runs already
SelectIn(c, h) ==
  /\ selected' = h
  /\ call' = [call EXCEPT ![c].at = "lists", ![c].home = h]
  /\ overlapped' = (overlapped \/ \E b \in Calls \ {c} : Active(b))

\* The end of a call: the finally block of its try
Finally_ButCommission(c) ==
  /\ call' = [call EXCEPT ![c] = NoCall]
  /\ loading' = (loading /\ call[c].op = "commission")
Finally(c) ==
  /\ call' = [call EXCEPT ![c] = NoCall]
  /\ loading' = FALSE

\* What follows selectHome in its callers; it never throws.
Return(c, bad) ==
  /\ Finally(c)
  /\ failed' = bad
  /\ stream' = IF call[c].op \in {"initialize", "pair"} /\ stream = "none"
               THEN "connecting" ELSE stream
  /\ Build(paired)

\* An exception outside selectHome
Throw_Unpairs(c) ==
  /\ Finally(c)
  /\ failed' = TRUE
  /\ paired' = FALSE
  /\ UNCHANGED <<homes, selected, devices, shown, stream, history>>
  /\ Build(paired')
Throw(c) ==
  /\ Finally(c)
  /\ failed' = TRUE
  /\ paired' = (paired /\ call[c].op # "pair")
  /\ UNCHANGED <<homes, selected, devices, shown, stream, history>>
  /\ Build(paired')

Fault ==
  /\ faults < MaxFaults
  /\ faults' = faults + 1

\* An empty list is null on the wire: a nil slice of the store.  The app's
\* decoder fails on it.
Decodes(isEmpty) == ~isEmpty

-----------------------------------------------------------------------------
\* The buttons of the pairing screen, of the screen for the first home, and of
\* the dashboard to add a device.  None is enabled while something loads.
Offered(op) ==
  \/ op = "pair" /\ ~paired
  \/ op = "create" /\ paired /\ homes = <<>>
  \/ op = "commission" /\ dashboard

Tap(c, op) ==
  /\ ~Active(c)
  /\ Offered(op) /\ ~loading
  /\ call' = [call EXCEPT ![c] = [NoCall EXCEPT
                !.op = op, !.at = op, !.home = selected]]
  /\ loading' = TRUE
  /\ failed' = FALSE
  /\ Build(paired)
  /\ UNCHANGED <<hub, token, model, shown, rest>>

-----------------------------------------------------------------------------
(* initialize and pair *)

TokenRead(c) ==
  /\ call[c].at = "token"
  /\ paired' = token
  /\ IF token THEN Await(c, "homes") /\ UNCHANGED loading
              ELSE call' = [call EXCEPT ![c] = NoCall] /\ loading' = FALSE
  /\ UNCHANGED <<hub, token, homes, selected, devices, shown, failed,
                 dashboard, rest>>

PairAccepted(c) ==
  /\ call[c].at = "pair"
  /\ token' = TRUE
  /\ paired' = TRUE
  /\ Await(c, "homes")
  /\ UNCHANGED <<hub, homes, selected, devices, shown, status, rest>>

\* _loadDashboard
HomesArrive(c) ==
  /\ call[c].at = "homes"
  /\ Decodes(hubHomes = <<>>)
  /\ homes' = hubHomes
  /\ SelectIn(c, Head(hubHomes))
  /\ UNCHANGED <<hub, token, paired, devices, shown, status, link, raced>>

HomesUnreadable(c) ==
  /\ call[c].at = "homes"
  /\ ~Decodes(hubHomes = <<>>)
  /\ Throw(c)
  /\ UNCHANGED <<hub, token, feed, faults>>

\* A wrong code, a request that fails, or the phone's store of tokens
CallFails(c) ==
  /\ call[c].at \in {"token", "pair", "homes", "create", "commission"}
  /\ Fault
  /\ Throw(c)
  /\ UNCHANGED <<hub, token, feed>>

-----------------------------------------------------------------------------
(* createHome and commissionMatterDevice *)

\* The hub's part, for a home or a device it does not have
AddHome(h) ==
  /\ \A i \in 1 .. Len(hubHomes) : hubHomes[i] # h
  /\ hubHomes' = Append(hubHomes, h)
AddDevice(d, h) ==
  /\ d \notin registered
  /\ HomeOf[d] = h
  /\ registered' = registered \cup {d}

HomeCreated(c) ==
  /\ call[c].at = "create"
  /\ \E h \in Homes :
       /\ AddHome(h)
       /\ homes' = Append(homes, h)
       /\ SelectIn(c, h)
  /\ UNCHANGED <<registered, hubState, unsent, token, paired, devices, shown,
                 status, link, raced>>

DeviceCommissioned(c) ==
  /\ call[c].at = "commission"
  /\ \E d \in Devices : AddDevice(d, call[c].home)
  /\ SelectIn(c, call[c].home)
  /\ UNCHANGED <<hubHomes, hubState, unsent, token, paired, homes, devices,
                 shown, status, link, raced>>

\* The Matter server does not commission it.
DeviceRefused(c) ==
  /\ call[c].at = "commission"
  /\ Throw(c)
  /\ UNCHANGED <<hub, token, feed, faults>>

\* The hub did what was asked, and the app never hears of it.
AnswerLost(c) ==
  /\ \/ /\ call[c].at = "create"
        /\ \E h \in Homes : AddHome(h)
        /\ UNCHANGED registered
     \/ /\ call[c].at = "commission"
        /\ \E d \in Devices : AddDevice(d, call[c].home)
        /\ UNCHANGED hubHomes
  /\ Fault
  /\ Throw(c)
  /\ UNCHANGED <<hubState, unsent, token, feed>>

-----------------------------------------------------------------------------
(* selectHome *)

\* From the menu, or to refresh: neither looks at loading.
Select(c, h) ==
  /\ dashboard
  /\ \/ Len(homes) > 1 /\ \E i \in 1 .. Len(homes) : h = homes[i]
     \/ h = selected
  /\ ~Active(c)
  /\ loading' = TRUE
  /\ selected' = h
  /\ call' = [call EXCEPT ![c] = [NoCall EXCEPT
                !.op = "select", !.at = "lists", !.home = h]]
  /\ overlapped' = (overlapped \/ \E b \in Calls : Active(b))
  /\ Build(paired)
  /\ UNCHANGED <<hub, token, paired, homes, devices, shown, failed, link,
                 raced>>

\* The hub reads the rooms and the devices of the home.
HubLists(c) ==
  /\ call[c].at = "lists"
  /\ call' = [call EXCEPT ![c].at = "listed",
        ![c].asked = {d \in registered : HomeOf[d] = call[c].home}]
  /\ UNCHANGED <<hub, token, model, shown, status, rest>>

ListsArrive(c) ==
  /\ call[c].at = "listed"
  /\ Decodes(call[c].home \notin WithRooms)
  /\ Decodes(call[c].asked = {})
  /\ devices' = call[c].asked
  /\ Await(c, "states")
  /\ UNCHANGED <<hub, token, paired, homes, selected, shown, status, rest>>

ListsUnreadable(c) ==
  /\ call[c].at = "listed"
  /\ ~Decodes(call[c].home \notin WithRooms) \/ ~Decodes(call[c].asked = {})
  /\ Return(c, TRUE)
  /\ UNCHANGED <<hub, token, model, shown, feed, faults, history>>

ListsFail_Unnoticed(c) ==
  /\ call[c].at \in {"lists", "listed"}
  /\ Fault
  /\ Return(c, FALSE)
  /\ UNCHANGED <<hub, token, model, shown, feed, history>>
ListsFail(c) ==
  /\ call[c].at \in {"lists", "listed"}
  /\ Fault
  /\ Return(c, TRUE)
  /\ UNCHANGED <<hub, token, model, shown, feed, history>>

\* _loadDevice, for all devices at once
HubReads_Again(c, d) ==
  /\ call[c].at = "states"
  /\ d \in call[c].asked
  /\ call' = [call EXCEPT ![c].snap = [e \in DOMAIN @ \cup {d} |->
                       IF e = d THEN hubState[d] ELSE @[e]]]
  /\ UNCHANGED <<hub, token, model, shown, status, rest>>
HubReads(c, d) ==
  /\ call[c].at = "states"
  /\ d \in call[c].asked
  /\ call' = [call EXCEPT ![c].asked = @ \ {d},
        ![c].snap = [e \in DOMAIN @ \cup {d} |->
                       IF e = d THEN hubState[d] ELSE @[e]]]
  /\ UNCHANGED <<hub, token, model, shown, status, rest>>

StatesArrive(c, d) ==
  /\ call[c].at = "states"
  /\ d \in DOMAIN call[c].snap
  /\ LET v == call[c].snap[d] IN
       /\ shown' = IF Decodes(v = 0) THEN [shown EXCEPT ![d] = v] ELSE shown
       /\ call' = [call EXCEPT
            ![c].snap = [e \in DOMAIN @ \ {d} |-> @[e]],
            ![c].bad = @ \/ ~Decodes(v = 0)]
  /\ UNCHANGED <<hub, token, model, status, rest>>

StatesFail(c, d) ==
  /\ call[c].at = "states"
  /\ d \in call[c].asked
  /\ Fault
  /\ call' = [call EXCEPT ![c].asked = @ \ {d}, ![c].bad = TRUE]
  /\ UNCHANGED <<hub, token, model, shown, status, stream, feed, history>>

AllLoaded(c) ==
  /\ call[c].at = "states"
  /\ call[c].asked = {}
  /\ DOMAIN call[c].snap = {}
  /\ Return(c, call[c].bad)
  /\ UNCHANGED <<hub, token, model, shown, feed, faults, history>>

-----------------------------------------------------------------------------
(* The realtime stream *)

Connected ==
  /\ stream = "connecting"
  /\ stream' = "open"
  /\ UNCHANGED <<hub, token, model, shown, status, call, feed, faults,
                 history>>

\* The subscription stays: _listenRealtime does nothing from now on, and the
\* events that were not read are lost.
StreamEnds ==
  /\ stream \in {"connecting", "open"}
  /\ Fault
  /\ stream' = "ended"
  /\ feed' = <<>>
  /\ \/ failed' = TRUE /\ Build(paired)
     \/ UNCHANGED <<failed, dashboard>>
  /\ raced' = (raced \/ feed # <<>>)
  /\ UNCHANGED <<hub, token, model, shown, loading, call, overlapped>>

EventArrives_IfListed ==
  /\ feed # <<>>
  /\ feed' = Tail(feed)
  /\ shown' = IF Head(feed).device \in devices
              THEN [shown EXCEPT ![Head(feed).device] = Head(feed).value]
              ELSE shown
  /\ Build(paired)
  /\ UNCHANGED <<hub, token, model, loading, failed, call, stream, faults,
                 history>>
EventArrives ==
  /\ feed # <<>>
  /\ feed' = Tail(feed)
  /\ shown' = [shown EXCEPT ![Head(feed).device] = Head(feed).value]
  /\ Build(paired)
  /\ UNCHANGED <<hub, token, model, loading, failed, call, stream, faults,
                 history>>

\* The hub stores a new value.  It races with an answer that carries the old
\* one.
Store(d) ==
  /\ unsent = {}
  /\ d \in registered
  /\ hubState[d] < MaxVersion
  /\ hubState' = [hubState EXCEPT ![d] = @ + 1]
  /\ unsent' = {d}
  /\ raced' = (raced \/ \E c \in Calls : d \in DOMAIN call[c].snap)
  /\ UNCHANGED <<hubHomes, registered, token, model, shown, status, call, link,
                 overlapped>>

\* The hub drops the oldest event of a full buffer, which holds the last ones
\* of the feed: those before it have been written.  The value is lost unless
\* the buffer has a newer one of that device.
MakeRoom(event) ==
  LET oldest == Len(feed) - Buffer + 1
      behind == {feed[i].device : i \in oldest + 1 .. Len(feed)} IN
  /\ oldest > 0
  /\ feed' = Append(RemoveAt(feed, oldest), event)
  /\ raced' = (raced \/ feed[oldest].device \notin behind \cup {event.device})

\* ... and publishes it.  A stream that is not open yet, or any more, does not
\* get it.
Publish(d) ==
  /\ d \in unsent
  /\ unsent' = {}
  /\ LET event == [device |-> d, value |-> hubState[d]] IN
       \/ stream = "open" /\ feed' = Append(feed, event) /\ raced' = raced
       \/ stream = "open" /\ MakeRoom(event)
       \/ /\ stream # "open"
          /\ feed' = feed
          /\ raced' = (raced \/ shown[d] \notin {0, event.value})
  /\ UNCHANGED <<hubHomes, registered, hubState, token, model, shown, status,
                 call, stream, faults, overlapped>>

-----------------------------------------------------------------------------
\* A call goes on: the hub answers, or the answer arrives.
Proceed(c) ==
  \/ TokenRead(c) \/ PairAccepted(c) \/ HomesArrive(c) \/ HomesUnreadable(c)
  \/ HomeCreated(c) \/ DeviceCommissioned(c) \/ DeviceRefused(c)
  \/ HubLists(c) \/ ListsArrive(c) \/ ListsUnreadable(c)
  \/ \E d \in Devices : HubReads(c, d) \/ StatesArrive(c, d)
  \/ AllLoaded(c)

Fails(c) ==
  \/ CallFails(c) \/ AnswerLost(c)
  \/ ListsFail(c)
  \/ \E d \in Devices : StatesFail(c, d)

User(c) ==
  \/ \E op \in {"pair", "create", "commission"} : Tap(c, op)
  \/ \E h \in Homes : Select(c, h)

Next ==
  \/ \E c \in Calls : Proceed(c) \/ Fails(c) \/ User(c)
  \/ Connected \/ StreamEnds \/ EventArrives
  \/ \E d \in Devices : Store(d) \/ Publish(d)

Spec == Init /\ [][Next]_vars

\* The hub answers, or the request fails.
FairSpec == Spec /\ \A c \in Calls : WF_vars(Proceed(c) \/ Fails(c))

-----------------------------------------------------------------------------
(* Properties *)

\* The states an answer carries, and what a call is
Answers == UNION {[D -> 0 .. MaxVersion] : D \in SUBSET Devices}
CallRecords ==
  [op : {"none", "initialize", "pair", "create", "commission", "select"},
   at : {"off", "token", "pair", "homes", "create", "commission", "lists",
         "listed", "states"},
   home : Homes \cup {NoHome}, asked : SUBSET Devices, snap : Answers,
   bad : BOOLEAN]
Events == [device : Devices, value : 0 .. MaxVersion]

KeepsWhatItAwaits(r) ==
  /\ r.at \in {"lists", "listed", "states"} => r.home \in Homes
  /\ r.asked # {} => r.at \in {"listed", "states"}
  /\ DOMAIN r.snap # {} => r.at = "states"
  /\ DOMAIN r.snap \cap r.asked = {}

\* Type invariant; a call keeps what it awaits, and only that.
TypeOK ==
  /\ hubHomes \in Seq(Homes) /\ homes \in Seq(Homes)
  /\ registered \in SUBSET Devices /\ devices \in SUBSET Devices
  /\ hubState \in [Devices -> 0 .. MaxVersion]
  /\ shown \in [Devices -> 0 .. MaxVersion]
  /\ unsent \in SUBSET Devices
  /\ token \in BOOLEAN /\ paired \in BOOLEAN
  /\ loading \in BOOLEAN /\ failed \in BOOLEAN /\ dashboard \in BOOLEAN
  /\ overlapped \in BOOLEAN /\ raced \in BOOLEAN
  /\ selected \in Homes \cup {NoHome}
  /\ stream \in {"none", "connecting", "open", "ended"}
  /\ feed \in Seq(Events)
  /\ faults \in 0 .. MaxFaults
  /\ call \in [Calls -> CallRecords]
  /\ \A c \in Calls : KeepsWhatItAwaits(call[c])

Idle == \A c \in Calls : ~Active(c)

\* AppController.loading does not stay set, whatever fails and however the calls
\* overlap: the finally blocks of all of them reset the one flag they share.
Settles == loading ~> ~loading

\* With one call at a time and no error to show, the devices that selectHome
\* left on the screen are those of the home in its title.
OneByOneShowsHome ==
  Idle /\ ~overlapped /\ ~failed => \A d \in devices : HomeOf[d] = selected

\* The same when a home is selected before the answers for another have come,
\* and no request fails.
ShowsSelectedHome ==
  Idle /\ faults = 0 /\ ~failed => \A d \in devices : HomeOf[d] = selected

Quiet == Idle /\ feed = <<>> /\ unsent = {}

\* Between _loadDevice and the events, a state on the screen is current, unless
\* one of four things has happened: a value changed while an answer with the one
\* before was on its way (Store), or the event of a new value was published while
\* the stream was not open (Publish), dropped by the hub to make room for one of
\* another device (MakeRoom), or unread when the stream ended (StreamEnds).
CurrentUnlessRaced ==
  Quiet /\ ~raced =>
    \A d \in Devices : shown[d] # 0 => shown[d] = hubState[d]

\* Between _loadDevice and the events, a state on the screen is current while
\* the stream is open.
ShowsCurrent ==
  Quiet /\ stream = "open" =>
    \A d \in Devices : shown[d] # 0 => shown[d] = hubState[d]

\* When the hub has taken the pairing code, the token is stored and no request
\* failed, pair leaves the app paired.
PairingHolds == Idle /\ token /\ faults = 0 => paired

\* It does on a hub that has a home: the null of an empty list is the only way
\* in which an app that failed at nothing has a token and is not paired.
PairingHoldsWithHomes ==
  Idle /\ token /\ faults = 0 /\ hubHomes # <<>> => paired
=============================================================================
