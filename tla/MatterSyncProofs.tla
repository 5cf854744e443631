-------------------------- MODULE MatterSyncProofs --------------------------
(***************************************************************************)
(* Synced, for any nodes, attributes and bounds: a listener that waits     *)
(* with nothing under way has missed no value.                             *)
(*                                                                         *)
(* The order of the pipeline (MatterEventsProofs) says that what is on its *)
(* way is not too new; the invariant below says that something on its way  *)
(* is new enough: behind every outdated value a current one waits, and the *)
(* answer to start_listening covers what changed without a connection.     *)
(***************************************************************************)
EXTENDS MatterEventsProofs

-----------------------------------------------------------------------------
(* What keeps a value from being missed *)

\* The i-th message carries the actual value of k; some message does.
Entry(i, k) == k \in DOMAIN stream[i].items /\ stream[i].items[k] = actual[k]
Pending(k) == \E i \in Slots : Entry(i, k)

\* Nothing is left to do for k: no one cares for its value, or it has arrived.
Done(k) ==
  \/ k[1] \notin devices
  \/ ~Reportable(k, actual[k])
  \/ stored[k] = actual[k] /\ announced[k] = actual[k]
  \/ k[1] \notin Imported /\ announced[k] = 0 /\ stored[k] = 0

\* A node joins the fabric with all its attributes, and only then becomes a
\* device; a node that is no device leaves no trace in the tables.
Registered ==
  /\ \A k, l \in Keys : k[1] = l[1] /\ actual[k] # 0 => actual[l] # 0
  /\ \A k \in Keys : k[1] \in devices => actual[k] # 0
  /\ \A k \in Keys : k[1] \notin devices => stored[k] = 0 /\ announced[k] = 0
  /\ Imported \subseteq devices
  /\ pc \in {"persisting", "announcing"} => key[1] \in devices

\* No message waits without a connection, and only a message being dispatched
\* has attributes to do.
Connected ==
  /\ pc \in {"dialing", "backoff"} => server = "off"
  /\ server = "off" => stream = <<>>
  /\ pc \in {"dialing", "calling", "reading", "backoff"} => todo = {}

\* Behind an outdated value a newer one waits, wherever it is found.
Followed ==
  Listening =>
    /\ \A i \in Slots : \A k \in DOMAIN stream[i].items :
         \E j \in Slots : j >= i /\ Entry(j, k)
    /\ \A k \in todo : batch[k] = actual[k] \/ Pending(k)

\* Until the listener has met the answer to start_listening it holds, or what
\* follows it, all there is to know.
Answered ==
  pc = "calling" /\ server = "answered" =>
    \E r \in Slots :
      /\ stream[r].type = "result"
      /\ \A k \in Keys : actual[k] # 0 => \E i \in Slots : i >= r /\ Entry(i, k)

\* From then on every value is on its way or has arrived.
Covered ==
  pc \in {"looking", "persisting", "announcing", "reading"} /\ server = "answered" =>
    \A k \in Keys : actual[k] # 0 =>
      Pending(k) \/ (k \in todo /\ batch[k] = actual[k]) \/ Done(k)

SyncInv == Registered /\ Connected /\ Followed /\ Answered /\ Covered
IInv == Inv /\ SyncInv

LEMMA SyncInit == Init => SyncInv
<1> SUFFICES ASSUME Init PROVE SyncInv
  OBVIOUS
<1>1. Registered
  BY EventsAssumption DEF Init, Registered
<1>2. Connected /\ Followed /\ Answered /\ Covered
  BY DEF Init, Connected, Followed, Answered, Covered, Listening
<1> QED
  BY <1>1, <1>2 DEF SyncInv

\* A quiet listener has nothing on its way, so every value has arrived.
LEMMA SyncedFromInv == IInv => Synced
<1> SUFFICES ASSUME IInv, Quiet, NEW k \in Keys, k[1] \in devices,
                    Reportable(k, actual[k])
             PROVE  \/ stored[k] = actual[k] /\ announced[k] = actual[k]
                    \/ k[1] \notin Imported /\ announced[k] = 0 /\ stored[k] = 0
  BY DEF Synced
<1>1. actual[k] # 0 /\ todo = {}
  BY DEF Quiet, IInv, SyncInv, Registered, Connected
<1>2. ~Pending(k)
  BY DEF Quiet, Pending, Slots
<1> QED
  BY <1>1, <1>2 DEF Quiet, IInv, SyncInv, Covered, Done

-----------------------------------------------------------------------------
(* The steps that send *)

\* A sending step, with its message.
Sending(m) ==
  /\ m \in Messages
  /\ Emit(m)
  /\ UNCHANGED <<devices, stored, announced, batch, todo, key, pc>>
  /\ \A k \in DOMAIN m.items : m.items[k] = actual'[k]
  /\ \A k \in Keys : k \in DOMAIN m.items \/ actual'[k] = actual[k]

\* The message is current, and a value that was on its way still is: as it
\* was, or further back with the message.
LEMMA SentEntries ==
  ASSUME TypeOK, Listening, NEW m, Sending(m), NEW last, last = Len(stream) + 1
  PROVE  /\ last \in Slots' /\ last \in Nat
         /\ \A i \in Slots : i \in Slots' /\ i \in Nat /\ i <= last
                             /\ stream'[i] = stream[i]
         /\ \A i \in Slots' : i \in Slots \/ i = last
         /\ stream'[last] = m
         /\ \A k \in DOMAIN m.items : Entry(last, k)'
         /\ \A i \in Slots, k \in Keys :
              Entry(i, k) => \E j \in Slots' : j >= i /\ Entry(j, k)'
<1>1. /\ stream' = Append(stream, m)
      /\ stream \in Seq(Messages)
      /\ m \in Messages
  BY DEF Sending, Emit, TypeOK
<1>2. /\ Len(stream) \in Nat
      /\ Len(stream') = Len(stream) + 1
      /\ \A i \in 1 .. Len(stream) : stream'[i] = stream[i]
      /\ stream'[last] = m
  BY <1>1, Appended
<1>3. /\ last \in Slots' /\ last \in Nat
      /\ \A i \in Slots : i \in Slots' /\ i \in Nat /\ i <= last
                          /\ stream'[i] = stream[i]
      /\ \A i \in Slots' : i \in Slots \/ i = last
  BY <1>2 DEF Slots
<1>4. \A k \in DOMAIN m.items : Entry(last, k)'
  BY <1>2 DEF Entry, Sending
<1>5. ASSUME NEW i \in Slots, NEW k \in Keys, Entry(i, k)
      PROVE  \E j \in Slots' : j >= i /\ Entry(j, k)'
  <2>1. CASE k \in DOMAIN m.items
    BY <1>2, <1>3, <1>4, <2>1
  <2>2. CASE k \notin DOMAIN m.items
    <3>1. Entry(i, k)'
      BY <1>3, <1>5, <2>2 DEF Entry, Sending
    <3> QED
      BY <1>3, <3>1
  <2> QED
    BY <2>1, <2>2
<1> QED
  BY <1>2, <1>3, <1>4, <1>5

\* What waits behind an outdated value, before and after.
LEMMA SendFollowed ==
  ASSUME TypeOK, Followed, NEW m, Sending(m), Listening' => Listening
  PROVE  Followed'
<1> SUFFICES ASSUME Listening', Listening
             PROVE  /\ \A i \in Slots' : \A k \in DOMAIN stream'[i].items :
                         \E j \in Slots' : j >= i /\ Entry(j, k)'
                    /\ \A k \in todo' :
                         batch'[k] = actual'[k] \/ \E j \in Slots' : Entry(j, k)'
  BY DEF Followed, Pending
<1>p. PICK last : last = Len(stream) + 1
  OBVIOUS
<1> USE <1>p
<1>1. ASSUME NEW i \in Slots', NEW k \in DOMAIN stream'[i].items
      PROVE  \E j \in Slots' : j >= i /\ Entry(j, k)'
  <2>1. CASE i = last
    BY <2>1, SentEntries
  <2>2. CASE i \in Slots
    <3>1. k \in DOMAIN stream[i].items /\ k \in Keys
      BY <2>2, SentEntries, StreamType DEF TypeOK
    <3>2. PICK j \in Slots : j >= i /\ Entry(j, k)
      BY <2>2, <3>1 DEF Followed
    <3>3. PICK l \in Slots' : l >= j /\ Entry(l, k)'
      BY <3>1, <3>2, SentEntries
    <3>4. i \in Nat /\ j \in Nat /\ l \in Nat
      BY <2>2, SentEntries
    <3> QED
      BY <3>2, <3>3, <3>4
  <2> QED
    BY <2>1, <2>2, SentEntries
<1>2. ASSUME NEW k \in todo'
      PROVE  batch'[k] = actual'[k] \/ \E j \in Slots' : Entry(j, k)'
  <2>1. k \in todo /\ k \in Keys /\ batch' = batch
    BY ItemsType DEF Sending, TypeOK
  <2>2. CASE k \in DOMAIN m.items
    BY <2>2, SentEntries
  <2>3. CASE batch[k] = actual[k] /\ k \notin DOMAIN m.items
    BY <2>1, <2>3 DEF Sending
  <2>4. CASE Pending(k)
    BY <2>1, <2>4, SentEntries DEF Pending
  <2> QED
    BY <2>1, <2>2, <2>3, <2>4 DEF Followed
<1> QED
  BY <1>1, <1>2

\* A listener that is answered stays covered.
LEMMA SendCovered ==
  ASSUME TypeOK, SyncInv, NEW m, Sending(m), server = "answered"
  PROVE  Answered' /\ Covered'
<1>p. PICK last : last = Len(stream) + 1
  OBVIOUS
<1> USE <1>p
<1>0. Listening
  BY DEF Listening
<1>1. ASSUME NEW k \in Keys, k \notin DOMAIN m.items
      PROVE  actual'[k] = actual[k]
  BY <1>1 DEF Sending
<1>2. ASSUME (pc = "calling")'
      PROVE  \E r \in Slots' :
               /\ stream'[r].type = "result"
               /\ \A k \in Keys : actual'[k] # 0 =>
                    \E i \in Slots' : i >= r /\ Entry(i, k)'
  <2>1. PICK r \in Slots :
          /\ stream[r].type = "result"
          /\ \A k \in Keys : actual[k] # 0 => \E i \in Slots : i >= r /\ Entry(i, k)
    BY <1>2 DEF SyncInv, Answered, Sending
  <2>2. r \in Slots' /\ stream'[r] = stream[r] /\ r \in Nat /\ r <= last
    BY <1>0, SentEntries
  <2>3. ASSUME NEW k \in Keys, actual'[k] # 0
        PROVE  \E i \in Slots' : i >= r /\ Entry(i, k)'
    <3>1. CASE k \in DOMAIN m.items
      BY <1>0, <2>2, <3>1, SentEntries
    <3>2. CASE k \notin DOMAIN m.items
      <4>1. PICK i \in Slots : i >= r /\ Entry(i, k)
        BY <1>1, <2>1, <2>3, <3>2
      <4>2. PICK j \in Slots' : j >= i /\ Entry(j, k)'
        BY <1>0, <4>1, SentEntries
      <4>3. i \in Nat /\ j \in Nat
        BY <1>0, SentEntries
      <4> QED
        BY <2>2, <4>1, <4>2, <4>3
    <3> QED
      BY <3>1, <3>2
  <2> QED
    BY <2>1, <2>2, <2>3
<1>3. ASSUME NEW k \in Keys, actual'[k] # 0,
             (pc \in {"looking", "persisting", "announcing", "reading"})'
      PROVE  (Pending(k) \/ (k \in todo /\ batch[k] = actual[k]) \/ Done(k))'
  <2>1. CASE k \in DOMAIN m.items
    BY <1>0, <2>1, SentEntries DEF Pending
  <2>2. CASE k \notin DOMAIN m.items
    <3>1. Pending(k) \/ (k \in todo /\ batch[k] = actual[k]) \/ Done(k)
      BY <1>1, <1>3, <2>2 DEF SyncInv, Covered, Sending
    <3>2. CASE Pending(k)
      BY <1>0, <3>2, SentEntries DEF Pending
    <3>3. CASE (k \in todo /\ batch[k] = actual[k]) \/ Done(k)
      BY <1>1, <2>2, <3>3 DEF Sending, Done
    <3> QED
      BY <3>1, <3>2, <3>3
  <2> QED
    BY <2>1, <2>2
<1> QED
  BY <1>2, <1>3 DEF Answered, Covered

\* The answer to start_listening carries every value there is.
LEMMA AnswerCovers ==
  ASSUME TypeOK, Registered, NEW m, Sending(m), Listening,
         UNCHANGED actual, m.type = "result",
         \A k \in Keys : Joined(k[1]) => k \in DOMAIN m.items
  PROVE  Answered' /\ Covered'
<1>p. PICK last : last = Len(stream) + 1
  OBVIOUS
<1> USE <1>p
<1>1. ASSUME NEW k \in Keys, actual'[k] # 0
      PROVE  Entry(last, k)'
  <2>1. ASSUME NEW l \in KeysOf(k[1]) PROVE actual[l] # 0
    BY <1>1, <2>1 DEF KeysOf, Registered, Keys
  <2>2. Joined(k[1])
    BY <2>1 DEF Joined
  <2> QED
    BY <2>2, SentEntries
<1> QED
  BY <1>1, SentEntries DEF Answered, Covered, Pending

-----------------------------------------------------------------------------
(* The steps that take a message *)

\* A message that is not the first moves up by one.
LEMMA TakenEntries ==
  ASSUME TypeOK, stream # <<>>, stream' = Tail(stream), UNCHANGED actual
  PROVE  /\ 1 \in Slots
         /\ stream[1] = Head(stream)
         /\ \A i \in Slots : i \in Nat /\ i >= 1
         /\ \A i \in Slots' : i \in Nat /\ i + 1 \in Slots /\ stream'[i] = stream[i + 1]
         /\ \A i \in Slots : i # 1 =>
              /\ i - 1 \in Slots'
              /\ stream'[i - 1] = stream[i]
              /\ \A k \in Keys : Entry(i, k) => \E j \in Slots' : j = i - 1 /\ Entry(j, k)'
<1>1. /\ Len(stream) \in Nat
      /\ Len(stream) >= 1
      /\ Head(stream) = stream[1]
      /\ Len(stream') = Len(stream) - 1
      /\ \A i \in 1 .. Len(stream) - 1 : stream'[i] = stream[i + 1]
  BY Taken DEF TypeOK
<1>2. /\ 1 \in Slots
      /\ \A i \in Slots : i \in Nat /\ i >= 1
      /\ \A i \in Slots' : i \in Nat /\ i + 1 \in Slots /\ stream'[i] = stream[i + 1]
  BY <1>1 DEF Slots
<1>3. ASSUME NEW i \in Slots, i # 1
      PROVE  /\ i - 1 \in Slots'
             /\ stream'[i - 1] = stream[i]
             /\ \A k \in Keys : Entry(i, k) => \E j \in Slots' : j = i - 1 /\ Entry(j, k)'
  <2>1. PICK j : j = i - 1
    OBVIOUS
  <2>2. j \in Slots' /\ j \in Nat /\ j + 1 = i
    BY <1>1, <1>3, <2>1 DEF Slots
  <2>3. stream'[j] = stream[i]
    BY <1>2, <2>2
  <2> QED
    BY <2>1, <2>2, <2>3 DEF Entry
<1> QED
  BY <1>1, <1>2, <1>3

\* The outdated values that are left are followed as they were.
LEMMA TakeFollowed ==
  ASSUME TypeOK, Followed, Connected, pc \in {"calling", "reading"},
         stream # <<>>, stream' = Tail(stream), UNCHANGED <<actual, server>>,
         \/ UNCHANGED <<batch, todo>>
         \/ batch' = Head(stream).items /\ todo' = DOMAIN Head(stream).items
  PROVE  Followed'
<1> SUFFICES ASSUME Listening
             PROVE  /\ \A i \in Slots' : \A k \in DOMAIN stream'[i].items :
                         \E j \in Slots' : j >= i /\ Entry(j, k)'
                    /\ \A k \in todo' :
                         batch'[k] = actual'[k] \/ \E j \in Slots' : Entry(j, k)'
  BY DEF Followed, Pending, Listening
<1>1. ASSUME NEW i \in Slots', NEW k \in DOMAIN stream'[i].items
      PROVE  \E j \in Slots' : j >= i /\ Entry(j, k)'
  <2>1. PICK n : n = i + 1
    OBVIOUS
  <2>2. n \in Slots /\ stream'[i] = stream[n] /\ i \in Nat /\ i >= 1
    BY <2>1, TakenEntries DEF Slots
  <2>3. k \in Keys
    BY <2>2, StreamType DEF TypeOK
  <2>4. PICK j \in Slots : j >= n /\ Entry(j, k)
    BY <2>2 DEF Followed
  <2>5. j # 1 /\ j \in Nat
    BY <2>1, <2>2, <2>4, TakenEntries
  <2>6. PICK l \in Slots' : l = j - 1 /\ Entry(l, k)'
    BY <2>3, <2>4, <2>5, TakenEntries
  <2> QED
    BY <2>1, <2>2, <2>4, <2>5, <2>6
<1>2. ASSUME NEW k \in todo', batch'[k] # actual'[k]
      PROVE  \E j \in Slots' : Entry(j, k)'
  <2>1. k \in DOMAIN stream[1].items /\ batch'[k] = stream[1].items[k]
    BY TakenEntries DEF Connected
  <2>2. k \in Keys
    BY <2>1, TakenEntries, StreamType DEF TypeOK
  <2>3. PICK j \in Slots : Entry(j, k)
    BY <2>1, TakenEntries DEF Followed
  <2>4. j # 1
    BY <1>2, <2>1, <2>3 DEF Entry
  <2> QED
    BY <2>2, <2>3, <2>4, TakenEntries
<1> QED
  BY <1>1, <1>2

\* What is passed over comes before the answer.
LEMMA SkipAnswered ==
  ASSUME TypeOK, Answered, SkipUnmatched
  PROVE  Answered' /\ Covered'
<1> SUFFICES ASSUME server = "answered"
             PROVE  \E r \in Slots' :
                      /\ stream'[r].type = "result"
                      /\ \A k \in Keys : actual'[k] # 0 =>
                           \E i \in Slots' : i >= r /\ Entry(i, k)'
  BY DEF Answered, Covered, SkipUnmatched
<1>0. stream # <<>> /\ stream' = Tail(stream) /\ UNCHANGED actual
      /\ Head(stream).type # "result"
  BY DEF SkipUnmatched
<1>1. PICK r \in Slots :
        /\ stream[r].type = "result"
        /\ \A k \in Keys : actual[k] # 0 => \E i \in Slots : i >= r /\ Entry(i, k)
  BY DEF Answered, SkipUnmatched
<1>2. r # 1
  BY <1>0, <1>1, TakenEntries
<1>3. PICK q \in Slots' : q = r - 1 /\ stream'[q] = stream[r]
  BY <1>0, <1>2, TakenEntries
<1>4. ASSUME NEW k \in Keys, actual'[k] # 0
      PROVE  \E i \in Slots' : i >= q /\ Entry(i, k)'
  <2>1. PICK i \in Slots : i >= r /\ Entry(i, k)
    BY <1>0, <1>1, <1>4
  <2>2. i # 1 /\ i \in Nat /\ r \in Nat
    BY <1>0, <1>2, <2>1, TakenEntries
  <2>3. PICK j \in Slots' : j = i - 1 /\ Entry(j, k)'
    BY <1>0, <2>1, <2>2, TakenEntries
  <2> QED
    BY <1>3, <2>1, <2>2, <2>3
<1> QED
  BY <1>1, <1>3, <1>4

\* What was on its way is now being dispatched, or still is on its way.
LEMMA TakeCovered ==
  ASSUME TypeOK, Answered, Covered, Connected, TakeResult \/ TakeEvent
  PROVE  Answered' /\ Covered'
<1>0. /\ stream # <<>> /\ stream' = Tail(stream)
      /\ UNCHANGED <<actual, devices, stored, announced, server>>
      /\ pc' = "looking"
      /\ batch' = stream[1].items /\ todo' = DOMAIN stream[1].items
  BY TakenEntries DEF TakeResult, TakeEvent, Dispatch, table
<1> SUFFICES ASSUME server = "answered", NEW k \in Keys, actual'[k] # 0
             PROVE  (Pending(k) \/ (k \in todo /\ batch[k] = actual[k]) \/ Done(k))'
  BY <1>0 DEF Answered, Covered
<1>1. ASSUME NEW i \in Slots, Entry(i, k)
      PROVE  Pending(k)' \/ (k \in todo' /\ batch'[k] = actual'[k])
  <2>1. CASE i = 1
    BY <1>0, <1>1, <2>1 DEF Entry
  <2>2. CASE i # 1
    BY <1>0, <1>1, <2>2, TakenEntries DEF Pending
  <2> QED
    BY <2>1, <2>2
<1>2. CASE TakeResult
  <2>1. \E i \in Slots : Entry(i, k)
    BY <1>0, <1>2 DEF TakeResult, Answered
  <2> QED
    BY <1>1, <2>1
<1>3. CASE TakeEvent
  <2>1. Pending(k) \/ Done(k)
    BY <1>0, <1>3 DEF TakeEvent, Covered, Connected
  <2>2. CASE Done(k)
    BY <1>0, <2>2 DEF Done
  <2> QED
    BY <1>1, <2>1, <2>2 DEF Pending
<1> QED
  BY <1>2, <1>3

-----------------------------------------------------------------------------
(* The steps that leave the stream alone *)

\* ApplyMatterAttribute on the attribute k: whoever is done with it either
\* has the actual value, or a newer one waits.
LEMMA ApplyCovered ==
  ASSUME Inv, SyncInv, server = "answered", NEW k \in Keys, actual[k] # 0,
         \/ \E j \in Keys : Ignore(j) \/ Accept(j)
         \/ Persist \/ Announce
  PROVE  (Pending(k) \/ (k \in todo /\ batch[k] = actual[k]) \/ Done(k))'
<1>0. UNCHANGED <<actual, devices, batch, stream>>
  BY DEF Ignore, Accept, Persist, Announce, table, local
<1>1. Pending(k) \/ (k \in todo /\ batch[k] = actual[k]) \/ Done(k)
  BY DEF SyncInv, Covered, Ignore, Accept, Persist, Announce
<1>2. k \in todo => batch[k] = actual[k] \/ Pending(k)
  BY DEF SyncInv, Followed, Listening
<1>3. CASE Pending(k)
  BY <1>0, <1>3 DEF Pending, Entry, Slots
<1>4. ASSUME NEW j \in Keys, Ignore(j), ~Pending(k)
      PROVE  (k \in todo /\ batch[k] = actual[k])' \/ Done(k)'
  BY <1>1, <1>4 DEF Ignore, Done, table
<1>5. ASSUME NEW j \in Keys, Accept(j), ~Pending(k)
      PROVE  (k \in todo /\ batch[k] = actual[k])' \/ Done(k)'
  BY <1>1, <1>5 DEF Accept, Done, table
<1>6. CASE Persist /\ ~Pending(k)
  <2>1. key \in todo /\ UNCHANGED <<todo, announced>>
        /\ \A j \in Keys : j # key => stored'[j] = stored[j]
    BY <1>6 DEF Persist, Inv, TypeOK, local
  <2>2. CASE k = key
    BY <1>0, <1>2, <1>6, <2>1, <2>2
  <2>3. CASE k # key
    BY <1>0, <1>1, <1>6, <2>1, <2>3 DEF Done
  <2> QED
    BY <2>2, <2>3
<1>7. CASE Announce /\ ~Pending(k)
  <2>1. /\ key \in todo /\ todo' = todo \ {key} /\ UNCHANGED stored
        /\ \A j \in Keys : j # key => announced'[j] = announced[j]
        /\ stored[key] = batch[key]
        /\ key \in Keys => announced'[key] = batch[key]
    BY <1>7 DEF Announce, Inv, TypeOK, OrderInv
  <2>2. CASE k = key
    BY <1>0, <1>2, <1>7, <2>1, <2>2 DEF Done
  <2>3. CASE k # key
    BY <1>0, <1>1, <1>7, <2>1, <2>3 DEF Done
  <2> QED
    BY <2>2, <2>3
<1> QED
  BY <1>3, <1>4, <1>5, <1>6, <1>7

\* The invariant holds of a listener that is not connected.
LEMMA CloseKeepsSync ==
  ASSUME stream' = <<>>, todo' = {}, server' = "off",
         pc' \in {"dialing", "backoff"}
  PROVE  Connected' /\ Followed' /\ Answered' /\ Covered'
  BY DEF Connected, Followed, Answered, Covered, Listening

-----------------------------------------------------------------------------
(* Every step *)

LEMMA RegisteredStep ==
  ASSUME Inv, Registered, [Next]_vars
  PROVE  Registered'
<1> USE EventsAssumption DEF table, local, Registered
<1>0. /\ \A k \in Keys : actual[k] \in Nat
      /\ Inv /\ TypeOK
      /\ actual \in [Keys -> Versions]
      /\ stored \in [Keys -> Versions]
      /\ announced \in [Keys -> Versions]
  BY DEF Inv, TypeOK, Versions
<1>1. ASSUME NEW k \in Keys, ValueChanges(k) PROVE Registered'
  <2>1. /\ UNCHANGED <<devices, stored, announced, pc, key>>
        /\ \A l \in Keys : actual'[l] # 0 <=> actual[l] # 0
    BY <1>0, <1>1 DEF ValueChanges
  <2> QED
    BY <2>1
<1>2. ASSUME NEW n \in Nodes, NodeJoins(n) PROVE Registered'
  <2>1. /\ UNCHANGED <<devices, stored, announced, pc, key>>
        /\ \A l \in Keys : actual'[l] = IF l[1] = n THEN 1 ELSE actual[l]
    BY <1>0, <1>2 DEF NodeJoins, KeysOf, Keys
  <2> QED
    BY <2>1
<1>3. ASSUME NEW n \in Nodes, Import(n) PROVE Registered'
  <2>1. /\ UNCHANGED <<actual, stored, announced, pc, key>>
        /\ devices' = devices \cup {n}
        /\ \A l \in KeysOf(n) : actual[l] # 0
    BY <1>3 DEF Import, Joined
  <2>2. \A l \in Keys : l[1] = n => actual[l] # 0
    BY <2>1 DEF KeysOf, Keys
  <2> QED
    BY <2>1, <2>2
<1>4. ASSUME NEW k \in Keys, Ignore(k) \/ Accept(k) PROVE Registered'
  BY <1>0, <1>4 DEF Ignore, Accept, TypeOK
<1>5. CASE Persist
  <2>1. \A l \in Keys : l # key => stored'[l] = stored[l]
    BY <1>0, <1>5 DEF Persist
  <2> QED
    BY <1>5, <2>1 DEF Persist
<1>6. CASE Announce
  <2>1. \A l \in Keys : l # key => announced'[l] = announced[l]
    BY <1>0, <1>6 DEF Announce
  <2> QED
    BY <1>6, <2>1 DEF Announce
<1>7. CASE Restart
  BY <1>7 DEF Restart
<1>8. /\ UNCHANGED <<actual, devices, stored, announced>>
      /\ pc' \in {"persisting", "announcing"} => UNCHANGED <<pc, key>>
      => Registered'
  OBVIOUS
<1>9. \/ \E k \in Keys : ValueChanges(k) \/ Ignore(k) \/ Accept(k)
      \/ \E n \in Nodes : NodeJoins(n) \/ Import(n)
      \/ Persist \/ Announce \/ Restart
      \/ /\ UNCHANGED <<actual, devices, stored, announced>>
         /\ pc' \in {"persisting", "announcing"} => UNCHANGED <<pc, key>>
  BY DEF Next, Listener, Failure, vars, NodeUpdated, ServerSubscribes,
     ServerAnswers, Dial, SkipUnmatched, TakeResult, TakeEvent, TakeShutdown,
     ReadFails, EndBatch, Retry, DialFails, LookupFails, PersistFails,
     ServerStops, ConnectionBreaks, Close, Dispatch
<1> QED
  BY <1>1, <1>2, <1>3, <1>4, <1>5, <1>6, <1>7, <1>8, <1>9

LEMMA ConnectedStep ==
  ASSUME Inv, Connected, [Next]_vars
  PROVE  Connected'
<1> USE DEF table, local, Connected, Emit, Listening
<1>1. ASSUME NEW k \in Keys, ValueChanges(k) \/ Ignore(k) \/ Accept(k)
      PROVE  Connected'
  BY <1>1 DEF ValueChanges, Ignore, Accept
<1>2. ASSUME NEW n \in Nodes, NodeJoins(n) \/ NodeUpdated(n) \/ Import(n)
      PROVE  Connected'
  BY <1>2 DEF NodeJoins, NodeUpdated, Import
<1>3. CASE ServerSubscribes \/ ServerAnswers \/ ServerStops \/ ConnectionBreaks
  BY <1>3 DEF ServerSubscribes, ServerAnswers, ServerStops, ConnectionBreaks
<1>4. CASE Dial \/ Retry \/ EndBatch
  BY <1>4 DEF Dial, Retry, EndBatch
<1>5. CASE SkipUnmatched \/ TakeResult \/ TakeEvent
  BY <1>5 DEF SkipUnmatched, TakeResult, TakeEvent, Dispatch
<1>6. CASE DialFails \/ TakeShutdown \/ ReadFails \/ LookupFails \/ PersistFails
            \/ Restart
  BY <1>6, CloseKeepsSync
  DEF DialFails, TakeShutdown, ReadFails, LookupFails, PersistFails, Restart, Close
<1>7. CASE Persist \/ Announce \/ UNCHANGED vars
  BY <1>7 DEF Persist, Announce, vars
<1> QED
  BY <1>1, <1>2, <1>3, <1>4, <1>5, <1>6, <1>7 DEF Next, Listener, Failure

LEMMA SyncStep ==
  ASSUME IInv, [Next]_vars
  PROVE  Followed' /\ Answered' /\ Covered'
<1> USE DEF table, local
<1>0. Inv /\ TypeOK /\ SyncInv /\ Registered /\ Connected /\ Followed /\ Answered
      /\ Covered
  BY DEF IInv, SyncInv, Inv
<1>1. ASSUME NEW m, Sending(m), UNCHANGED server
      PROVE  Followed' /\ Answered' /\ Covered'
  BY <1>0, <1>1, SendFollowed, SendCovered DEF Listening, Answered, Covered
<1>2. ASSUME NEW k \in Keys, ValueChanges(k)
      PROVE  Followed' /\ Answered' /\ Covered'
  <2>1. PICK m : m = Message("event", [x \in {k} |-> actual[k] + 1])
    OBVIOUS
  <2>2. \A l \in Keys : l \in DOMAIN m.items \/ actual'[l] = actual[l]
    BY <1>0, <1>2, <2>1 DEF ValueChanges, Message, TypeOK
  <2> QED
    BY <1>0, <1>1, <1>2, <2>1, <2>2, Senders DEF Sending, ValueChanges
<1>3. ASSUME NEW n \in Nodes, NodeJoins(n)
      PROVE  Followed' /\ Answered' /\ Covered'
  <2>1. PICK m : m = Message("event", [k \in KeysOf(n) |-> 1])
    OBVIOUS
  <2>2. \A l \in Keys : l \in DOMAIN m.items \/ actual'[l] = actual[l]
    BY <1>0, <1>3, <2>1 DEF NodeJoins, Message, TypeOK
  <2> QED
    BY <1>0, <1>1, <1>3, <2>1, <2>2, Senders DEF Sending, NodeJoins
<1>4. ASSUME NEW n \in Nodes, NodeUpdated(n)
      PROVE  Followed' /\ Answered' /\ Covered'
  <2>1. PICK m : m = Message("event", Current(KeysOf(n)))
    OBVIOUS
  <2> QED
    BY <1>0, <1>1, <1>4, <2>1, Senders DEF Sending, NodeUpdated
<1>5. CASE ServerAnswers
  <2> DEFINE K == {k \in Keys : Joined(k[1])}
  <2>1. PICK m : m = Message("result", Current(K))
    OBVIOUS
  <2>2. m.type = "result" /\ \A k \in Keys : Joined(k[1]) => k \in DOMAIN m.items
    BY <2>1 DEF Message, Current
  <2>3. Sending(m) /\ UNCHANGED actual /\ Listening
    BY <1>0, <1>5, <2>1, Senders DEF Sending, ServerAnswers, Listening
  <2> HIDE DEF K
  <2> QED
    BY <1>0, <2>2, <2>3, SendFollowed, AnswerCovers
<1>6. CASE ServerStops \/ ConnectionBreaks
  BY <1>6 DEF ServerStops, ConnectionBreaks, Followed, Answered, Covered, Listening
<1>7. CASE ServerSubscribes
  BY <1>0, <1>7
  DEF ServerSubscribes, Connected, Followed, Answered, Covered, Listening, Slots
<1>8. CASE Dial \/ Retry
  BY <1>0, <1>8
  DEF Dial, Retry, Connected, Followed, Answered, Covered, Listening
<1>9. CASE SkipUnmatched
  BY <1>0, <1>9, TakeFollowed, SkipAnswered DEF SkipUnmatched
<1>10. CASE TakeResult \/ TakeEvent
  BY <1>0, <1>10, TakeFollowed, TakeCovered DEF TakeResult, TakeEvent, Dispatch
<1>11. CASE DialFails \/ TakeShutdown \/ ReadFails \/ LookupFails \/ PersistFails
             \/ Restart
  BY <1>11, CloseKeepsSync
  DEF DialFails, TakeShutdown, ReadFails, LookupFails, PersistFails, Restart, Close
<1>12. ASSUME UNCHANGED <<actual, stream, server>>, todo' \subseteq todo,
              UNCHANGED batch \/ todo' = {}
       PROVE  Followed'
  BY <1>0, <1>12 DEF Followed, Listening, Pending, Entry, Slots
<1>13. CASE (\E k \in Keys : Ignore(k) \/ Accept(k)) \/ Persist \/ Announce
  <2>1. /\ UNCHANGED <<actual, stream, server, batch>> /\ todo' \subseteq todo
        /\ pc \in {"looking", "persisting", "announcing"}
        /\ pc' \in {"looking", "persisting", "announcing"}
    BY <1>13 DEF Ignore, Accept, Persist, Announce
  <2>2. Covered'
    BY <1>0, <1>13, <2>1, ApplyCovered DEF Covered
  <2> QED
    BY <1>12, <2>1, <2>2 DEF Answered
<1>14. CASE EndBatch \/ UNCHANGED vars \/ \E n \in Nodes : Import(n)
  <2>1. /\ UNCHANGED <<actual, stored, announced, stream, server, todo>>
        /\ UNCHANGED batch \/ todo' = {}
        /\ pc' = pc \/ (pc = "looking" /\ pc' = "reading")
    BY <1>14 DEF EndBatch, vars, Import
  <2>2. ASSUME NEW k \in Keys, Done(k) PROVE Done(k)'
    BY <1>0, <1>14, <2>1, <2>2 DEF EndBatch, vars, Import, Done, Registered
  <2>3. Covered'
    BY <1>0, <2>1, <2>2 DEF Covered, Pending, Entry, Slots
  <2>4. Answered'
    BY <1>0, <2>1 DEF Answered, Entry, Slots
  <2> QED
    BY <1>12, <2>1, <2>3, <2>4
<1> QED
  BY <1>2, <1>3, <1>4, <1>5, <1>6, <1>7, <1>8, <1>9, <1>10, <1>11, <1>13, <1>14
  DEF Next, Listener, Failure

LEMMA SyncInvariant == Spec => []IInv
<1>1. Init => IInv
  BY InitInv, SyncInit DEF IInv
<1>2. IInv /\ [Next]_vars => IInv'
  <2> SUFFICES ASSUME IInv, [Next]_vars PROVE IInv'
    OBVIOUS
  <2>1. Inv'
    BY TypeStep, OrderStep DEF IInv, Inv
  <2>2. SyncInv'
    BY RegisteredStep, ConnectedStep, SyncStep DEF IInv, SyncInv
  <2> QED
    BY <2>1, <2>2 DEF IInv
<1> QED
  BY <1>1, <1>2, PTL DEF Spec

\* When the listener waits and nothing is under way, every usable value of
\* every device of the start is in the database and on the bus: no loss of
\* connection, failed write, skipped message or restart leaves one behind.
THEOREM SyncedHolds == Spec => []Synced
  BY SyncInvariant, SyncedFromInv, PTL
=============================================================================
