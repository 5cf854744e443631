------------------------- MODULE MatterEventsProofs -------------------------
(***************************************************************************)
(* Theorems of MatterEvents for any nodes, attributes and bounds.          *)
(*                                                                         *)
(* The argument follows one attribute's values along the pipeline: what is *)
(* stored, then what is being dispatched, then the messages not yet read,  *)
(* then the actual value.  OrderInv: they never decrease along it, which   *)
(* is why a stored state never goes back.                                  *)
(***************************************************************************)
EXTENDS MatterEvents, TLAPS

Slots == 1 .. Len(stream)

-----------------------------------------------------------------------------
(* Messages *)

\* A message is a function from some of the keys to values.
LEMMA ItemsType ==
  ASSUME NEW f \in Items
  PROVE  DOMAIN f \subseteq Keys /\ \A k \in DOMAIN f : f[k] \in Versions
  BY DEF Items

LEMMA ItemsIntro ==
  ASSUME NEW K \in SUBSET Keys, NEW f \in [K -> Versions]
  PROVE  f \in Items
  BY DEF Items

LEMMA NothingIsItems == Nothing \in Items /\ DOMAIN Nothing = {}
<1>1. Nothing \in [{} -> Versions]
  BY DEF Nothing
<1>2. {} \in SUBSET Keys
  OBVIOUS
<1> QED
  BY <1>1, <1>2, ItemsIntro

\* What the next message adds to a stream of messages.
LEMMA Appended ==
  ASSUME NEW s \in Seq(Messages), NEW m \in Messages
  PROVE  /\ Append(s, m) \in Seq(Messages)
         /\ Len(s) \in Nat
         /\ Len(Append(s, m)) = Len(s) + 1
         /\ \A i \in 1 .. Len(s) : Append(s, m)[i] = s[i]
         /\ Append(s, m)[Len(s) + 1] = m
  OBVIOUS

\* What taking the first message leaves of it.
LEMMA Taken ==
  ASSUME NEW s \in Seq(Messages), s # <<>>
  PROVE  /\ Tail(s) \in Seq(Messages)
         /\ Head(s) \in Messages
         /\ Head(s) = s[1]
         /\ Len(s) \in Nat
         /\ Len(s) >= 1
         /\ Len(Tail(s)) = Len(s) - 1
         /\ \A i \in 1 .. Len(s) - 1 : Tail(s)[i] = s[i + 1]
  OBVIOUS

LEMMA StreamType ==
  ASSUME stream \in Seq(Messages), NEW i \in Slots
  PROVE  /\ stream[i] \in Messages
         /\ stream[i].items \in Items
         /\ \A k \in DOMAIN stream[i].items :
              k \in Keys /\ stream[i].items[k] \in Versions
<1>1. stream[i] \in Messages
  BY DEF Slots
<1>2. stream[i].items \in Items
  BY <1>1 DEF Messages
<1> QED
  BY <1>1, <1>2, ItemsType

-----------------------------------------------------------------------------
(* Type correctness *)

LEMMA InitType == Init => TypeOK
  BY EventsAssumption, NothingIsItems
  DEF Init, TypeOK, Versions, Keys

\* The steps that send a message.
LEMMA EmitType ==
  ASSUME TypeOK, NEW m \in Messages, Emit(m)
  PROVE  stream' \in Seq(Messages)
  BY Appended DEF TypeOK, Emit

LEMMA TypeStep == TypeOK /\ [Next]_vars => TypeOK'
<1> SUFFICES ASSUME TypeOK, [Next]_vars PROVE TypeOK'
  OBVIOUS
<1> USE EventsAssumption, NothingIsItems DEF table, local, Versions
<1>1. ASSUME NEW k \in Keys, ValueChanges(k) PROVE TypeOK'
  <2>1. [x \in {k} |-> actual[k] + 1] \in Items
    <3>1. [x \in {k} |-> actual[k] + 1] \in [{k} -> Versions]
      BY <1>1 DEF ValueChanges, TypeOK
    <3> QED BY <3>1, ItemsIntro
  <2>2. stream' \in Seq(Messages)
    BY <1>1, <2>1, EmitType DEF ValueChanges, Message, Messages
  <2>3. actual' \in [Keys -> Versions]
    BY <1>1 DEF ValueChanges, TypeOK
  <2> QED
    BY <1>1, <2>2, <2>3 DEF ValueChanges, TypeOK
<1>2. ASSUME NEW n \in Nodes, NodeJoins(n) PROVE TypeOK'
  <2>1. [k \in KeysOf(n) |-> 1] \in Items
    <3>1. [k \in KeysOf(n) |-> 1] \in [KeysOf(n) -> Versions]
      OBVIOUS
    <3>2. KeysOf(n) \in SUBSET Keys
      BY DEF KeysOf, Keys
    <3> QED BY <3>1, <3>2, ItemsIntro
  <2>2. stream' \in Seq(Messages)
    BY <1>2, <2>1, EmitType DEF NodeJoins, Message, Messages
  <2>3. actual' \in [Keys -> Versions]
    BY <1>2 DEF NodeJoins, TypeOK
  <2> QED
    BY <1>2, <2>2, <2>3 DEF NodeJoins, TypeOK
<1>3. ASSUME NEW K \in SUBSET Keys
      PROVE  Current(K) \in Items
  <2>1. Current(K) \in [K -> Versions]
    BY DEF Current, TypeOK
  <2> QED BY <2>1, ItemsIntro
<1>4. ASSUME NEW n \in Nodes, NodeUpdated(n) PROVE TypeOK'
  <2>1. KeysOf(n) \in SUBSET Keys
    BY DEF KeysOf, Keys
  <2>2. stream' \in Seq(Messages)
    BY <1>3, <1>4, <2>1, EmitType DEF NodeUpdated, Message, Messages
  <2> QED
    BY <1>4, <2>2 DEF NodeUpdated, TypeOK
<1>5. CASE ServerAnswers
  <2>1. stream' \in Seq(Messages)
    BY <1>3, <1>5, EmitType DEF ServerAnswers, Message, Messages
  <2> QED
    BY <1>5, <2>1 DEF ServerAnswers, TypeOK
<1>6. CASE ServerStops
  <2>1. stream' \in Seq(Messages)
    BY <1>6, EmitType DEF ServerStops, Message, Messages
  <2> QED
    BY <1>6, <2>1 DEF ServerStops, Fault, TypeOK
<1>7. CASE ConnectionBreaks
  <2>1. stream' \in Seq(Messages)
    <3>1. CASE stream' = <<>>
      BY <3>1
    <3>2. CASE stream' = stream
      BY <3>2 DEF TypeOK
    <3> QED
      BY <1>7, <3>1, <3>2 DEF ConnectionBreaks
  <2> QED
    BY <1>7, <2>1 DEF ConnectionBreaks, Fault, TypeOK
<1>8. CASE ServerSubscribes \/ Dial \/ Retry
  BY <1>8 DEF ServerSubscribes, Dial, Retry, TypeOK
<1>9. CASE DialFails \/ TakeShutdown \/ ReadFails \/ LookupFails \/ PersistFails
  <2>1. Close /\ UNCHANGED <<actual, devices, stored, announced>>
          /\ faults' \in 0 .. MaxFaults
    BY <1>9 DEF DialFails, TakeShutdown, ReadFails, LookupFails, PersistFails,
                Fault, TypeOK
  <2> QED
    BY <2>1 DEF Close, TypeOK
<1>10. CASE Restart
  BY <1>10 DEF Restart, Fault, TypeOK
<1>11. CASE SkipUnmatched
  BY <1>11, Taken DEF SkipUnmatched, TypeOK
<1>12. CASE TakeResult \/ TakeEvent
  <2>1. stream # <<>> /\ Dispatch(Head(stream)) /\ key = NoKey
        /\ UNCHANGED <<actual, devices, stored, announced, key, server, faults>>
    BY <1>12 DEF TakeResult, TakeEvent, TypeOK
  <2>2. Head(stream) \in Messages /\ Tail(stream) \in Seq(Messages)
    BY <2>1, Taken DEF TypeOK
  <2>3. Head(stream).items \in Items
    BY <2>2 DEF Messages
  <2> QED
    BY <2>1, <2>2, <2>3 DEF Dispatch, TypeOK
<1>13. CASE EndBatch
  BY <1>13 DEF EndBatch, TypeOK
<1>14. ASSUME NEW k \in Keys, Ignore(k) \/ Accept(k) PROVE TypeOK'
  BY <1>14 DEF Ignore, Accept, TypeOK
<1>15. CASE Persist \/ Announce
  <2>1. key \in Keys /\ batch[key] \in 0 .. MaxVersion
    BY <1>15, ItemsType DEF Persist, Announce, TypeOK
  <2> QED
    BY <1>15, <2>1 DEF Persist, Announce, TypeOK
<1>16. ASSUME NEW n \in Nodes, Import(n) PROVE TypeOK'
  BY <1>16 DEF Import, TypeOK
<1>17. CASE UNCHANGED vars
  BY <1>17 DEF vars, TypeOK
<1> QED
  BY <1>1, <1>2, <1>4, <1>5, <1>6, <1>7, <1>8, <1>9, <1>10, <1>11, <1>12,
     <1>13, <1>14, <1>15, <1>16, <1>17
  DEF Next, Listener, Failure

\* The variables keep their types, and ApplyMatterAttribute only ever has an
\* attribute of the message being dispatched.
THEOREM TypeCorrect == Spec => []TypeOK
  BY InitType, TypeStep, PTL DEF Spec

-----------------------------------------------------------------------------
(* The order of the values along the pipeline *)

\* What the pipeline is made of, as the steps change it.
Sent(m) == stream' = Append(stream, m)
Fresh(k) == stored[k] <= actual[k] /\ announced[k] <= stored[k]

InStream(i, k) ==
  stored[k] <= stream[i].items[k] /\ stream[i].items[k] <= actual[k]

OrderInv ==
  /\ \A k \in Keys : Fresh(k)
  /\ \A i \in Slots : \A k \in DOMAIN stream[i].items : InStream(i, k)
  /\ \A i, j \in Slots : i < j =>
       \A k \in DOMAIN stream[i].items :
         k \in DOMAIN stream[j].items => stream[i].items[k] <= stream[j].items[k]
  /\ \A k \in todo : stored[k] <= batch[k] /\ batch[k] <= actual[k]
  /\ \A k \in todo, i \in Slots :
       k \in DOMAIN stream[i].items => batch[k] <= stream[i].items[k]
  /\ pc = "announcing" => stored[key] = batch[key]

Inv == TypeOK /\ OrderInv

LEMMA InitInv == Init => Inv
<1> SUFFICES ASSUME Init PROVE Inv
  OBVIOUS
<1>1. TypeOK
  BY InitType
<1>2. OrderInv
  BY <1>1 DEF Init, OrderInv, Fresh, InStream, Slots, TypeOK, Versions
<1> QED
  BY <1>1, <1>2 DEF Inv

\* A newly sent message carries actual values, which are the largest.
LEMMA SendKeepsOrder ==
  ASSUME Inv, NEW m \in Messages, Emit(m), TypeOK',
         UNCHANGED <<devices, stored, announced, batch, todo, key, pc>>,
         \A k \in Keys : actual[k] <= actual'[k],
         \A k \in DOMAIN m.items : m.items[k] = actual'[k]
  PROVE  OrderInv'
<1> USE DEF Versions
<1>0. \A k \in Keys : /\ actual[k] \in Nat /\ actual'[k] \in Nat
                      /\ stored[k] \in Nat /\ announced[k] \in Nat
  BY DEF Inv, TypeOK
<1>k. /\ \A k \in todo : k \in Keys /\ batch[k] \in Nat
      /\ \A i \in Slots : \A k \in DOMAIN stream[i].items :
           k \in Keys /\ stream[i].items[k] \in Nat
      /\ DOMAIN m.items \subseteq Keys
  <2>1. m.items \in Items
    BY DEF Messages
  <2> QED
    BY <2>1, ItemsType, StreamType DEF Inv, TypeOK
<1>1. (\A k \in Keys : Fresh(k))'
  BY <1>0 DEF Inv, OrderInv, Fresh
<1>2. (\A k \in todo : stored[k] <= batch[k] /\ batch[k] <= actual[k])'
  BY <1>0, <1>k DEF Inv, OrderInv
<1>3. (pc = "announcing" => stored[key] = batch[key])'
  BY DEF Inv, OrderInv
<1>4. CASE ~Listening
  <2>1. UNCHANGED stream
    BY <1>4 DEF Emit
  <2>2. (\A i \in Slots : \A k \in DOMAIN stream[i].items : InStream(i, k))'
    <3> SUFFICES ASSUME NEW i \in Slots, NEW k \in DOMAIN stream[i].items
                 PROVE  InStream(i, k)'
      BY <2>1 DEF Slots
    <3>1. InStream(i, k) /\ k \in Keys
      BY <1>k DEF Inv, OrderInv
    <3> QED
      BY <1>0, <1>k, <2>1, <3>1 DEF InStream
  <2>3. (\A i, j \in Slots : i < j =>
          \A k \in DOMAIN stream[i].items :
            k \in DOMAIN stream[j].items
              => stream[i].items[k] <= stream[j].items[k])'
    BY <2>1 DEF Inv, OrderInv, Slots
  <2>4. (\A k \in todo, i \in Slots :
          k \in DOMAIN stream[i].items => batch[k] <= stream[i].items[k])'
    BY <2>1 DEF Inv, OrderInv, Slots
  <2> QED
    BY <1>1, <1>2, <1>3, <2>2, <2>3, <2>4 DEF OrderInv
<1>5. CASE Listening
  <2>1. /\ Len(stream) \in Nat
        /\ Len(stream') = Len(stream) + 1
        /\ \A i \in Slots : stream'[i] = stream[i]
        /\ stream'[Len(stream) + 1] = m
    BY <1>5, Appended DEF Emit, Slots, Inv, TypeOK
  <2>2. \A i \in Slots' : i \in Slots \/ i = Len(stream) + 1
    BY <2>1 DEF Slots
  <2>3. (\A i \in Slots : \A k \in DOMAIN stream[i].items : InStream(i, k))'
    BY <1>0, <1>k, <2>1, <2>2 DEF Inv, OrderInv, InStream, Fresh
  <2>4. (\A i, j \in Slots : i < j =>
          \A k \in DOMAIN stream[i].items :
            k \in DOMAIN stream[j].items
              => stream[i].items[k] <= stream[j].items[k])'
    <3> SUFFICES ASSUME NEW i \in Slots', NEW j \in Slots', i < j,
                        NEW k \in DOMAIN stream'[i].items,
                        k \in DOMAIN stream'[j].items
                 PROVE  stream'[i].items[k] <= stream'[j].items[k]
      OBVIOUS
    <3>1. i \in Slots
      BY <2>1, <2>2 DEF Slots
    <3>2. CASE j \in Slots
      BY <2>1, <3>1, <3>2 DEF Inv, OrderInv
    <3>3. CASE j = Len(stream) + 1
      BY <1>0, <1>k, <2>1, <3>1, <3>3 DEF Inv, OrderInv, InStream
    <3> QED
      BY <2>2, <3>2, <3>3
  <2>5. (\A k \in todo, i \in Slots :
          k \in DOMAIN stream[i].items => batch[k] <= stream[i].items[k])'
    BY <1>0, <1>k, <2>1, <2>2 DEF Inv, OrderInv
  <2> QED
    BY <1>1, <1>2, <1>3, <2>3, <2>4, <2>5 DEF OrderInv
<1> QED
  BY <1>4, <1>5

\* Taking the first message: what is left, or what is dispatched, follows it.
LEMMA TakeKeepsOrder ==
  ASSUME Inv, stream # <<>>, stream' = Tail(stream),
         UNCHANGED <<actual, stored, announced>>, pc' # "announcing",
         \/ UNCHANGED <<batch, todo>>
         \/ batch' = Head(stream).items /\ todo' = DOMAIN Head(stream).items
  PROVE  OrderInv'
<1>1. /\ Len(stream) \in Nat
      /\ 1 \in Slots
      /\ Head(stream) = stream[1]
      /\ \A i \in Slots' : i + 1 \in Slots /\ i \in Nat /\ 1 < i + 1
                          /\ stream'[i] = stream[i + 1]
  BY Taken DEF Inv, TypeOK, Slots
<1>2. \A i, j \in Slots' : i < j => i + 1 < j + 1
  BY <1>1 DEF Slots
<1>3. (\A k \in Keys : Fresh(k))'
  BY DEF Inv, OrderInv, Fresh
<1>4. (\A i \in Slots : \A k \in DOMAIN stream[i].items : InStream(i, k))'
  BY <1>1 DEF Inv, OrderInv, InStream
<1>5. (\A i, j \in Slots : i < j =>
        \A k \in DOMAIN stream[i].items :
          k \in DOMAIN stream[j].items
            => stream[i].items[k] <= stream[j].items[k])'
  BY <1>1, <1>2 DEF Inv, OrderInv
<1>6. CASE UNCHANGED <<batch, todo>>
  BY <1>1, <1>3, <1>4, <1>5, <1>6 DEF Inv, OrderInv
<1>7. CASE batch' = Head(stream).items /\ todo' = DOMAIN Head(stream).items
  <2>1. (\A k \in todo : stored[k] <= batch[k] /\ batch[k] <= actual[k])'
    BY <1>1, <1>7 DEF Inv, OrderInv, InStream
  <2>2. (\A k \in todo, i \in Slots :
          k \in DOMAIN stream[i].items => batch[k] <= stream[i].items[k])'
    BY <1>1, <1>7 DEF Inv, OrderInv
  <2> QED
    BY <1>3, <1>4, <1>5, <2>1, <2>2 DEF OrderInv
<1> QED
  BY <1>6, <1>7

\* A pipeline that is emptied is in order.
LEMMA CloseKeepsOrder ==
  ASSUME Inv, TypeOK', UNCHANGED <<actual, stored>>, stream' = <<>>, todo' = {},
         pc' # "announcing",
         announced' = announced \/ announced' = [k \in Keys |-> 0]
  PROVE  OrderInv'
<1>1. \A k \in Keys : stored[k] \in Nat
  BY DEF Inv, TypeOK, Versions
<1>2. (\A k \in Keys : Fresh(k))'
  BY <1>1 DEF Inv, OrderInv, Fresh
<1>3. Slots' = {}
  BY DEF Slots
<1> QED
  BY <1>2, <1>3 DEF OrderInv

\* The steps of the dispatch leave the stream alone.
LEMMA LocalKeepsOrder ==
  ASSUME Inv, TypeOK', UNCHANGED <<actual, stream>>,
         \/ UNCHANGED <<stored, announced, batch>> /\ todo' \subseteq todo
               /\ pc' # "announcing"
         \/ UNCHANGED <<stored, announced, batch, todo, key, pc>>
         \/ Persist
         \/ Announce
  PROVE  OrderInv'
<1> USE DEF Inv, OrderInv, Slots, Fresh, InStream
<1>1. CASE UNCHANGED <<stored, announced, batch>> /\ todo' \subseteq todo
             /\ pc' # "announcing"
  BY <1>1
<1>2. CASE UNCHANGED <<stored, announced, batch, todo, key, pc>>
  BY <1>2
<1>3. CASE Persist
  <2>1. /\ key \in todo /\ key \in Keys /\ stored'[key] = batch[key]
        /\ \A k \in Keys \ {key} : stored'[k] = stored[k]
        /\ stored[key] \in Nat /\ batch[key] \in Nat /\ announced[key] \in Nat
        /\ UNCHANGED <<announced, batch, todo, key>>
        /\ \A k \in todo : k \in Keys
    BY <1>3, ItemsType, EventsAssumption DEF Persist, TypeOK, Versions, local
  <2>2. \A i \in Slots : \A k \in DOMAIN stream[i].items : k \in Keys
    BY StreamType DEF TypeOK
  <2>3. (\A k \in Keys : Fresh(k))'
    BY <2>1
  <2>4. (\A i \in Slots : \A k \in DOMAIN stream[i].items : InStream(i, k))'
    BY <2>1, <2>2
  <2>5. (\A k \in todo : stored[k] <= batch[k] /\ batch[k] <= actual[k])'
    BY <2>1
  <2> QED
    BY <2>1, <2>3, <2>4, <2>5
<1>4. CASE Announce
  <2>1. /\ stored[key] = batch[key] /\ key \in Keys
        /\ announced'[key] = batch[key]
        /\ \A k \in Keys \ {key} : announced'[k] = announced[k]
        /\ stored[key] \in Nat
        /\ todo' \subseteq todo /\ UNCHANGED <<stored, batch>> /\ pc' = "looking"
    BY <1>4, ItemsType DEF Announce, TypeOK, Versions
  <2>2. (\A k \in Keys : Fresh(k))'
    BY <2>1
  <2> QED
    BY <2>1, <2>2
<1> QED
  BY <1>1, <1>2, <1>3, <1>4

\* The steps that send a message, with the message.
LEMMA Senders ==
  ASSUME TypeOK, NEW m,
         \/ \E k \in Keys : ValueChanges(k)
                           /\ m = Message("event", [x \in {k} |-> actual[k] + 1])
         \/ \E n \in Nodes : NodeJoins(n)
                            /\ m = Message("event", [k \in KeysOf(n) |-> 1])
         \/ \E n \in Nodes : NodeUpdated(n)
                            /\ m = Message("event", Current(KeysOf(n)))
         \/ ServerAnswers
              /\ m = Message("result", Current({k \in Keys : Joined(k[1])}))
         \/ ServerStops /\ m = Message("shutdown", Nothing)
  PROVE  /\ m \in Messages
         /\ Emit(m)
         /\ UNCHANGED <<devices, stored, announced, batch, todo, key, pc>>
         /\ \A k \in Keys : actual[k] <= actual'[k]
         /\ \A k \in DOMAIN m.items : m.items[k] = actual'[k]
<1> USE EventsAssumption, NothingIsItems
    DEF TypeOK, table, local, Versions, Message, Messages
<1>0. \A n \in Nodes : KeysOf(n) \in SUBSET Keys
  BY DEF KeysOf, Keys
<1>c. ASSUME NEW K \in SUBSET Keys
      PROVE  /\ Current(K) \in Items
             /\ DOMAIN Current(K) = K
             /\ \A k \in K : Current(K)[k] = actual[k]
  <2>1. Current(K) \in [K -> Versions]
    BY DEF Current
  <2> QED BY <2>1, ItemsIntro DEF Current
<1>1. ASSUME NEW k \in Keys, ValueChanges(k),
             m = Message("event", [x \in {k} |-> actual[k] + 1])
      PROVE  /\ m \in Messages
             /\ Emit(m)
             /\ UNCHANGED <<devices, stored, announced, batch, todo, key, pc>>
             /\ \A j \in Keys : actual[j] <= actual'[j]
             /\ \A j \in DOMAIN m.items : m.items[j] = actual'[j]
  <2>1. [x \in {k} |-> actual[k] + 1] \in [{k} -> Versions]
    BY <1>1 DEF ValueChanges
  <2>2. [x \in {k} |-> actual[k] + 1] \in Items
    BY <2>1, ItemsIntro
  <2> QED
    BY <1>1, <2>2 DEF ValueChanges
<1>2. ASSUME NEW n \in Nodes, NodeJoins(n),
             m = Message("event", [k \in KeysOf(n) |-> 1])
      PROVE  /\ m \in Messages
             /\ Emit(m)
             /\ UNCHANGED <<devices, stored, announced, batch, todo, key, pc>>
             /\ \A j \in Keys : actual[j] <= actual'[j]
             /\ \A j \in DOMAIN m.items : m.items[j] = actual'[j]
  <2>1. [k \in KeysOf(n) |-> 1] \in [KeysOf(n) -> Versions]
    OBVIOUS
  <2>2. [k \in KeysOf(n) |-> 1] \in Items
    BY <1>0, <2>1, ItemsIntro
  <2> QED
    BY <1>0, <1>2, <2>2 DEF NodeJoins
<1>3. ASSUME NEW n \in Nodes, NodeUpdated(n),
             m = Message("event", Current(KeysOf(n)))
      PROVE  /\ m \in Messages
             /\ Emit(m)
             /\ UNCHANGED <<devices, stored, announced, batch, todo, key, pc>>
             /\ \A j \in Keys : actual[j] <= actual'[j]
             /\ \A j \in DOMAIN m.items : m.items[j] = actual'[j]
  BY <1>0, <1>3, <1>c DEF NodeUpdated
<1>4. ASSUME ServerAnswers,
             m = Message("result", Current({k \in Keys : Joined(k[1])}))
      PROVE  /\ m \in Messages
             /\ Emit(m)
             /\ UNCHANGED <<devices, stored, announced, batch, todo, key, pc>>
             /\ \A j \in Keys : actual[j] <= actual'[j]
             /\ \A j \in DOMAIN m.items : m.items[j] = actual'[j]
  <2>1. {k \in Keys : Joined(k[1])} \in SUBSET Keys
    OBVIOUS
  <2> DEFINE K == {k \in Keys : Joined(k[1])}
  <2>2. Current(K) \in Items /\ DOMAIN Current(K) = K
        /\ \A k \in K : Current(K)[k] = actual[k]
    BY <1>c, <2>1
  <2>3. m.items = Current(K)
    BY <1>4
  <2>4. \A j \in DOMAIN m.items : m.items[j] = actual'[j]
    BY <1>4, <2>2, <2>3 DEF ServerAnswers
  <2> HIDE DEF K
  <2> QED
    BY <1>4, <2>2, <2>3, <2>4 DEF ServerAnswers
<1>5. ASSUME ServerStops, m = Message("shutdown", Nothing)
      PROVE  /\ m \in Messages
             /\ Emit(m)
             /\ UNCHANGED <<devices, stored, announced, batch, todo, key, pc>>
             /\ \A j \in Keys : actual[j] <= actual'[j]
             /\ \A j \in DOMAIN m.items : m.items[j] = actual'[j]
  BY <1>5 DEF ServerStops
<1> QED
  BY <1>1, <1>2, <1>3, <1>4, <1>5

\* The order is preserved by every step.
LEMMA OrderStep == Inv /\ [Next]_vars => OrderInv'
<1> SUFFICES ASSUME Inv, [Next]_vars PROVE OrderInv'
  OBVIOUS
<1>0. TypeOK /\ TypeOK'
  BY TypeStep DEF Inv
<1> USE DEF table, local
<1>1. ASSUME NEW k \in Keys, ValueChanges(k) PROVE OrderInv'
  BY <1>0, <1>1, Senders, SendKeepsOrder
<1>2. ASSUME NEW n \in Nodes, NodeJoins(n) \/ NodeUpdated(n) PROVE OrderInv'
  BY <1>0, <1>2, Senders, SendKeepsOrder
<1>3. CASE ServerAnswers \/ ServerStops
  BY <1>0, <1>3, Senders, SendKeepsOrder
<1>4. CASE ConnectionBreaks
  <2>1. CASE stream' = stream
    BY <1>0, <1>4, <2>1, LocalKeepsOrder DEF ConnectionBreaks
  <2>2. CASE stream' = <<>>
    BY <1>4, <2>2 DEF ConnectionBreaks, Inv, OrderInv, Slots, Fresh
  <2> QED
    BY <1>4, <2>1, <2>2 DEF ConnectionBreaks
<1>5. CASE ServerSubscribes
  BY <1>0, <1>5, LocalKeepsOrder DEF ServerSubscribes
<1>6. CASE Dial \/ Retry \/ EndBatch
  <2>1. /\ UNCHANGED <<actual, stream, stored, announced, todo>>
        /\ pc' # "announcing"
        /\ todo = {} \/ UNCHANGED batch
    BY <1>6 DEF Dial, Retry, EndBatch
  <2> QED
    BY <2>1 DEF Inv, OrderInv, Slots, Fresh, InStream
<1>7. CASE DialFails \/ TakeShutdown \/ ReadFails \/ LookupFails \/ PersistFails
            \/ Restart
  BY <1>0, <1>7, CloseKeepsOrder
  DEF DialFails, TakeShutdown, ReadFails, LookupFails, PersistFails, Restart, Close
<1>8. CASE SkipUnmatched
  BY <1>8, TakeKeepsOrder DEF SkipUnmatched
<1>9. CASE TakeResult \/ TakeEvent
  BY <1>9, TakeKeepsOrder DEF TakeResult, TakeEvent, Dispatch
<1>10. ASSUME NEW k \in Keys, Ignore(k) \/ Accept(k) PROVE OrderInv'
  BY <1>0, <1>10, LocalKeepsOrder DEF Ignore, Accept
<1>11. CASE Persist \/ Announce
  BY <1>0, <1>11, LocalKeepsOrder DEF Persist, Announce
<1>12. ASSUME NEW n \in Nodes, Import(n) PROVE OrderInv'
  BY <1>0, <1>12, LocalKeepsOrder DEF Import
<1>13. CASE UNCHANGED vars
  BY <1>0, <1>13, LocalKeepsOrder DEF vars
<1> QED
  BY <1>1, <1>2, <1>3, <1>4, <1>5, <1>6, <1>7, <1>8, <1>9, <1>10, <1>11,
     <1>12, <1>13
  DEF Next, Listener, Failure

\* The order of the pipeline is an invariant of the specification.
LEMMA Order == Spec => []Inv
<1>1. Inv /\ [Next]_vars => Inv'
  BY TypeStep, OrderStep DEF Inv
<1> QED
  BY InitInv, <1>1, PTL DEF Spec

\* What ApplyMatterAttribute publishes is in the device_states table before.
THEOREM AnnouncedIsDurableHolds == Spec => []AnnouncedIsDurable
<1>1. Inv => AnnouncedIsDurable
  BY DEF Inv, OrderInv, Fresh, AnnouncedIsDurable
<1> QED
  BY Order, <1>1, PTL

-----------------------------------------------------------------------------
(* The hub implements the safety part of the mirror: Persist learns,       *)
(* Announce tells, everything between them is invisible.                   *)

\* What is published is the value just stored.
LEMMA MirrorStep == Inv /\ [Next]_vars => [Mirror!MirrorNext]_(Mirror!mirrorVars)
<1> SUFFICES ASSUME Inv, [Next]_vars
             PROVE  [Mirror!MirrorNext]_(Mirror!mirrorVars)
  OBVIOUS
<1> USE DEF Mirror!mirrorVars, table, local
<1>1. /\ \A k \in Keys : stored[k] \in Nat /\ actual[k] \in Nat
      /\ actual \in [Keys -> Versions]
  BY DEF Inv, TypeOK, Versions
<1>2. ASSUME NEW j \in Keys, ValueChanges(j) PROVE Mirror!Change
  BY <1>1, <1>2 DEF ValueChanges, Mirror!Change
<1>3. ASSUME NEW n \in Nodes, NodeJoins(n) PROVE Mirror!Change
  BY <1>1, <1>3 DEF NodeJoins, Mirror!Change, KeysOf
<1>4. CASE Persist
  <2>1. key \in Keys /\ batch[key] \in stored[key] .. actual[key]
    <3>1. /\ key \in todo /\ todo \subseteq DOMAIN batch /\ batch \in Items
      BY <1>4 DEF Persist, Inv, TypeOK
    <3>2. key \in Keys /\ batch[key] \in Nat
      BY <3>1, ItemsType DEF Versions
    <3> QED
      BY <1>1, <1>4, <3>1, <3>2 DEF Persist, Inv, OrderInv
  <2> QED
    BY <1>4, <2>1 DEF Persist, Mirror!MirrorNext, Mirror!Learn
<1>5. CASE Announce
  <2>1. key \in Keys /\ batch[key] = stored[key]
    BY <1>5, ItemsType DEF Announce, Inv, TypeOK, OrderInv
  <2> QED
    BY <1>5, <2>1 DEF Announce, Mirror!MirrorNext, Mirror!Tell
<1>6. CASE Restart
  BY <1>6 DEF Restart, Mirror!Start, Mirror!MirrorNext
<1>7. UNCHANGED <<actual, stored, announced>> \/ Persist \/ Announce \/ Restart
        \/ (\E j \in Keys : ValueChanges(j)) \/ (\E n \in Nodes : NodeJoins(n))
  BY DEF Next, Listener, Failure, vars, NodeUpdated, Import, ServerSubscribes,
     ServerAnswers, Dial, SkipUnmatched, TakeResult, TakeEvent, TakeShutdown,
     ReadFails, EndBatch, Retry, Ignore, Accept, DialFails, LookupFails,
     PersistFails, ServerStops, ConnectionBreaks
<1> QED
  BY <1>2, <1>3, <1>4, <1>5, <1>6, <1>7 DEF Mirror!MirrorNext

\* No failure, restart or order of messages takes a stored state back, makes
\* one up, or announces what is not stored.
THEOREM ImplementsMirrorSafety == Spec => Mirror!MirrorSafety
<1>1. Init => Mirror!MirrorInit
  BY DEF Init, Mirror!MirrorInit
<1> QED
  BY <1>1, MirrorStep, Order, PTL DEF Spec, Mirror!MirrorSafety
=============================================================================
