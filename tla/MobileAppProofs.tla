--------------------------- MODULE MobileAppProofs ---------------------------
(***************************************************************************)
(* Theorems of MobileApp for any homes, devices, calls and bounds.         *)
(***************************************************************************)
EXTENDS MobileApp, TLAPS

-----------------------------------------------------------------------------
(* Calls *)

LEMMA AnswersType ==
  ASSUME NEW f \in Answers
  PROVE  DOMAIN f \in SUBSET Devices /\ \A d \in DOMAIN f : f[d] \in 0 .. MaxVersion
  BY DEF Answers

LEMMA AnswersIntro ==
  ASSUME NEW D \in SUBSET Devices, NEW f \in [D -> 0 .. MaxVersion]
  PROVE  f \in Answers /\ DOMAIN f = D
  BY DEF Answers

LEMMA NothingRead == <<>> \in Answers /\ DOMAIN <<>> = {}
<1>1. DOMAIN <<>> = {} /\ <<>> \in [{} -> 0 .. MaxVersion]
  OBVIOUS
<1> QED
  BY <1>1, AnswersIntro

LEMMA NoCallType ==
  NoCall \in CallRecords /\ KeepsWhatItAwaits(NoCall)
  BY NothingRead DEF NoCall, CallRecords, KeepsWhatItAwaits

\* The call c is a record, of which a step changes some fields.
LEMMA Record ==
  ASSUME TypeOK, NEW c \in Calls
  PROVE  /\ call[c] \in CallRecords
         /\ call[c] = [op |-> call[c].op, at |-> call[c].at, home |-> call[c].home,
                       asked |-> call[c].asked, snap |-> call[c].snap,
                       bad |-> call[c].bad]
         /\ call[c].asked \in SUBSET Devices
         /\ call[c].snap \in Answers
         /\ DOMAIN call[c].snap \in SUBSET Devices
         /\ \A d \in DOMAIN call[c].snap : call[c].snap[d] \in 0 .. MaxVersion
         /\ KeepsWhatItAwaits(call[c])
<1>1. call[c] \in CallRecords /\ KeepsWhatItAwaits(call[c])
  BY DEF TypeOK
<1> QED
  BY <1>1, AnswersType DEF CallRecords

\* What a step makes of the call c
LEMMA CallStep ==
  ASSUME TypeOK, NEW c \in Calls, NEW r \in CallRecords, KeepsWhatItAwaits(r),
         call' = [call EXCEPT ![c] = r]
  PROVE  /\ call' \in [Calls -> CallRecords]
         /\ \A b \in Calls : KeepsWhatItAwaits(call'[b])
  BY DEF TypeOK

-----------------------------------------------------------------------------
(* Type correctness *)

LEMMA InitType == Init => TypeOK
<1> SUFFICES ASSUME Init PROVE TypeOK
  OBVIOUS
<1> USE AppAssumption DEF Init
<1>1. hubHomes \in Seq(Homes) /\ homes \in Seq(Homes) /\ feed \in Seq(Events)
  OBVIOUS
<1>2. hubState \in [Devices -> 0 .. MaxVersion]
  OBVIOUS
<1>3. token \in BOOLEAN
  OBVIOUS
<1>4. /\ call \in [Calls -> CallRecords]
      /\ \A c \in Calls : KeepsWhatItAwaits(call[c])
  <2>1. [NoCall EXCEPT !.op = "initialize", !.at = "token"] \in CallRecords
        /\ KeepsWhatItAwaits([NoCall EXCEPT !.op = "initialize", !.at = "token"])
    BY NothingRead DEF NoCall, CallRecords, KeepsWhatItAwaits
  <2> QED
    BY <2>1, NoCallType
<1>5. /\ paired \in BOOLEAN /\ loading \in BOOLEAN /\ failed \in BOOLEAN
      /\ dashboard \in BOOLEAN /\ overlapped \in BOOLEAN /\ raced \in BOOLEAN
  OBVIOUS
<1>6. /\ registered \in SUBSET Devices /\ devices \in SUBSET Devices
      /\ unsent \in SUBSET Devices
      /\ selected \in Homes \cup {NoHome} /\ faults \in 0 .. MaxFaults
      /\ stream \in {"none", "connecting", "open", "ended"}
  <2>1. registered \in SUBSET Devices
    OBVIOUS
  <2>2. selected \in Homes \cup {NoHome} /\ devices = {} /\ unsent = {}
        /\ stream \in {"none", "connecting", "open", "ended"}
    OBVIOUS
  <2>3. faults \in 0 .. MaxFaults
    OBVIOUS
  <2> QED
    BY ONLY <2>1, <2>2, <2>3
<1>7. shown \in [Devices -> 0 .. MaxVersion]
  OBVIOUS
<1> QED
  BY ONLY <1>1, <1>2, <1>3, <1>4, <1>5, <1>6, <1>7 DEF TypeOK

CallsOK ==
  /\ call \in [Calls -> CallRecords]
  /\ \A c \in Calls : KeepsWhatItAwaits(call[c])

\* The steps that end a call, or let it go on
LEMMA CallEnds ==
  ASSUME TypeOK, NEW c \in Calls, call' = [call EXCEPT ![c] = NoCall]
  PROVE  CallsOK'
  BY NoCallType, CallStep DEF CallsOK

LEMMA CallAwaits ==
  ASSUME TypeOK, NEW c \in Calls, NEW s \in {"homes", "states"}, Await(c, s),
         call[c].at \in {"token", "pair", "listed"},
         s = "states" <=> call[c].at = "listed"
  PROVE  CallsOK'
<1>1. PICK r : r = [call[c] EXCEPT !.at = s]
  OBVIOUS
<1>2. r \in CallRecords /\ KeepsWhatItAwaits(r)
  <2>1. r \in CallRecords /\ r.at = s /\ r.home = call[c].home
        /\ r.asked = call[c].asked /\ r.snap = call[c].snap
    BY <1>1, Record DEF CallRecords
  <2> QED
    BY <2>1, Record DEF KeepsWhatItAwaits
<1>3. call' = [call EXCEPT ![c] = r]
  BY <1>1 DEF Await, TypeOK
<1> QED
  BY <1>2, <1>3, CallStep DEF CallsOK

LEMMA CallSelects ==
  ASSUME TypeOK, NEW c \in Calls, NEW h \in Homes, SelectIn(c, h),
         call[c].at \in {"homes", "create", "commission"}
  PROVE  CallsOK'
<1>1. PICK r : r = [call[c] EXCEPT !.at = "lists", !.home = h]
  OBVIOUS
<1>2. r \in CallRecords /\ KeepsWhatItAwaits(r)
  BY <1>1 DEF TypeOK, CallRecords, KeepsWhatItAwaits
<1>3. call' = [call EXCEPT ![c] = r]
  BY <1>1 DEF SelectIn, TypeOK
<1> QED
  BY <1>2, <1>3, CallStep DEF CallsOK

\* The call c after a step that changes what it awaits
LEMMA CallIs ==
  ASSUME TypeOK, NEW c \in Calls, NEW r \in CallRecords,
         call' = [call EXCEPT ![c] = r]
  PROVE  call'[c] = r /\ \A b \in Calls \ {c} : call'[b] = call[b]
  BY DEF TypeOK

LEMMA HubListsCall ==
  ASSUME TypeOK, NEW c \in Calls, HubLists(c)
  PROVE  \E r \in CallRecords :
           /\ call' = [call EXCEPT ![c] = r]
           /\ r.at = "listed" /\ r.home = call[c].home /\ r.snap = call[c].snap
           /\ r.asked = {d \in registered : HomeOf[d] = call[c].home}
<1> DEFINE D == {d \in registered : HomeOf[d] = call[c].home}
<1>1. PICK r : r = [call[c] EXCEPT !.at = "listed", !.asked = D]
  OBVIOUS
<1>2. D \in SUBSET Devices
  BY DEF TypeOK
<1>3. call' = [call EXCEPT ![c] = r]
  BY <1>1 DEF HubLists, TypeOK
<1> HIDE DEF D
<1>4. r \in CallRecords /\ r.at = "listed" /\ r.home = call[c].home
      /\ r.asked = D /\ r.snap = call[c].snap
  BY <1>1, <1>2, Record DEF CallRecords
<1> QED
  BY <1>3, <1>4 DEF D

LEMMA HubReadsCall ==
  ASSUME TypeOK, NEW c \in Calls, NEW d \in Devices, HubReads(c, d)
  PROVE  \E r \in CallRecords :
           /\ call' = [call EXCEPT ![c] = r]
           /\ r.at = call[c].at /\ r.home = call[c].home
           /\ r.asked = call[c].asked \ {d}
           /\ DOMAIN r.snap = DOMAIN call[c].snap \cup {d}
           /\ \A e \in DOMAIN r.snap :
                r.snap[e] = IF e = d THEN hubState[d] ELSE call[c].snap[e]
<1> DEFINE D == DOMAIN call[c].snap \cup {d}
           S == [e \in D |-> IF e = d THEN hubState[d] ELSE call[c].snap[e]]
<1>1. PICK r : r = [call[c] EXCEPT !.asked = @ \ {d}, !.snap = S]
  OBVIOUS
<1>2. D \in SUBSET Devices
  BY Record
<1>3. S \in [D -> 0 .. MaxVersion]
  BY Record DEF TypeOK
<1>4. S \in Answers /\ DOMAIN S = D
  BY <1>2, <1>3, AnswersIntro
<1>5. call' = [call EXCEPT ![c] = r]
  BY <1>1 DEF HubReads, TypeOK
<1>6. \A e \in DOMAIN S : S[e] = IF e = d THEN hubState[d] ELSE call[c].snap[e]
  OBVIOUS
<1> HIDE DEF S
<1>7. r \in CallRecords /\ r.at = call[c].at /\ r.home = call[c].home
      /\ r.asked = call[c].asked \ {d} /\ r.snap = S
  BY <1>1, <1>4, Record DEF CallRecords
<1> QED
  BY <1>4, <1>5, <1>6, <1>7

LEMMA StatesArriveCall ==
  ASSUME TypeOK, NEW c \in Calls, NEW d \in Devices, StatesArrive(c, d)
  PROVE  \E r \in CallRecords :
           /\ call' = [call EXCEPT ![c] = r]
           /\ r.at = call[c].at /\ r.home = call[c].home
           /\ r.asked = call[c].asked
           /\ DOMAIN r.snap = DOMAIN call[c].snap \ {d}
           /\ \A e \in DOMAIN r.snap : r.snap[e] = call[c].snap[e]
<1> DEFINE D == DOMAIN call[c].snap \ {d}
           S == [e \in D |-> call[c].snap[e]]
<1>1. PICK b \in BOOLEAN : b = (call[c].bad \/ ~Decodes(call[c].snap[d] = 0))
  OBVIOUS
<1>2. PICK r : r = [call[c] EXCEPT !.snap = S, !.bad = b]
  OBVIOUS
<1>3. D \in SUBSET Devices
  BY Record
<1>4. S \in [D -> 0 .. MaxVersion]
  BY Record
<1>5. S \in Answers /\ DOMAIN S = D
  BY <1>3, <1>4, AnswersIntro
<1>6. call' = [call EXCEPT ![c] = r]
  BY <1>1, <1>2 DEF StatesArrive, TypeOK
<1>7. \A e \in DOMAIN S : S[e] = call[c].snap[e]
  OBVIOUS
<1> HIDE DEF S
<1>8. r \in CallRecords /\ r.at = call[c].at /\ r.home = call[c].home
      /\ r.asked = call[c].asked /\ r.snap = S
  BY <1>2, <1>5, Record DEF CallRecords
<1> QED
  BY <1>5, <1>6, <1>7, <1>8

LEMMA CallsStep ==
  ASSUME TypeOK, [Next]_vars
  PROVE  CallsOK'
<1> USE AppAssumption
<1>1. CASE UNCHANGED call
  BY <1>1 DEF TypeOK, CallsOK
<1>2. ASSUME NEW c \in Calls,
             \/ CallFails(c) \/ HomesUnreadable(c) \/ DeviceRefused(c)
             \/ AnswerLost(c) \/ ListsUnreadable(c) \/ ListsFail(c)
             \/ AllLoaded(c)
      PROVE  CallsOK'
  <2>1. call' = [call EXCEPT ![c] = NoCall]
    BY <1>2 DEF CallFails, HomesUnreadable, DeviceRefused, AnswerLost,
      ListsUnreadable, ListsFail, AllLoaded, Throw, Return, Finally
  <2> QED
    BY <2>1, CallEnds
<1>3. ASSUME NEW c \in Calls, TokenRead(c)
      PROVE  CallsOK'
  BY <1>3, CallEnds, CallAwaits DEF TokenRead
<1>4. ASSUME NEW c \in Calls, PairAccepted(c) \/ ListsArrive(c)
      PROVE  CallsOK'
  BY <1>4, CallAwaits DEF PairAccepted, ListsArrive
<1>5. ASSUME NEW c \in Calls,
             HomesArrive(c) \/ HomeCreated(c) \/ DeviceCommissioned(c)
      PROVE  CallsOK'
  <2>1. CASE HomesArrive(c)
    <3>1. Head(hubHomes) \in Homes
      BY <2>1 DEF HomesArrive, Decodes, TypeOK
    <3> QED
      BY <2>1, <3>1, CallSelects DEF HomesArrive
  <2>2. CASE HomeCreated(c)
    BY <2>2, CallSelects DEF HomeCreated
  <2>3. CASE DeviceCommissioned(c)
    <3>1. call[c].home \in Homes
      BY <2>3 DEF DeviceCommissioned, AddDevice
    <3> QED
      BY <2>3, <3>1, CallSelects DEF DeviceCommissioned
  <2> QED
    BY <1>5, <2>1, <2>2, <2>3
<1>6. ASSUME NEW c \in Calls, NEW op \in {"pair", "create", "commission"},
             Tap(c, op)
      PROVE  CallsOK'
  <2>1. PICK r : r = [NoCall EXCEPT !.op = op, !.at = op, !.home = selected]
    OBVIOUS
  <2>2. r \in CallRecords /\ KeepsWhatItAwaits(r)
    BY <2>1, NothingRead DEF NoCall, CallRecords, KeepsWhatItAwaits, TypeOK
  <2> QED
    BY <1>6, <2>1, <2>2, CallStep DEF Tap, CallsOK
<1>7. ASSUME NEW c \in Calls, NEW h \in Homes, Select(c, h)
      PROVE  CallsOK'
  <2>1. PICK r : r = [NoCall EXCEPT !.op = "select", !.at = "lists", !.home = h]
    OBVIOUS
  <2>2. r \in CallRecords /\ KeepsWhatItAwaits(r)
    BY <2>1, NothingRead DEF NoCall, CallRecords, KeepsWhatItAwaits
  <2> QED
    BY <1>7, <2>1, <2>2, CallStep DEF Select, CallsOK
<1>8. ASSUME NEW c \in Calls, HubLists(c)
      PROVE  CallsOK'
  <2>1. PICK r \in CallRecords :
          /\ call' = [call EXCEPT ![c] = r]
          /\ r.at = "listed" /\ r.home = call[c].home /\ r.snap = call[c].snap
    BY <1>8, HubListsCall
  <2>2. KeepsWhatItAwaits(r)
    BY <1>8, <2>1, Record DEF HubLists, KeepsWhatItAwaits
  <2> QED
    BY <2>1, <2>2, CallStep DEF CallsOK
<1>9. ASSUME NEW c \in Calls, NEW d \in Devices, HubReads(c, d)
      PROVE  CallsOK'
  <2>1. PICK r \in CallRecords :
          /\ call' = [call EXCEPT ![c] = r]
          /\ r.at = call[c].at /\ r.home = call[c].home
          /\ r.asked = call[c].asked \ {d}
          /\ DOMAIN r.snap = DOMAIN call[c].snap \cup {d}
    BY <1>9, HubReadsCall
  <2>2. KeepsWhatItAwaits(r)
    BY <1>9, <2>1, Record DEF HubReads, KeepsWhatItAwaits
  <2> QED
    BY <2>1, <2>2, CallStep DEF CallsOK
<1>10. ASSUME NEW c \in Calls, NEW d \in Devices, StatesArrive(c, d)
       PROVE  CallsOK'
  <2>1. PICK r \in CallRecords :
          /\ call' = [call EXCEPT ![c] = r]
          /\ r.at = call[c].at /\ r.home = call[c].home
          /\ r.asked = call[c].asked
          /\ DOMAIN r.snap = DOMAIN call[c].snap \ {d}
    BY <1>10, StatesArriveCall
  <2>2. KeepsWhatItAwaits(r)
    BY <1>10, <2>1, Record DEF StatesArrive, KeepsWhatItAwaits
  <2> QED
    BY <2>1, <2>2, CallStep DEF CallsOK
<1>11. ASSUME NEW c \in Calls, NEW d \in Devices, StatesFail(c, d)
       PROVE  CallsOK'
  <2>1. PICK r : r = [call[c] EXCEPT !.asked = @ \ {d}, !.bad = TRUE]
    OBVIOUS
  <2>2. call' = [call EXCEPT ![c] = r]
    BY <1>11, <2>1 DEF StatesFail, TypeOK
  <2>3. r \in CallRecords /\ r.at = call[c].at /\ r.home = call[c].home
        /\ r.asked = call[c].asked \ {d} /\ r.snap = call[c].snap
    BY <2>1, Record DEF CallRecords
  <2>4. KeepsWhatItAwaits(r)
    BY <1>11, <2>3, Record DEF StatesFail, KeepsWhatItAwaits
  <2> QED
    BY <2>2, <2>3, <2>4, CallStep DEF CallsOK
<1>12. CASE Connected \/ StreamEnds \/ EventArrives \/ UNCHANGED vars
            \/ \E d \in Devices : Store(d) \/ Publish(d)
  BY <1>1, <1>12 DEF Connected, StreamEnds, EventArrives, vars, Store, Publish
<1> QED
  BY <1>2, <1>3, <1>4, <1>5, <1>6, <1>7, <1>8, <1>9, <1>10, <1>11, <1>12
  DEF Next, Proceed, Fails, User

\* The other variables
DataOK ==
  /\ hubHomes \in Seq(Homes) /\ homes \in Seq(Homes)
  /\ registered \in SUBSET Devices /\ devices \in SUBSET Devices
  /\ hubState \in [Devices -> 0 .. MaxVersion]
  /\ shown \in [Devices -> 0 .. MaxVersion]
  /\ unsent \in SUBSET Devices
  /\ selected \in Homes \cup {NoHome}
  /\ stream \in {"none", "connecting", "open", "ended"}
  /\ faults \in 0 .. MaxFaults

FlagsOK ==
  /\ token \in BOOLEAN /\ paired \in BOOLEAN
  /\ loading \in BOOLEAN /\ failed \in BOOLEAN /\ dashboard \in BOOLEAN
  /\ overlapped \in BOOLEAN /\ raced \in BOOLEAN

LEMMA DataStep ==
  ASSUME TypeOK, [Next]_vars
  PROVE  DataOK'
<1> USE AppAssumption DEF hub, model, link, rest
<1>0. DataOK
  BY DEF TypeOK, DataOK
<1>1. CASE UNCHANGED vars
  BY <1>0, <1>1 DEF vars, DataOK
<1>2. ASSUME NEW c \in Calls, Fails(c)
      PROVE  DataOK'
  <2>1. /\ faults < MaxFaults /\ faults' = faults + 1
        /\ UNCHANGED <<homes, selected, devices, shown, hubState, unsent>>
        /\ stream' = stream \/ stream' = "connecting"
    BY <1>2 DEF Fails, CallFails, AnswerLost, ListsFail, StatesFail, Fault,
       Throw, Return
  <2>2. hubHomes' \in Seq(Homes)
    <3>1. hubHomes' = hubHomes \/ \E h \in Homes : hubHomes' = Append(hubHomes, h)
      BY <1>2 DEF Fails, CallFails, AnswerLost, ListsFail, StatesFail, AddHome
    <3>2. hubHomes \in Seq(Homes)
      BY <1>0 DEF DataOK
    <3> QED
      BY ONLY <3>1, <3>2
  <2>3. registered' \in SUBSET Devices
    BY <1>0, <1>2 DEF Fails, CallFails, AnswerLost, ListsFail, StatesFail,
       AddDevice, DataOK
  <2> QED
    BY <1>0, <2>1, <2>2, <2>3 DEF DataOK
<1>3. ASSUME NEW c \in Calls, User(c)
      PROVE  DataOK'
  BY <1>0, <1>3 DEF User, Tap, Select, DataOK
<1>4. ASSUME NEW c \in Calls,
             TokenRead(c) \/ PairAccepted(c) \/ HubLists(c)
             \/ \E d \in Devices : HubReads(c, d)
      PROVE  DataOK'
  BY <1>0, <1>4 DEF TokenRead, PairAccepted, HubLists, HubReads, DataOK
<1>5. ASSUME NEW c \in Calls,
             HomesUnreadable(c) \/ DeviceRefused(c) \/ ListsUnreadable(c) \/ AllLoaded(c)
      PROVE  DataOK'
  BY <1>0, <1>5
  DEF HomesUnreadable, DeviceRefused, ListsUnreadable, AllLoaded, Throw, Return, DataOK
<1>6. ASSUME NEW c \in Calls,
             HomesArrive(c) \/ HomeCreated(c) \/ DeviceCommissioned(c)
      PROVE  DataOK'
  <2>1. CASE HomesArrive(c)
    <3>1. Head(hubHomes) \in Homes
      BY <1>0, <2>1 DEF HomesArrive, Decodes, DataOK
    <3> QED
      BY <1>0, <2>1, <3>1 DEF HomesArrive, SelectIn, DataOK
  <2>2. CASE HomeCreated(c)
    BY <1>0, <2>2 DEF HomeCreated, AddHome, SelectIn, DataOK
  <2>3. CASE DeviceCommissioned(c)
    BY <1>0, <2>3 DEF DeviceCommissioned, AddDevice, SelectIn, DataOK
  <2> QED
    BY <1>6, <2>1, <2>2, <2>3
<1>7. ASSUME NEW c \in Calls, ListsArrive(c)
      PROVE  DataOK'
  BY <1>0, <1>7, Record DEF ListsArrive, DataOK
<1>8. ASSUME NEW c \in Calls, NEW d \in Devices, StatesArrive(c, d)
      PROVE  DataOK'
  <2>1. shown' \in [Devices -> 0 .. MaxVersion]
    BY <1>0, <1>8, Record DEF StatesArrive, DataOK
  <2> QED
    BY <1>0, <1>8, <2>1 DEF StatesArrive, DataOK
<1>9. CASE Connected \/ StreamEnds
  BY <1>0, <1>9 DEF Connected, StreamEnds, Fault, DataOK
<1>10. CASE EventArrives
  <2>1. Head(feed) \in Events
    BY <1>10 DEF EventArrives, TypeOK
  <2>2. shown' \in [Devices -> 0 .. MaxVersion]
    BY <1>0, <1>10, <2>1 DEF EventArrives, Events, DataOK
  <2> QED
    BY <1>0, <1>10, <2>2 DEF EventArrives, DataOK
<1>11. ASSUME NEW d \in Devices, Store(d)
       PROVE  DataOK'
  <2>1. hubState' \in [Devices -> 0 .. MaxVersion]
    BY <1>0, <1>11 DEF Store, DataOK
  <2> QED
    BY <1>0, <1>11, <2>1 DEF Store, DataOK
<1>12. ASSUME NEW d \in Devices, Publish(d)
       PROVE  DataOK'
  BY <1>0, <1>12 DEF Publish, DataOK
<1> QED
  BY <1>1, <1>2, <1>3, <1>4, <1>5, <1>6, <1>7, <1>8, <1>9, <1>10, <1>11, <1>12
  DEF Next, Proceed

LEMMA Removed ==
  ASSUME NEW S, NEW s \in Seq(S), NEW o \in 1 .. Len(s)
  PROVE  /\ RemoveAt(s, o) \in Seq(S)
         /\ Len(RemoveAt(s, o)) = Len(s) - 1
         /\ \A i \in 1 .. Len(s) - 1 :
              RemoveAt(s, o)[i] = IF i < o THEN s[i] ELSE s[i + 1]
<1>1. PICK p : p = SubSeq(s, 1, o - 1)
  OBVIOUS
<1>2. PICK q : q = SubSeq(s, o + 1, Len(s))
  OBVIOUS
<1>3. p \in Seq(S) /\ Len(p) = o - 1 /\ \A i \in 1 .. o - 1 : p[i] = s[i]
  BY <1>1
<1>4. q \in Seq(S) /\ Len(q) = Len(s) - o /\ \A i \in 1 .. Len(s) - o : q[i] = s[o + i]
  BY <1>2
<1>5. RemoveAt(s, o) = p \o q
  BY <1>1, <1>2 DEF RemoveAt
<1>6. p \o q \in Seq(S) /\ Len(p \o q) = Len(s) - 1
  BY <1>3, <1>4
<1>7. ASSUME NEW i \in 1 .. Len(s) - 1
      PROVE  (p \o q)[i] = IF i < o THEN s[i] ELSE s[i + 1]
  <2>1. CASE i < o
    BY <1>3, <1>4, <2>1
  <2>2. CASE ~(i < o)
    <3>1. PICK n : n = i - Len(p)
      OBVIOUS
    <3>2. n \in 1 .. Len(q) /\ o + n = i + 1 /\ Len(p) + n = i
      BY <1>3, <1>4, <2>2, <3>1
    <3>3. (p \o q)[Len(p) + n] = q[n]
      BY <1>3, <1>4, <3>2
    <3> QED
      BY <1>4, <2>2, <3>2, <3>3
  <2> QED
    BY <2>1, <2>2
<1> QED
  BY <1>5, <1>6, <1>7

\* Dropping the oldest event of the hub's buffer, and adding a new one
LEMMA MadeRoom ==
  ASSUME feed \in Seq(Events), NEW event \in Events, MakeRoom(event),
         NEW o, o = Len(feed) - Buffer + 1
  PROVE  /\ o \in 1 .. Len(feed)
         /\ Len(feed) \in Nat
         /\ feed' \in Seq(Events)
         /\ Len(feed') = Len(feed)
         /\ \A i \in 1 .. Len(feed) :
              feed'[i] = IF i = Len(feed) THEN event
                         ELSE IF i < o THEN feed[i] ELSE feed[i + 1]
<1> USE AppAssumption
<1>1. Len(feed) \in Nat /\ o \in 1 .. Len(feed)
      /\ feed' = Append(RemoveAt(feed, o), event)
  BY DEF MakeRoom
<1>2. PICK r : r = RemoveAt(feed, o)
  OBVIOUS
<1>3. /\ r \in Seq(Events)
      /\ Len(r) = Len(feed) - 1
      /\ \A i \in 1 .. Len(feed) - 1 :
           r[i] = IF i < o THEN feed[i] ELSE feed[i + 1]
  BY <1>1, <1>2, Removed
<1>4. feed' = Append(r, event)
  BY <1>1, <1>2
<1>5. /\ feed' \in Seq(Events)
      /\ Len(feed') = Len(r) + 1
      /\ \A i \in 1 .. Len(r) : feed'[i] = r[i]
      /\ feed'[Len(r) + 1] = event
  BY <1>3, <1>4
<1> QED
  BY <1>1, <1>3, <1>5

LEMMA FeedStep ==
  ASSUME TypeOK, [Next]_vars
  PROVE  feed' \in Seq(Events)
<1>1. CASE UNCHANGED feed \/ StreamEnds \/ EventArrives
  <2>1. feed' = feed \/ feed' = <<>> \/ (feed # <<>> /\ feed' = Tail(feed))
    BY <1>1 DEF StreamEnds, EventArrives
  <2>2. feed \in Seq(Events)
    BY DEF TypeOK
  <2>3. CASE feed # <<>> /\ feed' = Tail(feed)
    <3>1. Tail(feed) \in Seq(Events)
      BY ONLY <2>2, <2>3
    <3> QED
      BY <2>3, <3>1
  <2>4. CASE feed' = <<>>
    BY <2>4
  <2> QED
    BY <2>1, <2>2, <2>3, <2>4
<1>2. ASSUME NEW d \in Devices, Publish(d)
      PROVE  feed' \in Seq(Events)
  <2>1. PICK event : event = [device |-> d, value |-> hubState[d]]
    OBVIOUS
  <2>2. event \in Events
    BY <2>1 DEF TypeOK, Events
  <2>3. PICK o : o = Len(feed) - Buffer + 1
    OBVIOUS
  <2>4. CASE MakeRoom(event)
    BY <2>2, <2>3, <2>4, MadeRoom DEF TypeOK
  <2>5. feed \in Seq(Events)
    BY DEF TypeOK
  <2>6. CASE feed' = feed \/ feed' = Append(feed, event)
    <3>1. Append(feed, event) \in Seq(Events)
      BY ONLY <2>2, <2>5
    <3> QED
      BY ONLY <2>5, <2>6, <3>1
  <2> QED
    BY <1>2, <2>1, <2>4, <2>6 DEF Publish
<1>3. UNCHANGED feed \/ StreamEnds \/ EventArrives \/ \E d \in Devices : Publish(d)
  BY DEF Next, Proceed, Fails, User, vars, link, rest, TokenRead, PairAccepted,
     HomesArrive, HomesUnreadable, HomeCreated, DeviceCommissioned, DeviceRefused,
     HubLists, ListsArrive, ListsUnreadable, HubReads, StatesArrive, AllLoaded,
     CallFails, AnswerLost, ListsFail, StatesFail, Tap, Select, Connected, Store
<1> QED
  BY <1>1, <1>2, <1>3

LEMMA FlagsStep ==
  ASSUME TypeOK, [Next]_vars
  PROVE  FlagsOK'
<1> USE DEF hub, model, status, link, history, rest
<1>0. FlagsOK
  BY DEF TypeOK, FlagsOK
<1> USE <1>0 DEF FlagsOK
<1>1. CASE UNCHANGED vars
  BY <1>1, Zenon DEF vars
<1>2. ASSUME NEW c \in Calls, Throw(c), UNCHANGED token
      PROVE  FlagsOK'
  <2>1. paired' \in BOOLEAN /\ dashboard' \in BOOLEAN
    BY <1>2, Zenon DEF Throw, Build
  <2> QED
    BY <1>2, <2>1, Zenon DEF Throw, Finally
<1>3. ASSUME NEW c \in Calls, NEW bad \in BOOLEAN, Return(c, bad),
             UNCHANGED <<token, paired, overlapped, raced>>
      PROVE  FlagsOK'
  <2>1. dashboard' \in BOOLEAN
    BY <1>3, Zenon DEF Return, Build
  <2> QED
    BY <1>3, <2>1, Zenon DEF Return, Finally
<1>4. ASSUME NEW c \in Calls, NEW h, SelectIn(c, h),
             UNCHANGED <<token, paired, loading, failed, dashboard, raced>>
      PROVE  FlagsOK'
  <2>1. overlapped' \in BOOLEAN
    BY <1>4, Zenon DEF SelectIn
  <2> QED
    BY <1>4, <2>1, Zenon
<1>5. ASSUME NEW c \in Calls, NEW op, Tap(c, op) PROVE FlagsOK'
  <2>1. dashboard' \in BOOLEAN
    BY <1>5, Zenon DEF Tap, Build
  <2> QED
    BY <1>5, <2>1, Zenon DEF Tap
<1>6. ASSUME NEW c \in Calls, NEW h, Select(c, h) PROVE FlagsOK'
  <2>1. dashboard' \in BOOLEAN /\ overlapped' \in BOOLEAN
    BY <1>6, Zenon DEF Select, Build
  <2> QED
    BY <1>6, <2>1, Zenon DEF Select
<1>7. ASSUME NEW c \in Calls, TokenRead(c) PROVE FlagsOK'
  <2>1. loading' \in BOOLEAN
    BY <1>7, Zenon DEF TokenRead
  <2> QED
    BY <1>7, <2>1, Zenon DEF TokenRead
<1>8. ASSUME NEW c \in Calls, PairAccepted(c) \/ HubLists(c) \/ ListsArrive(c)
      PROVE  FlagsOK'
  BY <1>8, Zenon DEF PairAccepted, HubLists, ListsArrive
<1>9. ASSUME NEW c \in Calls, NEW d,
             HubReads(c, d) \/ StatesArrive(c, d) \/ StatesFail(c, d)
      PROVE  FlagsOK'
  BY <1>9, Zenon DEF HubReads, StatesArrive, StatesFail
<1>10. CASE Connected
  BY <1>10, Zenon DEF Connected
<1>11. CASE StreamEnds
  <2>1. raced' \in BOOLEAN /\ failed' \in BOOLEAN /\ dashboard' \in BOOLEAN
    BY <1>11, Zenon DEF StreamEnds, Build
  <2> QED
    BY <1>11, <2>1, Zenon DEF StreamEnds
<1>12. CASE EventArrives
  <2>1. dashboard' \in BOOLEAN
    BY <1>12, Zenon DEF EventArrives, Build
  <2> QED
    BY <1>12, <2>1, Zenon DEF EventArrives
<1>13. ASSUME NEW d, Store(d) PROVE FlagsOK'
  <2>1. raced' \in BOOLEAN
    BY <1>13, Zenon DEF Store
  <2> QED
    BY <1>13, <2>1, Zenon DEF Store
<1>14. ASSUME NEW d, Publish(d) PROVE FlagsOK'
  <2>1. raced' \in BOOLEAN
    <3>1. ASSUME NEW event, MakeRoom(event) PROVE raced' \in BOOLEAN
      BY <3>1, Zenon DEF MakeRoom
    <3> QED
      BY <1>14, <3>1, Zenon DEF Publish
  <2> QED
    BY <1>14, <2>1, Zenon DEF Publish
<1>15. ASSUME NEW c \in Calls,
              \/ CallFails(c) \/ HomesUnreadable(c) \/ DeviceRefused(c) \/ AnswerLost(c)
       PROVE  FlagsOK'
  <2>1. Throw(c) /\ UNCHANGED token
    BY <1>15, Zenon DEF CallFails, HomesUnreadable, DeviceRefused, AnswerLost
  <2> QED
    BY <1>2, <2>1
<1>16. ASSUME NEW c \in Calls, ListsUnreadable(c) \/ ListsFail(c) \/ AllLoaded(c)
       PROVE  FlagsOK'
  <2>1. UNCHANGED <<token, paired, overlapped, raced>>
        /\ (Return(c, TRUE) \/ Return(c, call[c].bad))
    BY <1>16, Zenon DEF ListsUnreadable, ListsFail, AllLoaded
  <2>2. call[c].bad \in BOOLEAN
    BY Record DEF CallRecords
  <2> QED
    BY <1>3, <2>1, <2>2, Zenon
<1>17. ASSUME NEW c \in Calls,
              HomesArrive(c) \/ HomeCreated(c) \/ DeviceCommissioned(c)
       PROVE  FlagsOK'
  <2>1. UNCHANGED <<token, paired, loading, failed, dashboard, raced>>
        /\ \E h : SelectIn(c, h)
    BY <1>17, Zenon DEF HomesArrive, HomeCreated, DeviceCommissioned
  <2> QED
    BY <1>4, <2>1, Zenon
<1> HIDE <1>0 DEF FlagsOK
<1> QED
  BY <1>1, <1>5, <1>6, <1>7, <1>8, <1>9, <1>10, <1>11, <1>12, <1>13, <1>14,
     <1>15, <1>16, <1>17
  DEF Next, Proceed, Fails, User

LEMMA TypeStep == TypeOK /\ [Next]_vars => TypeOK'
<1> SUFFICES ASSUME TypeOK, [Next]_vars PROVE TypeOK'
  OBVIOUS
<1>1. CallsOK' /\ DataOK' /\ FlagsOK' /\ feed' \in Seq(Events)
  BY CallsStep, DataStep, FlagsStep, FeedStep
<1> QED
  BY ONLY <1>1 DEF TypeOK, CallsOK, DataOK, FlagsOK

\* The variables keep their types, and a call keeps what it awaits and only
\* that, for any homes, devices and number of calls at a time.
THEOREM TypeCorrect == Spec => []TypeOK
  BY InitType, TypeStep, PTL DEF Spec

-----------------------------------------------------------------------------
(* One call at a time *)

Selecting(c) == call[c].at \in {"lists", "listed", "states"}
Right(D) == \A d \in D : HomeOf[d] = selected

\* As long as no selectHome began while another call ran, at most one call
\* runs, with loading set; what it asks for is of the selected home; and the
\* devices on the screen are of that home again when it ends without an error.
OneCall ==
  ~overlapped =>
    /\ \A b, c \in Calls : Active(b) /\ Active(c) => b = c
    /\ Idle \/ loading
    /\ \A c \in Calls :
         /\ Selecting(c) => call[c].home = selected
         /\ call[c].at = "token" => devices = {}
         /\ call[c].at = "listed" => Right(call[c].asked)
         /\ call[c].at = "states" => Right(devices)
    /\ Idle /\ ~failed => Right(devices)


LEMMA OneCallInit == Init => OneCall
<1> SUFFICES ASSUME Init PROVE OneCall
  OBVIOUS
<1>1. 1 \in Calls
  BY AppAssumption DEF Calls
<1>2. /\ call[1].at = "token"
      /\ \A c \in Calls : c # 1 => call[c].at = "off"
      /\ loading /\ devices = {}
  BY <1>1 DEF Init, NoCall
<1> QED
  BY <1>1, <1>2 DEF OneCall, Active, Selecting, Idle, Right

LEMMA OneByOneFromInv == OneCall => OneByOneShowsHome
  BY DEF OneCall, OneByOneShowsHome, Right

\* A step of one call leaves the others alone.
LEMMA OthersStay ==
  ASSUME TypeOK, NEW c \in Calls, Proceed(c) \/ Fails(c) \/ User(c)
  PROVE  \A b \in Calls : b # c => call'[b] = call[b]
<1> USE DEF TypeOK
<1> QED
  BY DEF Proceed, Fails, User, TokenRead, PairAccepted, HomesArrive,
         HomesUnreadable, HomeCreated, DeviceCommissioned, DeviceRefused,
         HubLists, ListsArrive, ListsUnreadable, HubReads, StatesArrive,
         AllLoaded, CallFails, AnswerLost, ListsFail, StatesFail, Tap, Select,
         Await, SelectIn, Throw, Return, Finally

\* The other calls are off, before and after a step of the only one.
LEMMA OnlyOne ==
  ASSUME OneCall, ~overlapped, NEW c \in Calls, Active(c) \/ Idle,
         \A b \in Calls : b # c => call'[b] = call[b],
         Active(c)' => loading',
         Selecting(c)' => call'[c].home = selected',
         (call[c].at = "token" => devices = {})',
         (call[c].at = "listed" => Right(call[c].asked))',
         (call[c].at = "states" => Right(devices))',
         (~Active(c) /\ ~failed => Right(devices))'
  PROVE  OneCall'
<1>1. \A b \in Calls : b # c => call'[b].at = "off"
  BY DEF OneCall, Idle, Active
<1> QED
  BY <1>1 DEF OneCall, Idle, Active, Selecting

LEMMA OneCallStep ==
  ASSUME TypeOK, OneCall, [Next]_vars
  PROVE  OneCall'
<1> USE DEF hub, model, status, link, history, rest
<1>0. DOMAIN call = Calls /\ call = [c \in Calls |-> call[c]]
  BY DEF TypeOK
<1>1. ASSUME UNCHANGED <<call, selected, devices, loading, overlapped>>,
             ~failed' => ~failed
      PROVE  OneCall'
  BY <1>1 DEF OneCall, Active, Selecting, Idle, Right
<1>2. CASE Connected \/ EventArrives \/ UNCHANGED vars
            \/ \E d \in Devices : Store(d) \/ Publish(d)
  <2>1. CASE Connected \/ UNCHANGED vars
    BY <1>1, <2>1 DEF Connected, vars
  <2>2. CASE EventArrives
    BY <1>1, <2>2 DEF EventArrives
  <2>3. ASSUME NEW d \in Devices, Store(d) PROVE OneCall'
    BY <1>1, <2>3 DEF Store
  <2>4. ASSUME NEW d \in Devices, Publish(d) PROVE OneCall'
    BY <1>1, <2>4 DEF Publish
  <2> QED
    BY <1>2, <2>1, <2>2, <2>3, <2>4
<1>3. CASE StreamEnds
  BY <1>1, <1>3 DEF StreamEnds
<1>4. SUFFICES ASSUME ~overlapped', NEW c \in Calls,
                      Proceed(c) \/ Fails(c) \/ User(c)
               PROVE  OneCall'
  BY <1>2, <1>3 DEF Next, OneCall
<1>5. \A b \in Calls : b # c => call'[b] = call[b]
  BY <1>4, OthersStay
<1>6. ~overlapped
  BY <1>4
  DEF Proceed, Fails, User, TokenRead, PairAccepted, HomesArrive, HomesUnreadable,
      HomeCreated, DeviceCommissioned, DeviceRefused, HubLists, ListsArrive,
      ListsUnreadable, HubReads, StatesArrive, AllLoaded, CallFails, AnswerLost,
      ListsFail, StatesFail, Tap, Select, SelectIn, Throw
<1>7. ASSUME Active(c) \/ Idle,
             Active(c)' => loading',
             Selecting(c)' => call'[c].home = selected',
             (call[c].at = "token" => devices = {})',
             (call[c].at = "listed" => Right(call[c].asked))',
             (call[c].at = "states" => Right(devices))',
             (~Active(c) /\ ~failed => Right(devices))'
      PROVE  OneCall'
  BY <1>5, <1>6, <1>7, OnlyOne
<1>8. Active(c) => /\ loading
                   /\ Selecting(c) => call[c].home = selected
                   /\ call[c].at = "token" => devices = {}
                   /\ call[c].at = "listed" => Right(call[c].asked)
                   /\ call[c].at = "states" => Right(devices)
  BY <1>6 DEF OneCall, Idle
<1>9. ASSUME Throw(c), Active(c) PROVE OneCall'
  <2>1. call'[c].at = "off" /\ failed'
    BY <1>0, <1>9 DEF Throw, Finally, NoCall
  <2> QED
    BY <1>7, <1>9, <2>1 DEF Active, Selecting
<1>10. ASSUME NEW bad, Return(c, bad), UNCHANGED <<devices, selected>>, Active(c),
              bad \/ call[c].at = "states"
       PROVE  OneCall'
  <2>1. call'[c].at = "off" /\ failed' = bad
    BY <1>0, <1>10 DEF Return, Finally, NoCall
  <2> QED
    BY <1>7, <1>8, <1>10, <2>1 DEF Active, Selecting, Right
<1>11. ASSUME NEW h, SelectIn(c, h), Active(c), UNCHANGED loading
       PROVE  OneCall'
  <2>1. call'[c].at = "lists" /\ call'[c].home = h /\ selected' = h
    <3>1. PICK r : r = [call[c] EXCEPT !.at = "lists", !.home = h]
      OBVIOUS
    <3>2. call' = [call EXCEPT ![c] = r] /\ selected' = h
      BY <1>0, <1>11, <3>1 DEF SelectIn
    <3>3. r.at = "lists" /\ r.home = h
      BY <3>1, Record DEF CallRecords
    <3> QED
      BY <1>0, <3>2, <3>3
  <2> QED
    BY <1>7, <1>8, <1>11, <2>1 DEF Active, Selecting
<1>12. CASE CallFails(c) \/ HomesUnreadable(c) \/ DeviceRefused(c) \/ AnswerLost(c)
  BY <1>9, <1>12 DEF CallFails, HomesUnreadable, DeviceRefused, AnswerLost, Active
<1>13. CASE ListsUnreadable(c) \/ ListsFail(c) \/ AllLoaded(c)
  BY <1>10, <1>13 DEF ListsUnreadable, ListsFail, AllLoaded, Active
<1>14. CASE HomesArrive(c) \/ HomeCreated(c) \/ DeviceCommissioned(c)
  BY <1>11, <1>14 DEF HomesArrive, HomeCreated, DeviceCommissioned, Active
<1>15. CASE TokenRead(c)
  <2>1. /\ Active(c) /\ devices = {} /\ devices' = {} /\ loading
        /\ \/ call'[c].at = "homes" /\ loading' = loading
           \/ call'[c].at = "off"
    BY <1>0, <1>8, <1>15, Record DEF TokenRead, Await, Active, NoCall
  <2> QED
    BY <1>7, <2>1 DEF Active, Selecting, Right
<1>16. CASE PairAccepted(c)
  <2>1. Active(c) /\ call'[c].at = "homes" /\ loading' = loading
    BY <1>0, <1>16, Record DEF PairAccepted, Await, Active
  <2> QED
    BY <1>7, <1>8, <2>1 DEF Active, Selecting
<1>17. CASE HubLists(c)
  <2>1. /\ Active(c) /\ call[c].home = selected
        /\ call'[c].at = "listed" /\ call'[c].home = call[c].home
        /\ call'[c].asked = {d \in registered : HomeOf[d] = call[c].home}
        /\ UNCHANGED <<loading, selected>>
    <3>1. PICK r \in CallRecords :
            /\ call' = [call EXCEPT ![c] = r]
            /\ r.at = "listed" /\ r.home = call[c].home
            /\ r.asked = {d \in registered : HomeOf[d] = call[c].home}
      BY <1>17, HubListsCall
    <3>2. call'[c] = r
      BY <3>1, CallIs
    <3> QED
      BY <1>8, <1>17, <3>1, <3>2 DEF HubLists, Active, Selecting
  <2> QED
    BY <1>7, <1>8, <2>1 DEF Active, Selecting, Right
<1>18. CASE ListsArrive(c)
  <2>1. /\ Active(c) /\ call[c].home = selected /\ Right(call[c].asked)
        /\ call'[c].at = "states" /\ call'[c].home = call[c].home
        /\ devices' = call[c].asked
        /\ UNCHANGED <<loading, selected>>
    BY <1>0, <1>8, <1>18, Record DEF ListsArrive, Await, Active, Selecting
  <2> QED
    BY <1>7, <1>8, <2>1 DEF Active, Selecting, Right
<1>19. CASE \E d \in Devices : HubReads(c, d) \/ StatesArrive(c, d) \/ StatesFail(c, d)
  <2>1. /\ Active(c) /\ call[c].home = selected /\ Right(devices)
        /\ call'[c].at = "states" /\ call'[c].home = call[c].home
        /\ UNCHANGED <<loading, selected, devices>>
    <3>1. call[c].at = "states" /\ UNCHANGED <<loading, selected, devices>>
      BY <1>19 DEF HubReads, StatesArrive, StatesFail
    <3>2. call'[c].at = call[c].at /\ call'[c].home = call[c].home
      <4>1. ASSUME NEW d \in Devices, HubReads(c, d)
            PROVE  call'[c].at = call[c].at /\ call'[c].home = call[c].home
        BY <4>1, HubReadsCall, CallIs
      <4>2. ASSUME NEW d \in Devices, StatesArrive(c, d)
            PROVE  call'[c].at = call[c].at /\ call'[c].home = call[c].home
        BY <4>2, StatesArriveCall, CallIs
      <4>3. ASSUME NEW d \in Devices, StatesFail(c, d)
            PROVE  call'[c].at = call[c].at /\ call'[c].home = call[c].home
        BY <1>0, <4>3, Record DEF StatesFail
      <4> QED
        BY <1>19, <4>1, <4>2, <4>3
    <3> QED
      BY <1>8, <3>1, <3>2 DEF Active, Selecting
  <2> QED
    BY <1>7, <1>8, <2>1 DEF Active, Selecting, Right
<1>20. CASE \E op \in {"pair", "create", "commission"} : Tap(c, op)
  <2>1. Idle /\ loading'
    BY <1>6, <1>20 DEF Tap, OneCall
  <2>2. call'[c].at \in {"pair", "create", "commission"}
    BY <1>0, <1>20 DEF Tap, NoCall
  <2> QED
    BY <1>7, <2>1, <2>2 DEF Active, Selecting
<1>21. CASE \E h \in Homes : Select(c, h)
  <2>1. Idle /\ loading'
    BY <1>4, <1>21 DEF Select, Idle
  <2>2. call'[c].at = "lists" /\ call'[c].home = selected'
    BY <1>0, <1>21 DEF Select, NoCall
  <2> QED
    BY <1>7, <2>1, <2>2 DEF Active, Selecting
<1> QED
  BY <1>4, <1>12, <1>13, <1>14, <1>15, <1>16, <1>17, <1>18, <1>19, <1>20, <1>21
  DEF Proceed, Fails, User

\* When nothing runs, no selectHome began while another call ran and no error
\* is shown, the devices on the screen are those of the selected home.
THEOREM OneByOneShowsHomeHolds == Spec => []OneByOneShowsHome
<1>1. TypeOK /\ OneCall /\ [Next]_vars => OneCall'
  BY OneCallStep
<1> QED
  BY InitType, TypeStep, OneCallInit, <1>1, OneByOneFromInv, PTL DEF Spec

-----------------------------------------------------------------------------
(* Where the newest value of a state is *)

OnItsWay(d) == \E i \in 1 .. Len(feed) : feed[i].device = d
IsLast(i) == \A j \in 1 .. Len(feed) : j > i => feed[j].device # feed[i].device

\* A stream that is not open carries nothing, and one state is published
\* before the next is stored.
Orderly ==
  /\ stream # "open" => feed = <<>>
  /\ \A d, e \in unsent : d = e

\* Until a value misses the screen, an answer on its way is current; the last
\* event of a device is, unless the next one is about to be published; and so
\* is what is shown of a device with no event on its way.
AnswersCurrent ==
  \A c \in Calls : \A d \in DOMAIN call[c].snap : call[c].snap[d] = hubState[d]
LastCurrent ==
  \A i \in 1 .. Len(feed) :
    IsLast(i) /\ feed[i].device \notin unsent
      => feed[i].value = hubState[feed[i].device]
ShownCurrent ==
  \A d \in Devices :
    d \notin unsent /\ ~OnItsWay(d) => shown[d] \in {0, hubState[d]}

Followed == ~raced => AnswersCurrent /\ LastCurrent /\ ShownCurrent

LEMMA FollowedInit == Init => Orderly /\ Followed
<1> SUFFICES ASSUME Init PROVE Orderly /\ Followed
  OBVIOUS
<1>1. feed = <<>> /\ unsent = {} /\ \A d \in Devices : shown[d] = 0
  BY DEF Init
<1>2. \A c \in Calls : DOMAIN call[c].snap = {}
  BY NothingRead DEF Init, NoCall
<1> QED
  BY <1>1, <1>2 DEF Orderly, Followed, AnswersCurrent, LastCurrent, ShownCurrent

LEMMA CurrentFromInv == TypeOK /\ Followed => CurrentUnlessRaced
  BY DEF Followed, ShownCurrent, CurrentUnlessRaced, Quiet, OnItsWay

\* An answer is what the hub has now, or was on its way already.
LEMMA AnswersStep ==
  ASSUME TypeOK, [Next]_vars, NEW b \in Calls, NEW e \in DOMAIN call'[b].snap
  PROVE  \/ e \in DOMAIN call[b].snap /\ call'[b].snap[e] = call[b].snap[e]
         \/ UNCHANGED hubState /\ call'[b].snap[e] = hubState[e]
<1> DEFINE Goal ==
      \/ e \in DOMAIN call[b].snap /\ call'[b].snap[e] = call[b].snap[e]
      \/ UNCHANGED hubState /\ call'[b].snap[e] = hubState[e]
<1> USE DEF hub, model, status, link, history, rest
<1>0. DOMAIN call = Calls /\ call = [c \in Calls |-> call[c]]
  BY DEF TypeOK
<1>1. ASSUME call'[b].snap = call[b].snap PROVE Goal
  BY <1>1
<1>2. call'[b].snap # <<>>
  BY NothingRead
<1> SUFFICES ASSUME call'[b].snap # call[b].snap PROVE Goal
  BY <1>1
<1> HIDE DEF Goal
<1>3. CASE UNCHANGED call
  BY <1>3
<1>4. ASSUME NEW c \in Calls, call' = [call EXCEPT ![c] = NoCall] PROVE Goal
  BY <1>0, <1>2, <1>4 DEF NoCall
<1>5. ASSUME NEW c \in Calls, NEW s, Await(c, s) PROVE Goal
  BY <1>0, <1>5, Record DEF Await
<1>6. ASSUME NEW c \in Calls, NEW h, SelectIn(c, h) PROVE Goal
  <2>1. PICK r : r = [call[c] EXCEPT !.at = "lists", !.home = h]
    OBVIOUS
  <2>2. call' = [call EXCEPT ![c] = r]
    BY <1>0, <1>6, <2>1 DEF SelectIn
  <2>3. r.snap = call[c].snap
    BY <2>1, Record DEF CallRecords
  <2> QED
    BY <1>0, <2>2, <2>3
<1>7. ASSUME NEW c \in Calls,
             \/ CallFails(c) \/ HomesUnreadable(c) \/ DeviceRefused(c)
             \/ AnswerLost(c) \/ ListsUnreadable(c) \/ ListsFail(c)
             \/ AllLoaded(c)
      PROVE  Goal
  <2>1. call' = [call EXCEPT ![c] = NoCall]
    BY <1>7 DEF CallFails, HomesUnreadable, DeviceRefused, AnswerLost,
      ListsUnreadable, ListsFail, AllLoaded, Throw, Return, Finally
  <2> QED
    BY <1>4, <2>1
<1>8. ASSUME NEW c \in Calls, TokenRead(c) \/ PairAccepted(c) \/ ListsArrive(c)
      PROVE  Goal
  BY <1>4, <1>5, <1>8 DEF TokenRead, PairAccepted, ListsArrive
<1>9. ASSUME NEW c \in Calls,
             HomesArrive(c) \/ HomeCreated(c) \/ DeviceCommissioned(c)
      PROVE  Goal
  BY <1>6, <1>9 DEF HomesArrive, HomeCreated, DeviceCommissioned
<1>10. ASSUME NEW c \in Calls, NEW op, Tap(c, op) PROVE Goal
  BY <1>0, <1>2, <1>10 DEF Tap, NoCall
<1>11. ASSUME NEW c \in Calls, NEW h, Select(c, h) PROVE Goal
  BY <1>0, <1>2, <1>11 DEF Select, NoCall
<1>12. ASSUME NEW c \in Calls, HubLists(c) PROVE Goal
  <2>1. PICK r \in CallRecords :
          call' = [call EXCEPT ![c] = r] /\ r.snap = call[c].snap
    BY <1>12, HubListsCall
  <2> QED
    BY <1>0, <2>1
<1>13. ASSUME NEW c \in Calls, NEW d \in Devices, HubReads(c, d) PROVE Goal
  <2>1. PICK r \in CallRecords :
          /\ call' = [call EXCEPT ![c] = r]
          /\ DOMAIN r.snap = DOMAIN call[c].snap \cup {d}
          /\ \A x \in DOMAIN r.snap :
               r.snap[x] = IF x = d THEN hubState[d] ELSE call[c].snap[x]
    BY <1>13, HubReadsCall
  <2>2. UNCHANGED hubState
    BY <1>13 DEF HubReads
  <2>3. call'[c] = r /\ \A a \in Calls \ {c} : call'[a] = call[a]
    BY <2>1, CallIs
  <2> QED
    BY <2>1, <2>2, <2>3 DEF Goal
<1>14. ASSUME NEW c \in Calls, NEW d \in Devices, StatesArrive(c, d) PROVE Goal
  <2>1. PICK r \in CallRecords :
          /\ call' = [call EXCEPT ![c] = r]
          /\ DOMAIN r.snap = DOMAIN call[c].snap \ {d}
          /\ \A x \in DOMAIN r.snap : r.snap[x] = call[c].snap[x]
    BY <1>14, StatesArriveCall
  <2>2. call'[c] = r /\ \A a \in Calls \ {c} : call'[a] = call[a]
    BY <2>1, CallIs
  <2> QED
    BY <2>1, <2>2 DEF Goal
<1>15. ASSUME NEW c \in Calls, NEW d \in Devices, StatesFail(c, d) PROVE Goal
  BY <1>0, <1>15, Record DEF StatesFail
<1>16. CASE Connected \/ StreamEnds \/ EventArrives \/ UNCHANGED vars
            \/ \E d \in Devices : Store(d) \/ Publish(d)
  BY <1>3, <1>16 DEF Connected, StreamEnds, EventArrives, vars, Store, Publish
<1>17. Goal
  BY <1>7, <1>8, <1>9, <1>10, <1>11, <1>12, <1>13, <1>14, <1>15, <1>16
  DEF Next, Proceed, Fails, User
<1> QED
  BY <1>17 DEF Goal

\* What a step does to the events, to what is shown and to what the hub stores
LEMMA Changes ==
  ASSUME TypeOK, [Next]_vars
  PROVE  \/ /\ UNCHANGED <<feed, shown, hubState, unsent, raced>>
            /\ stream' = stream \/ stream = "none" \/ stream' = "open"
         \/ \E c \in Calls, d \in Devices : StatesArrive(c, d)
         \/ StreamEnds
         \/ EventArrives
         \/ \E d \in Devices : Store(d) \/ Publish(d)
<1> USE DEF hub, model, status, link, history, rest
<1> DEFINE Same == /\ UNCHANGED <<feed, shown, hubState, unsent, raced>>
                   /\ stream' = stream \/ stream = "none" \/ stream' = "open"
<1>1. CASE UNCHANGED vars \/ Connected
  BY <1>1 DEF vars, Connected
<1>2. ASSUME NEW c \in Calls, Throw(c), UNCHANGED <<feed, hubState, unsent>>
      PROVE  Same
  BY <1>2 DEF Throw
<1>3. ASSUME NEW c \in Calls, NEW bad, Return(c, bad),
             UNCHANGED <<feed, shown, hubState, unsent, raced>>
      PROVE  Same
  BY <1>3 DEF Return
<1>4. ASSUME NEW c \in Calls, Fails(c) PROVE Same
  <2>1. CASE CallFails(c) \/ AnswerLost(c)
    BY <1>2, <2>1 DEF CallFails, AnswerLost
  <2>2. CASE ListsFail(c)
    BY <1>3, <2>2 DEF ListsFail
  <2>3. ASSUME NEW d \in Devices, StatesFail(c, d) PROVE Same
    BY <2>3 DEF StatesFail
  <2> QED
    BY <1>4, <2>1, <2>2, <2>3 DEF Fails
<1>5. ASSUME NEW c \in Calls, User(c) PROVE Same
  BY <1>5 DEF User, Tap, Select
<1>6. ASSUME NEW c \in Calls, HomesUnreadable(c) \/ DeviceRefused(c) PROVE Same
  BY <1>2, <1>6 DEF HomesUnreadable, DeviceRefused
<1>7. ASSUME NEW c \in Calls, ListsUnreadable(c) \/ AllLoaded(c) PROVE Same
  BY <1>3, <1>7 DEF ListsUnreadable, AllLoaded
<1>8. ASSUME NEW c \in Calls,
             \/ TokenRead(c) \/ PairAccepted(c) \/ HubLists(c) \/ ListsArrive(c)
             \/ \E d \in Devices : HubReads(c, d)
      PROVE  Same
  BY <1>8 DEF TokenRead, PairAccepted, HubLists, ListsArrive, HubReads
<1>9. ASSUME NEW c \in Calls,
             HomesArrive(c) \/ HomeCreated(c) \/ DeviceCommissioned(c)
      PROVE  Same
  BY <1>9 DEF HomesArrive, HomeCreated, DeviceCommissioned
<1> HIDE DEF Same
<1>10. \/ Same \/ StreamEnds \/ EventArrives
       \/ \E c \in Calls, d \in Devices : StatesArrive(c, d)
       \/ \E d \in Devices : Store(d) \/ Publish(d)
  <2>1. CASE UNCHANGED vars \/ Connected
    BY <1>1, <2>1 DEF Same
  <2> QED
    BY <1>4, <1>5, <1>6, <1>7, <1>8, <1>9, <2>1 DEF Next, Proceed
<1> QED
  BY <1>10 DEF Same

LEMMA OrderlyStep ==
  ASSUME TypeOK, Orderly, [Next]_vars
  PROVE  Orderly'
<1> USE DEF hub, model, status, link, history, rest, Orderly
<1>1. CASE EventArrives
  BY <1>1 DEF EventArrives
<1>2. CASE StreamEnds
  BY <1>2 DEF StreamEnds
<1>3. ASSUME NEW d \in Devices, Store(d) PROVE Orderly'
  BY <1>3 DEF Store
<1>4. ASSUME NEW d \in Devices, Publish(d) PROVE Orderly'
  BY <1>4 DEF Publish
<1>5. ASSUME NEW c \in Calls, NEW d \in Devices, StatesArrive(c, d) PROVE Orderly'
  BY <1>5 DEF StatesArrive
<1> QED
  BY <1>1, <1>2, <1>3, <1>4, <1>5, Changes

LEMMA FeedType ==
  ASSUME TypeOK, NEW i \in 1 .. Len(feed)
  PROVE  feed[i] \in Events /\ feed[i].device \in Devices
<1>1. feed[i] \in Events
  BY DEF TypeOK
<1> QED
  BY <1>1 DEF Events

\* The first event is shown; those behind it keep their places.
LEMMA FollowedArrives ==
  ASSUME TypeOK, LastCurrent, ShownCurrent, EventArrives
  PROVE  LastCurrent' /\ ShownCurrent'
<1>0. /\ feed \in Seq(Events) /\ feed # <<>> /\ feed' = Tail(feed)
      /\ Head(feed) = feed[1] /\ feed[1] \in Events /\ Len(feed) \in Nat
      /\ UNCHANGED <<hubState, unsent>>
      /\ shown' = [shown EXCEPT ![feed[1].device] = feed[1].value]
  <2>1. feed \in Seq(Events) /\ feed # <<>> /\ feed' = Tail(feed)
        /\ UNCHANGED <<hubState, unsent>>
    BY DEF EventArrives, TypeOK, hub
  <2>2. Len(feed) \in Nat /\ Head(feed) = feed[1] /\ feed[1] \in Events
    BY ONLY <2>1
  <2> QED
    BY <2>1, <2>2 DEF EventArrives
<1>1. /\ 1 \in 1 .. Len(feed)
      /\ Len(feed') = Len(feed) - 1
      /\ \A i \in 1 .. Len(feed') : i + 1 \in 1 .. Len(feed) /\ feed'[i] = feed[i + 1]
      /\ \A i \in 1 .. Len(feed) : i # 1 =>
           \E n \in 1 .. Len(feed') : n + 1 = i /\ feed'[n] = feed[i]
  <2>1. Len(feed) >= 1 /\ Len(feed') = Len(feed) - 1
        /\ \A i \in 1 .. Len(feed) - 1 : feed'[i] = feed[i + 1]
    BY <1>0
  <2>2. ASSUME NEW i \in 1 .. Len(feed), i # 1
        PROVE  \E n \in 1 .. Len(feed') : n + 1 = i /\ feed'[n] = feed[i]
    <3>1. PICK n : n = i - 1
      OBVIOUS
    <3>2. n \in 1 .. Len(feed') /\ n + 1 = i
      BY <1>0, <2>1, <2>2, <3>1
    <3> QED
      BY <2>1, <3>2
  <2> QED
    BY <1>0, <2>1, <2>2
<1>2. ASSUME NEW i \in 1 .. Len(feed'), IsLast(i)', feed'[i].device \notin unsent'
      PROVE  feed'[i].value = hubState'[feed'[i].device]
  <2>1. PICK n \in 1 .. Len(feed) : n = i + 1 /\ feed'[i] = feed[n]
    BY <1>1
  <2>2. ASSUME NEW j \in 1 .. Len(feed), j > n PROVE feed[j].device # feed[n].device
    <3>1. j # 1
      BY <1>0, <1>1, <2>1, <2>2
    <3>2. PICK m \in 1 .. Len(feed') : m + 1 = j /\ feed'[m] = feed[j]
      BY <1>1, <3>1
    <3>3. m > i
      BY <1>0, <1>1, <2>1, <2>2, <3>2
    <3> QED
      BY <1>2, <2>1, <3>2, <3>3 DEF IsLast
  <2> QED
    BY <1>0, <1>2, <2>1, <2>2 DEF LastCurrent, IsLast
<1>3. ASSUME NEW d \in Devices, d \notin unsent, ~OnItsWay(d)'
      PROVE  shown'[d] \in {0, hubState[d]}
  <2>1. \A i \in 1 .. Len(feed) : i # 1 => feed[i].device # d
    BY <1>1, <1>3 DEF OnItsWay
  <2>2. CASE feed[1].device = d
    <3>1. IsLast(1)
      BY <1>0, <1>1, <2>1, <2>2 DEF IsLast
    <3>2. feed[1].value = hubState[d]
      BY <1>1, <1>3, <2>2, <3>1 DEF LastCurrent
    <3> QED
      BY <1>0, <2>2, <3>2 DEF TypeOK
  <2>3. CASE feed[1].device # d
    BY <1>0, <1>3, <2>1, <2>3 DEF ShownCurrent, OnItsWay, TypeOK
  <2> QED
    BY <2>2, <2>3
<1> QED
  BY <1>0, <1>2, <1>3 DEF LastCurrent, ShownCurrent

\* The newest value is sent behind the others.
LEMMA FollowedSent ==
  ASSUME TypeOK, Orderly, LastCurrent, ShownCurrent,
         NEW d \in Devices, d \in unsent, unsent' = {},
         UNCHANGED <<hubState, shown>>,
         NEW event \in Events, event.device = d, event.value = hubState[d],
         feed' = Append(feed, event)
  PROVE  LastCurrent' /\ ShownCurrent'
<1>0. /\ Len(feed) \in Nat
      /\ Len(feed') = Len(feed) + 1
      /\ \A i \in 1 .. Len(feed) : i \in 1 .. Len(feed') /\ feed'[i] = feed[i]
      /\ Len(feed) + 1 \in 1 .. Len(feed') /\ feed'[Len(feed) + 1] = event
  BY DEF TypeOK
<1>1. unsent = {d}
  BY DEF Orderly
<1>2. ASSUME NEW i \in 1 .. Len(feed'), IsLast(i)'
      PROVE  feed'[i].value = hubState'[feed'[i].device]
  <2>1. CASE i = Len(feed) + 1
    BY <1>0, <2>1
  <2>2. CASE i \in 1 .. Len(feed)
    <3>1. Len(feed) + 1 > i
      BY <1>0, <2>2
    <3>2. feed[i].device # d
      BY <1>0, <1>2, <2>2, <3>1 DEF IsLast
    <3>3. IsLast(i)
      BY <1>0, <1>2, <2>2 DEF IsLast
    <3> QED
      BY <1>0, <1>1, <2>2, <3>2, <3>3 DEF LastCurrent
  <2> QED
    BY <1>0, <2>1, <2>2
<1>3. ASSUME NEW e \in Devices, ~OnItsWay(e)'
      PROVE  shown[e] \in {0, hubState[e]}
  <2>1. e # d /\ ~OnItsWay(e)
    BY <1>0, <1>3 DEF OnItsWay
  <2> QED
    BY <1>1, <2>1 DEF ShownCurrent
<1> QED
  BY <1>2, <1>3 DEF LastCurrent, ShownCurrent

\* The event that is dropped is not the last one of its device, or the new one
\* takes its place.
LEMMA FollowedRoom ==
  ASSUME TypeOK, Orderly, LastCurrent, ShownCurrent,
         NEW d \in Devices, d \in unsent, unsent' = {},
         UNCHANGED <<hubState, shown>>,
         NEW event \in Events, event.device = d, event.value = hubState[d],
         MakeRoom(event), ~raced'
  PROVE  LastCurrent' /\ ShownCurrent'
<1>p. PICK o : o = Len(feed) - Buffer + 1
  OBVIOUS
<1>0. /\ o \in 1 .. Len(feed)
      /\ Len(feed) \in Nat
      /\ Len(feed') = Len(feed)
      /\ \A i \in 1 .. Len(feed) :
           feed'[i] = IF i = Len(feed) THEN event
                      ELSE IF i < o THEN feed[i] ELSE feed[i + 1]
  BY <1>p, MadeRoom DEF TypeOK
<1>1. unsent = {d}
  BY DEF Orderly
<1>2. /\ Len(feed) \in 1 .. Len(feed')
      /\ feed'[Len(feed)] = event
      /\ \A i \in 1 .. Len(feed') : i # Len(feed) =>
           \E n \in 1 .. Len(feed) :
             n # o /\ n = (IF i < o THEN i ELSE i + 1) /\ feed'[i] = feed[n]
      /\ \A n \in 1 .. Len(feed) : n # o =>
           \E i \in 1 .. Len(feed') :
             i # Len(feed) /\ i = (IF n < o THEN n ELSE n - 1) /\ feed'[i] = feed[n]
  <2>1. ASSUME NEW i \in 1 .. Len(feed), i # Len(feed)
        PROVE  \E n \in 1 .. Len(feed) :
                 n # o /\ n = (IF i < o THEN i ELSE i + 1) /\ feed'[i] = feed[n]
    <3>1. PICK n : n = IF i < o THEN i ELSE i + 1
      OBVIOUS
    <3>2. n \in 1 .. Len(feed) /\ n # o
      BY <1>0, <2>1, <3>1
    <3> QED
      BY <1>0, <2>1, <3>1, <3>2
  <2>2. ASSUME NEW n \in 1 .. Len(feed), n # o
        PROVE  \E i \in 1 .. Len(feed) :
                 i # Len(feed) /\ i = (IF n < o THEN n ELSE n - 1) /\ feed'[i] = feed[n]
    <3>1. PICK i : i = IF n < o THEN n ELSE n - 1
      OBVIOUS
    <3>2. i \in 1 .. Len(feed) /\ i # Len(feed)
          /\ n = IF i < o THEN i ELSE i + 1
      BY <1>0, <2>2, <3>1
    <3> QED
      BY <1>0, <3>1, <3>2
  <2> QED
    BY <1>0, <2>1, <2>2
<1>3. \/ feed[o].device = d
      \/ \E n \in 1 .. Len(feed) : n > o /\ feed[n].device = feed[o].device
  <2>1. feed[o].device \in {feed[i].device : i \in o + 1 .. Len(feed)} \cup {event.device}
    BY <1>p DEF MakeRoom
  <2>2. \A i \in o + 1 .. Len(feed) : i \in 1 .. Len(feed) /\ i > o
    BY <1>0
  <2> QED
    BY <2>1, <2>2
<1>4. ASSUME NEW i \in 1 .. Len(feed'), IsLast(i)'
      PROVE  feed'[i].value = hubState'[feed'[i].device]
  <2>1. CASE i = Len(feed)
    BY <1>2, <2>1
  <2>2. CASE i # Len(feed)
    <3>1. PICK n \in 1 .. Len(feed) :
            n # o /\ n = (IF i < o THEN i ELSE i + 1) /\ feed'[i] = feed[n]
      BY <1>2, <2>2
    <3>2. Len(feed) > i
      BY <1>0, <2>2
    <3>3. feed[n].device # d
      BY <1>2, <1>4, <3>1, <3>2 DEF IsLast
    <3>4. ASSUME NEW m \in 1 .. Len(feed), m > n, m # o
          PROVE  feed[m].device # feed[n].device
      <4>1. PICK j \in 1 .. Len(feed') :
              j # Len(feed) /\ j = (IF m < o THEN m ELSE m - 1) /\ feed'[j] = feed[m]
        BY <1>2, <3>4
      <4>2. j > i
        BY <1>0, <3>1, <3>4, <4>1
      <4> QED
        BY <1>4, <3>1, <4>1, <4>2 DEF IsLast
    <3>5. ASSUME o > n PROVE feed[o].device # feed[n].device
      <4>1. CASE feed[o].device = d
        BY <3>3, <4>1
      <4>2. ASSUME NEW m \in 1 .. Len(feed), m > o, feed[m].device = feed[o].device
            PROVE  feed[o].device # feed[n].device
        <5>1. m > n /\ m # o
          BY <1>0, <3>5, <4>2
        <5> QED
          BY <3>4, <4>2, <5>1
      <4> QED
        BY <1>3, <4>1, <4>2
    <3>6. IsLast(n)
      BY <3>4, <3>5 DEF IsLast
    <3> QED
      BY <1>1, <3>1, <3>3, <3>6 DEF LastCurrent
  <2> QED
    BY <2>1, <2>2
<1>5. ASSUME NEW e \in Devices, ~OnItsWay(e)'
      PROVE  shown[e] \in {0, hubState[e]}
  <2>1. e # d
    BY <1>2, <1>5 DEF OnItsWay
  <2>2. \A n \in 1 .. Len(feed) : n # o => feed[n].device # e
    BY <1>2, <1>5 DEF OnItsWay
  <2>3. feed[o].device # e
    <3>1. \A n \in 1 .. Len(feed) : n > o => n # o
      BY <1>0
    <3> QED
      BY <1>3, <2>1, <2>2, <3>1
  <2> QED
    BY <1>1, <2>1, <2>2, <2>3 DEF ShownCurrent, OnItsWay
<1> QED
  BY <1>4, <1>5 DEF LastCurrent, ShownCurrent

LEMMA FollowedStep ==
  ASSUME TypeOK, Orderly, Followed, [Next]_vars
  PROVE  Followed'
<1> USE DEF hub, model, status, link, history, rest
<1> SUFFICES ASSUME ~raced'
             PROVE  AnswersCurrent' /\ LastCurrent' /\ ShownCurrent'
  BY DEF Followed
<1>1. ~raced
  <2>1. CASE UNCHANGED raced
    BY <2>1
  <2>2. CASE StreamEnds
    BY <2>2 DEF StreamEnds
  <2>3. CASE EventArrives
    BY <2>3 DEF EventArrives
  <2>4. ASSUME NEW d \in Devices, Store(d) PROVE ~raced
    BY <2>4 DEF Store
  <2>5. ASSUME NEW d \in Devices, Publish(d) PROVE ~raced
    BY <2>5 DEF Publish, MakeRoom
  <2>6. ASSUME NEW c \in Calls, NEW d \in Devices, StatesArrive(c, d) PROVE ~raced
    BY <2>6 DEF StatesArrive
  <2> QED
    BY <2>1, <2>2, <2>3, <2>4, <2>5, <2>6, Changes
<1>2. AnswersCurrent /\ LastCurrent /\ ShownCurrent
  BY <1>1 DEF Followed
<1>3. ASSUME UNCHANGED hubState PROVE AnswersCurrent'
  BY <1>2, <1>3, AnswersStep DEF AnswersCurrent
<1>4. ASSUME UNCHANGED <<feed, shown, hubState, unsent>>
      PROVE  LastCurrent' /\ ShownCurrent'
  BY <1>2, <1>4 DEF LastCurrent, ShownCurrent, IsLast, OnItsWay
<1>5. CASE StreamEnds
  <2>1. feed' = feed /\ UNCHANGED <<shown, hubState, unsent>>
    BY <1>5 DEF StreamEnds
  <2> QED
    BY <1>3, <1>4, <2>1
<1>6. CASE EventArrives
  BY <1>2, <1>3, <1>6, FollowedArrives DEF EventArrives
<1>7. ASSUME NEW c \in Calls, NEW d \in Devices, StatesArrive(c, d)
      PROVE  AnswersCurrent' /\ LastCurrent' /\ ShownCurrent'
  <2>1. UNCHANGED <<feed, hubState, unsent>> /\ d \in DOMAIN call[c].snap
        /\ \/ shown' = [shown EXCEPT ![d] = call[c].snap[d]]
           \/ UNCHANGED shown
    BY <1>7 DEF StatesArrive
  <2>2. call[c].snap[d] = hubState[d]
    BY <1>2, <2>1 DEF AnswersCurrent
  <2>3. \A e \in Devices : shown'[e] = shown[e] \/ shown'[e] = hubState[e]
    BY <2>1, <2>2 DEF TypeOK
  <2>4. LastCurrent'
    BY <1>2, <2>1 DEF LastCurrent, IsLast
  <2>5. ShownCurrent'
    BY <1>2, <2>1, <2>3 DEF ShownCurrent, OnItsWay
  <2> QED
    BY <1>3, <2>1, <2>4, <2>5
<1>8. ASSUME NEW d \in Devices, Store(d)
      PROVE  AnswersCurrent' /\ LastCurrent' /\ ShownCurrent'
  <2>1. /\ UNCHANGED <<feed, shown, call>> /\ unsent' = {d} /\ unsent = {}
        /\ \A e \in Devices : e # d => hubState'[e] = hubState[e]
        /\ \A c \in Calls : d \notin DOMAIN call[c].snap
    BY <1>8 DEF Store, TypeOK
  <2>2. AnswersCurrent'
    BY <1>2, <2>1, Record DEF AnswersCurrent
  <2>3. LastCurrent'
    <3>1. \A i \in 1 .. Len(feed) : feed[i].device \in Devices
      BY FeedType
    <3> QED
      BY <1>2, <2>1, <3>1 DEF LastCurrent, IsLast
  <2>4. ShownCurrent'
    BY <1>2, <2>1 DEF ShownCurrent, OnItsWay
  <2> QED
    BY <2>2, <2>3, <2>4
<1>9. ASSUME NEW d \in Devices, Publish(d)
      PROVE  AnswersCurrent' /\ LastCurrent' /\ ShownCurrent'
  <2>1. d \in unsent /\ unsent' = {} /\ UNCHANGED <<hubState, shown>>
    BY <1>9 DEF Publish
  <2>2. PICK event \in Events : event = [device |-> d, value |-> hubState[d]]
    BY DEF TypeOK, Events
  <2>3. event.device = d /\ event.value = hubState[d]
    BY <2>2
  <2>4. CASE feed' = Append(feed, event)
    BY <1>2, <1>3, <2>1, <2>3, <2>4, FollowedSent
  <2>5. CASE MakeRoom(event)
    BY <1>2, <1>3, <2>1, <2>3, <2>5, FollowedRoom
  <2>6. CASE stream # "open" /\ feed' = feed /\ shown[d] \in {0, hubState[d]}
    <3>1. feed = <<>> /\ unsent = {d}
      BY <2>1, <2>6 DEF Orderly
    <3>2. LastCurrent'
      BY <2>6, <3>1 DEF LastCurrent
    <3>3. ShownCurrent'
      BY <1>2, <2>1, <2>6, <3>1 DEF ShownCurrent, OnItsWay
    <3> QED
      BY <1>3, <2>1, <3>2, <3>3
  <2> QED
    BY <1>9, <2>2, <2>3, <2>4, <2>5, <2>6 DEF Publish
<1> QED
  BY <1>3, <1>4, <1>5, <1>6, <1>7, <1>8, <1>9, Changes

\* When nothing is under way, a state on the screen is the one in the hub's
\* database, unless a value missed the screen in one of the four ways that set
\* raced: overtaken by an answer, published while the stream was not open,
\* dropped from a full buffer, or unread when the stream ended.
THEOREM CurrentUnlessRacedHolds == Spec => []CurrentUnlessRaced
<1>1. Init => TypeOK /\ Orderly /\ Followed
  BY InitType, FollowedInit
<1>2. TypeOK /\ Orderly /\ Followed /\ [Next]_vars => (TypeOK /\ Orderly /\ Followed)'
  BY TypeStep, OrderlyStep, FollowedStep
<1> QED
  BY <1>1, <1>2, CurrentFromInv, PTL DEF Spec

-----------------------------------------------------------------------------
(* How calls meet: loading, and the way from the first screens *)

\* A call that has no homes yet
Early(c) == call[c].at \in {"token", "pair", "homes"}

\* loading is set only while a call runs that will reset it.
LoadingRuns == loading => ~Idle

\* A call without homes runs alone, with loading set and before any screen
\* that offers more; an app that is not paired has no others.
AloneAtFirst ==
  /\ \A c \in Calls : Early(c) => /\ loading /\ homes = <<>>
                                  /\ \A b \in Calls : Active(b) => b = c
                                  /\ call[c].at = "homes" => paired
  /\ ~paired => homes = <<>> /\ \A c \in Calls : Active(c) => Early(c)
  /\ dashboard => homes # <<>>
  /\ \A c \in Calls : call[c].at \in {"create", "commission"} =>
       call[c].op # "pair"

\* A token is used, unless a request failed or the hub has no home.
TokenUsed ==
  token /\ faults = 0 /\ hubHomes # <<>> =>
    paired \/ \E c \in Calls : call[c].at = "token"

Entering == LoadingRuns /\ AloneAtFirst /\ TokenUsed

LEMMA EnteringInit == Init => Entering
<1> SUFFICES ASSUME Init PROVE Entering
  OBVIOUS
<1>1. 1 \in Calls
  BY AppAssumption DEF Calls
<1>2. /\ call[1].at = "token" /\ call[1].op = "initialize"
      /\ \A c \in Calls : c # 1 => call[c].at = "off"
      /\ loading /\ homes = <<>> /\ ~dashboard
  BY <1>1 DEF Init, NoCall
<1> QED
  BY <1>1, <1>2
  DEF Entering, LoadingRuns, AloneAtFirst, TokenUsed, Early, Active, Idle

\* A call that ends outside selectHome
LEMMA EnteringThrow ==
  ASSUME TypeOK, Entering, NEW c \in Calls, Active(c), Throw(c),
         \A b \in Calls : b # c => call'[b] = call[b],
         Early(c) \/ call[c].at \in {"create", "commission"},
         (token /\ faults = 0 /\ hubHomes # <<>>)' =>
           /\ call[c].at = "commission"
           /\ token /\ faults = 0 /\ hubHomes # <<>>
  PROVE  Entering'
<1>1. /\ call'[c].at = "off" /\ ~loading' /\ homes' = homes
      /\ paired' = (paired /\ call[c].op # "pair")
      /\ dashboard' = (paired' /\ homes' # <<>>)
  BY DEF Throw, Finally, Build, NoCall, TypeOK
<1>2. CASE Early(c)
  <2>1. homes = <<>> /\ \A b \in Calls : call'[b].at = "off"
    BY <1>1, <1>2 DEF Entering, AloneAtFirst, Active
  <2>2. AloneAtFirst'
    BY <1>1, <2>1 DEF AloneAtFirst, Early, Active
  <2>3. TokenUsed'
    BY <1>2 DEF TokenUsed, Early
  <2> QED
    BY <1>1, <2>2, <2>3 DEF Entering, LoadingRuns
<1>3. CASE ~Early(c)
  <2>1. /\ paired /\ paired'
        /\ \A b \in Calls : ~Early(b)
    BY <1>1, <1>3 DEF Entering, AloneAtFirst
  <2>2. \A b \in Calls : ~Early(b)'
    BY <1>1, <2>1 DEF Early
  <2>3. AloneAtFirst'
    BY <1>1, <2>1, <2>2 DEF Entering, AloneAtFirst
  <2> QED
    BY <1>1, <2>1, <2>3 DEF Entering, LoadingRuns, TokenUsed
<1> QED
  BY <1>2, <1>3

\* A call that goes on with selectHome, or ends in it
LEMMA EnteringSelects ==
  ASSUME TypeOK, Entering, NEW c \in Calls,
         \A b \in Calls : b # c => call'[b] = call[b],
         Active(c), call'[c].at \in {"off", "lists", "listed", "states"},
         loading' => call'[c].at # "off",
         paired' = paired, faults' >= faults, token' = token,
         Early(c) => call[c].at = "homes" /\ hubHomes # <<>>,
         hubHomes' # <<>> /\ hubHomes = <<>> => ~Early(c),
         dashboard' => dashboard \/ homes' # <<>>,
         homes' = homes \/ homes' # <<>>
  PROVE  Entering'
<1>1. /\ paired
      /\ \A b \in Calls : Early(b) => b = c
  BY DEF Entering, AloneAtFirst, Early
<1>2. \A b \in Calls : ~Early(b)'
  BY <1>1 DEF Early
<1>3. AloneAtFirst'
  BY <1>1, <1>2 DEF Entering, AloneAtFirst, Early
<1>4. TokenUsed' /\ LoadingRuns'
  BY <1>1 DEF TokenUsed, Entering, LoadingRuns, Idle, Active
<1> QED
  BY <1>3, <1>4 DEF Entering

\* A step that leaves the calls alone
LEMMA EnteringRest ==
  ASSUME Entering,
         UNCHANGED <<call, loading, paired, homes, token, hubHomes>>,
         faults' = 0 => faults = 0,
         dashboard' => homes # <<>> \/ dashboard
  PROVE  Entering'
  BY DEF Entering, LoadingRuns, AloneAtFirst, TokenUsed, Early, Active, Idle

LEMMA EnteringStep ==
  ASSUME TypeOK, Entering, [Next]_vars
  PROVE  Entering'
<1> USE DEF hub, model, status, link, history, rest
<1>0. DOMAIN call = Calls /\ faults \in Nat
  BY AppAssumption DEF TypeOK
<1>1. CASE Connected \/ StreamEnds \/ EventArrives
  <2>1. UNCHANGED <<call, loading, paired, homes, token, hubHomes>>
    BY <1>1 DEF Connected, StreamEnds, EventArrives
  <2>2. faults' = faults \/ faults' = faults + 1
    BY <1>1 DEF Connected, StreamEnds, EventArrives, Fault
  <2>3. dashboard' => homes # <<>> \/ dashboard
    BY <1>1 DEF Connected, StreamEnds, EventArrives, Build
  <2> QED
    BY <1>0, <2>1, <2>2, <2>3, EnteringRest
<1>2. CASE UNCHANGED vars \/ \E d \in Devices : Store(d) \/ Publish(d)
  <2>1. UNCHANGED <<call, loading, paired, homes, token, hubHomes, faults, dashboard>>
    <3>1. CASE UNCHANGED vars
      BY <3>1 DEF vars
    <3>2. ASSUME NEW d \in Devices, Store(d) \/ Publish(d)
          PROVE  UNCHANGED <<call, loading, paired, homes, token, hubHomes, faults,
                             dashboard>>
      BY <3>2 DEF Store, Publish
    <3> QED
      BY <1>2, <3>1, <3>2
  <2> QED
    BY <2>1, EnteringRest
<1>3. SUFFICES ASSUME NEW c \in Calls, Proceed(c) \/ Fails(c) \/ User(c)
               PROVE  Entering'
  BY <1>1, <1>2 DEF Next
<1>4. \A b \in Calls : b # c => call'[b] = call[b]
  BY <1>3, OthersStay
<1>5. CASE TokenRead(c)
  <2>1. /\ Active(c) /\ Early(c) /\ paired' = token /\ UNCHANGED <<homes, dashboard>>
        /\ \/ token /\ call'[c].at = "homes" /\ loading' = loading
           \/ ~token /\ call'[c].at = "off" /\ ~loading'
    BY <1>0, <1>5, Record DEF TokenRead, Await, Active, NoCall, Early
  <2>2. homes = <<>> /\ ~dashboard /\ \A b \in Calls : b # c => call'[b].at = "off"
    BY <1>4, <2>1 DEF Entering, AloneAtFirst, Active
  <2>3. AloneAtFirst'
    BY <2>1, <2>2 DEF Entering, AloneAtFirst, Early, Active
  <2>4. TokenUsed'
    BY <1>5, <2>1 DEF TokenRead, TokenUsed
  <2>5. LoadingRuns'
    BY <2>1 DEF LoadingRuns, Idle, Active
  <2> QED
    BY <2>3, <2>4, <2>5 DEF Entering
<1>6. CASE PairAccepted(c)
  <2>1. /\ Active(c) /\ Early(c) /\ paired' /\ UNCHANGED <<homes, dashboard, loading>>
        /\ call'[c].at = "homes"
    BY <1>0, <1>6, Record DEF PairAccepted, Await, Active, Early
  <2>2. homes = <<>> /\ ~dashboard /\ \A b \in Calls : b # c => call'[b].at = "off"
    BY <1>4, <2>1 DEF Entering, AloneAtFirst, Active
  <2>3. AloneAtFirst'
    BY <2>1, <2>2 DEF Entering, AloneAtFirst, Early, Active
  <2>4. TokenUsed' /\ LoadingRuns'
    BY <2>1 DEF TokenUsed, LoadingRuns, Idle, Active
  <2> QED
    BY <2>3, <2>4 DEF Entering
<1>7. CASE HomesUnreadable(c) \/ DeviceRefused(c)
  <2>1. /\ Throw(c) /\ Active(c) /\ UNCHANGED <<token, faults, hubHomes>>
        /\ \/ call[c].at = "homes" /\ hubHomes = <<>>
           \/ call[c].at = "commission"
    BY <1>7 DEF HomesUnreadable, DeviceRefused, Active, Decodes
  <2> QED
    BY <1>4, <2>1, EnteringThrow DEF Early
<1>8. CASE CallFails(c) \/ AnswerLost(c)
  <2>1. /\ Throw(c) /\ Active(c) /\ faults' # 0
        /\ Early(c) \/ call[c].at \in {"create", "commission"}
    BY <1>0, <1>8 DEF CallFails, AnswerLost, Active, Fault, Early
  <2> QED
    BY <1>4, <2>1, EnteringThrow
<1>9. CASE HomesArrive(c) \/ HomeCreated(c) \/ DeviceCommissioned(c)
  <2>1. ASSUME NEW h, SelectIn(c, h)
        PROVE  call'[c].at = "lists"
    <3>1. PICK r : r = [call[c] EXCEPT !.at = "lists", !.home = h]
      OBVIOUS
    <3>2. call' = [call EXCEPT ![c] = r]
      BY <1>0, <2>1, <3>1 DEF SelectIn
    <3>3. r.at = "lists"
      BY <3>1, Record DEF CallRecords
    <3> QED
      BY <1>0, <3>2, <3>3
  <2>2. /\ call'[c].at = "lists" /\ Active(c)
        /\ UNCHANGED <<loading, paired, dashboard, faults, token>>
    BY <1>9, <2>1 DEF HomesArrive, HomeCreated, DeviceCommissioned, Active
  <2>3. CASE HomesArrive(c)
    <3>1. call[c].at = "homes" /\ hubHomes # <<>> /\ homes' # <<>>
      BY <2>3 DEF HomesArrive, Decodes
    <3> QED
      BY <1>0, <1>4, <2>2, <3>1, EnteringSelects
  <2>4. CASE HomeCreated(c)
    <3>1. ~Early(c) /\ homes' # <<>>
      <4>1. PICK h \in Homes : homes' = Append(homes, h)
        BY <2>4 DEF HomeCreated
      <4>2. homes' # <<>>
        <5>1. homes \in Seq(Homes)
          BY DEF TypeOK
        <5>2. Len(Append(homes, h)) = Len(homes) + 1 /\ Len(homes) \in Nat
          BY ONLY <5>1, h \in Homes
        <5>3. Len(<<>>) = 0
          OBVIOUS
        <5> QED
          BY <4>1, <5>2, <5>3
      <4> QED
        BY <2>4, <4>2 DEF HomeCreated, Early
    <3> QED
      BY <1>0, <1>4, <2>2, <3>1, EnteringSelects
  <2>5. CASE DeviceCommissioned(c)
    <3>1. ~Early(c) /\ homes' = homes
      BY <2>5 DEF DeviceCommissioned, Early
    <3> QED
      BY <1>0, <1>4, <2>2, <3>1, EnteringSelects
  <2> QED
    BY <1>9, <2>3, <2>4, <2>5
<1>10. CASE ListsUnreadable(c) \/ ListsFail(c) \/ AllLoaded(c)
  <2>1. /\ Active(c) /\ ~Early(c) /\ call'[c].at = "off" /\ ~loading'
        /\ UNCHANGED <<paired, token, homes, hubHomes>>
        /\ dashboard' => homes' # <<>>
    <3>1. PICK bad : Return(c, bad)
      BY <1>10 DEF ListsUnreadable, ListsFail, AllLoaded
    <3>2. /\ call[c].at \in {"lists", "listed", "states"}
          /\ UNCHANGED <<paired, token, homes, hubHomes>>
      BY <1>10 DEF ListsUnreadable, ListsFail, AllLoaded
    <3>3. /\ call'[c].at = "off" /\ ~loading'
          /\ dashboard' => homes # <<>>
      BY <1>0, <3>1 DEF Return, Finally, NoCall, Build
    <3> QED
      BY <3>2, <3>3 DEF Active, Early
  <2>2. faults' >= faults
    <3>1. faults' = faults \/ faults' = faults + 1
      BY <1>10 DEF ListsUnreadable, ListsFail, AllLoaded, Fault
    <3> QED
      BY <1>0, <3>1
  <2> QED
    BY <1>4, <2>1, <2>2, EnteringSelects
<1>11. CASE HubLists(c) \/ ListsArrive(c)
            \/ \E d \in Devices : HubReads(c, d) \/ StatesArrive(c, d) \/ StatesFail(c, d)
  <2>1. /\ Active(c) /\ ~Early(c)
        /\ UNCHANGED <<paired, token, homes, hubHomes, loading>>
    BY <1>11
    DEF HubLists, ListsArrive, HubReads, StatesArrive, StatesFail, Active, Early
  <2>2. faults' >= faults
    <3>1. faults' = faults \/ faults' = faults + 1
      BY <1>11 DEF HubLists, ListsArrive, HubReads, StatesArrive, StatesFail, Fault
    <3> QED
      BY <1>0, <3>1
  <2>3. dashboard' = dashboard
    BY <1>11 DEF HubLists, ListsArrive, HubReads, StatesArrive, StatesFail
  <2>4. call'[c].at \in {"listed", "states"}
    <3>1. CASE HubLists(c)
      BY <3>1, HubListsCall, CallIs
    <3>2. CASE ListsArrive(c)
      BY <1>0, <3>2, Record DEF ListsArrive, Await
    <3>3. ASSUME NEW d \in Devices, HubReads(c, d)
          PROVE  call'[c].at = "states"
      <4>1. call'[c].at = call[c].at
        BY <3>3, HubReadsCall, CallIs
      <4> QED
        BY <3>3, <4>1 DEF HubReads
    <3>4. ASSUME NEW d \in Devices, StatesArrive(c, d)
          PROVE  call'[c].at = "states"
      <4>1. call'[c].at = call[c].at
        BY <3>4, StatesArriveCall, CallIs
      <4> QED
        BY <3>4, <4>1 DEF StatesArrive
    <3>5. ASSUME NEW d \in Devices, StatesFail(c, d)
          PROVE  call'[c].at = "states"
      BY <1>0, <3>5, Record DEF StatesFail
    <3> QED
      BY <1>11, <3>1, <3>2, <3>3, <3>4, <3>5
  <2> QED
    BY <1>4, <2>1, <2>2, <2>3, <2>4, EnteringSelects
<1>12. ASSUME NEW op \in {"pair", "create", "commission"}, Tap(c, op)
       PROVE  Entering'
  <2>1. /\ ~Active(c) /\ ~loading /\ loading'
        /\ call'[c].at = op /\ call'[c].op = op
        /\ dashboard' = (paired /\ homes # <<>>)
        /\ UNCHANGED <<paired, homes, token, faults, hubHomes>>
    BY <1>0, <1>12 DEF Tap, Build, NoCall
  <2>2. \A b \in Calls : ~Early(b)
    BY <2>1 DEF Entering, AloneAtFirst
  <2>3. op = "pair" => ~paired
    BY <1>12 DEF Tap, Offered
  <2>4. op # "pair" => paired
    BY <1>12 DEF Tap, Offered, Entering, AloneAtFirst
  <2>5. op = "pair" => homes = <<>> /\ \A b \in Calls : ~Active(b)
    BY <2>2, <2>3 DEF Entering, AloneAtFirst
  <2>6. AloneAtFirst'
    BY <1>4, <2>1, <2>2, <2>4, <2>5 DEF Entering, AloneAtFirst, Early, Active
  <2>7. TokenUsed'
    BY <2>1, <2>2 DEF Entering, TokenUsed, Early
  <2>8. LoadingRuns'
    BY <2>1 DEF LoadingRuns, Idle, Active
  <2> QED
    BY <2>6, <2>7, <2>8 DEF Entering
<1>13. ASSUME NEW h \in Homes, Select(c, h)
       PROVE  Entering'
  <2>1. /\ dashboard /\ loading' /\ call'[c].at = "lists"
        /\ dashboard' = (paired /\ homes # <<>>)
        /\ UNCHANGED <<paired, homes, token, faults, hubHomes>>
    BY <1>0, <1>13 DEF Select, Build, NoCall
  <2>2. homes # <<>> /\ paired /\ \A b \in Calls : ~Early(b)
    BY <2>1 DEF Entering, AloneAtFirst
  <2>3. AloneAtFirst'
    BY <1>4, <2>1, <2>2 DEF Entering, AloneAtFirst, Early
  <2>4. TokenUsed' /\ LoadingRuns'
    BY <2>1, <2>2 DEF TokenUsed, LoadingRuns, Idle, Active
  <2> QED
    BY <2>3, <2>4 DEF Entering
<1> QED
  BY <1>3, <1>5, <1>6, <1>7, <1>8, <1>9, <1>10, <1>11, <1>12, <1>13
  DEF Proceed, Fails, User

LEMMA EnteringHolds == Spec => [](TypeOK /\ Entering)
<1>1. TypeOK /\ Entering /\ [Next]_vars => (TypeOK /\ Entering)'
  BY TypeStep, EnteringStep
<1> QED
  BY InitType, EnteringInit, <1>1, PTL DEF Spec

\* The safety half of Settles: whenever loading is set, a call runs that will
\* reset it when it ends, however calls overlapped and failed before.
THEOREM LoadingRunsHolds == Spec => []LoadingRuns
<1>1. Entering => LoadingRuns
  BY DEF Entering
<1> QED
  BY <1>1, EnteringHolds, PTL

\* With a token and a hub that has a home, an app in which no request failed
\* ends up paired: the null of an empty list is the only other way to lose it.
THEOREM PairingHoldsWithHomesHolds == Spec => []PairingHoldsWithHomes
<1>1. Entering => PairingHoldsWithHomes
  BY DEF Entering, TokenUsed, PairingHoldsWithHomes, Idle, Active
<1> QED
  BY <1>1, EnteringHolds, PTL
=============================================================================
