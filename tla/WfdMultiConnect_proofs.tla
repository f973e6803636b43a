------------------------ MODULE WfdMultiConnect_proofs ------------------------
(***************************************************************************)
(* Proofs about WfdMultiConnect, for every number of devices and every     *)
(* bound on the load.                                                      *)
(***************************************************************************)
EXTENDS WfdMultiConnect, TLAPS

Kind == {"next", "reset"}

\* What appending to the queue and taking its head does to the entries.
LEMMA AppendEntries ==
    ASSUME NEW s \in Seq(Kind), NEW x \in Kind
    PROVE  /\ Append(s, x) \in Seq(Kind)
           /\ Len(Append(s, x)) = Len(s) + 1
           /\ Append(s, x)[Len(s) + 1] = x
           /\ \A i \in 1..Len(s) : Append(s, x)[i] = s[i]
  OBVIOUS

LEMMA TailEntries ==
    ASSUME NEW s \in Seq(Kind), s # <<>>
    PROVE  /\ Tail(s) \in Seq(Kind)
           /\ Len(s) \in Nat \ {0}
           /\ Len(Tail(s)) = Len(s) - 1
           /\ Head(s) = s[1]
           /\ \A i \in 1..Len(Tail(s)) : Tail(s)[i] = s[i + 1]
  OBVIOUS

\* The daemon's answer, and with it the gadget's copy, is a link state.
LEMMA RefreshType ==
    ASSUME NEW old \in LinkStatus, Refresh(old)
    PROVE  wfd_status' \in LinkStatus
  BY DEF Refresh, LinkStates, LinkStatus

LEMMA UpdatePeersType ==
    ASSUME NEW st PROVE UpdatePeers(st) \subseteq Button
  BY DEF UpdatePeers, Button

LEMMA RetitledType ==
    ASSUME NEW b \in Button, NEW st PROVE Retitled(b, st) \in Button
  BY DEF Retitled, TitleText, Button

LEMMA StatusType ==
    {OUT, WAIT, CONNECTING, CONNECTED, FAILED, DISCONNECTED} \subseteq Status
  BY DEF Status

LEMMA AskType ==
    ASSUME NEW entries \in [Peer -> Status], NEW cands \in SUBSET Peer,
           NEW p \in Peer, pending \subseteq Peer, Ask(entries, cands, p)
    PROVE  sel' \in [Peer -> Status] /\ pending' \subseteq Peer
  BY StatusType DEF Ask, ConnectedTo

LEMMA RefusedType ==
    ASSUME NEW entries \in [Peer -> Status], NEW cands \in SUBSET Peer
    PROVE  AllRefused(entries, cands) \in [Peer -> Status]
  BY StatusType DEF AllRefused

LEMMA EntriesType ==
    ASSUME NEW S \in SUBSET Peer PROVE Entries(S) \in [Peer -> Status]
  BY StatusType DEF Entries

-----------------------------------------------------------------------------

\* Every step keeps every variable in its type.
LEMMA TypeStep == TypeOK /\ [Next]_vars => TypeOK'
<1> SUFFICES ASSUME TypeOK, [Next]_vars PROVE TypeOK'
  OBVIOUS
<1> USE DEF TypeOK
<1>1. CASE RealizeButton
  BY <1>1, RefreshType DEF RealizeButton, daemon, history, Button
<1>2. CASE NextCb
  <2>1. timers' \in Seq(Kind)
    BY <1>2, TailEntries, AppendEntries
    DEF NextCb, NextAgain, NextAsks, NextStops, Stop, Kind
  <2>2. sel' \in [Peer -> Status] /\ pending' \subseteq Peer
    BY <1>2, AskType, RefusedType DEF NextCb, NextAgain, NextAsks, NextStops, Having
  <2>3. mode' \in {NONE, IN_PROGRESS, COMPLETED} /\ intent' \in {7, 15}
    BY <1>2 DEF NextCb, NextAgain, NextAsks, NextStops, Stop, SetIntent
  <2>4. QED
    BY <1>2, <2>1, <2>2, <2>3 DEF NextCb, screen, history, Kind
<1>3. CASE ResetCb
  BY <1>3, TailEntries, UpdatePeersType, StatusType DEF ResetCb, daemon, history, Kind
<1>4. ASSUME NEW S \in SUBSET Peer, ConnectBtn(S) PROVE TypeOK'
  <2>1. sel' \in [Peer -> Status] /\ pending' \subseteq Peer
    BY <1>4, AskType, RefusedType, EntriesType
    DEF ConnectBtn, StartAsks, StartAllRefused, StartNoIntent, StartEmpty
  <2>2. mode' \in {NONE, IN_PROGRESS, COMPLETED} /\ intent' \in {7, 15}
    BY <1>4 DEF ConnectBtn, StartAsks, StartAllRefused, StartNoIntent, StartEmpty
  <2>3. btn' \in Button /\ wfd_status' \in LinkStatus
    BY <1>4, RetitledType, UpdatePeersType, RefreshType
    DEF ConnectBtn, ChangeMultiButtonTitle
  <2>4. clean' \in BOOLEAN /\ undisturbed' \in BOOLEAN
    BY <1>4 DEF ConnectBtn
  <2>5. QED
    BY <1>4, <2>1, <2>2, <2>3, <2>4 DEF ConnectBtn
<1>5. CASE MultiButton
  BY <1>5 DEF MultiButton, daemon
<1>6. CASE BackBtn
  BY <1>6 DEF BackBtn, daemon, history
<1>7. CASE ScanBtn
  BY <1>7, RefreshType DEF ScanBtn, daemon, history
<1>8. CASE PopupOk
  BY <1>8, RefreshType, AppendEntries DEF PopupOk, Stop, SetIntent, daemon, Kind
<1>9. CASE PopupCancel
  BY <1>9 DEF PopupCancel, daemon, history
<1>10. ASSUME NEW p \in Peer, NEW ok \in BOOLEAN, ConnectionRsp(p, ok) PROVE TypeOK'
  <2>1. btn' \in Button /\ wfd_status' \in LinkStatus
    BY <1>10, RefreshType, UpdatePeersType DEF ConnectionRsp, LinkStatus
  <2>2. sel' \in [Peer -> Status] /\ timers' \in Seq(Kind)
    BY <1>10, StatusType, AppendEntries DEF ConnectionRsp, Answered, Kind
  <2>3. QED
    BY <1>10, <2>1, <2>2 DEF ConnectionRsp, history, Kind
<1>11. ASSUME NEW p \in Peer, NEW ok \in BOOLEAN, DisconnectionEvent(p, ok)
       PROVE TypeOK'
  <2>1. btn' \in Button /\ wfd_status' \in LinkStatus
    BY <1>11, RefreshType, UpdatePeersType DEF DisconnectionEvent, LinkStatus
  <2>2. QED
    BY <1>11, <2>1, StatusType DEF DisconnectionEvent, history
<1>12. ASSUME NEW p \in Peer, NEW inProgress \in BOOLEAN,
              ProgressEvent(p, inProgress)
       PROVE TypeOK'
  <2>1. btn' \in Button /\ wfd_status' \in LinkStatus
    BY <1>12, RefreshType, UpdatePeersType, RetitledType DEF ProgressEvent
  <2>2. QED
    BY <1>12, <2>1, StatusType DEF ProgressEvent, daemon, history
<1>13. ASSUME NEW p \in Peer, OtherConnect(p) PROVE TypeOK'
  BY <1>13 DEF OtherConnect, screen
<1>14. CASE DiscoverCb
  BY <1>14, UpdatePeersType DEF DiscoverCb, daemon, history
<1>15. CASE Deactivated
  BY <1>15, UpdatePeersType, RefreshType DEF Deactivated, history
<1>16. CASE Activated
  BY <1>16, RefreshType DEF Activated, history
<1>17. CASE UNCHANGED vars
  BY <1>17 DEF vars
<1>18. QED
  BY <1>1, <1>2, <1>3, <1>4, <1>5, <1>6, <1>7, <1>8, <1>9, <1>10, <1>11,
     <1>12, <1>13, <1>14, <1>15, <1>16, <1>17
  DEF Next, Timer, User, Daemon, Answer

\* Every variable stays in its type (TypeOK): the handlers never leave a status,
\* a queue entry or a button that the others do not know.
THEOREM TypeCorrect == Spec => []TypeOK
<1>1. Init => TypeOK
  BY DEF Init, TypeOK, Button, Status, LinkStatus
<1>2. QED
  BY <1>1, TypeStep, PTL DEF Spec

-----------------------------------------------------------------------------

\* What a step that appends to the queue, takes its head or moves it to the end
\* does to the places where a kind of timeout is queued.
LEMMA QueuedAppend ==
    ASSUME timers \in Seq(Kind), NEW x \in Kind, timers' = Append(timers, x)
    PROVE  /\ Queued(x)' = Queued(x) \cup {Len(timers) + 1}
           /\ \A k \in Kind : k # x => Queued(k)' = Queued(k)
  BY AppendEntries DEF Queued, Kind

LEMMA QueuedTail ==
    ASSUME timers \in Seq(Kind), timers # <<>>, timers' = Tail(timers)
    PROVE  \A k \in Kind :
             /\ \A i \in Queued(k)' : i + 1 \in Queued(k)
             /\ \A i \in Queued(k) : i # 1 => i - 1 \in Queued(k)'
  BY TailEntries DEF Queued, Kind

LEMMA QueuedRotate ==
    ASSUME timers \in Seq(Kind), timers # <<>>, NEW x \in Kind,
           timers' = Append(Tail(timers), x)
    PROVE  /\ Len(timers) \in Queued(x)'
           /\ \A k \in Kind : \A i \in Queued(k)' :
                i + 1 \in Queued(k) \/ (k = x /\ i = Len(timers))
           /\ \A k \in Kind : \A i \in Queued(k) : i # 1 => i - 1 \in Queued(k)'
<1>1. /\ Tail(timers) \in Seq(Kind)
      /\ Len(Tail(timers)) = Len(timers) - 1
      /\ Len(timers) \in Nat \ {0}
      /\ \A i \in 1..(Len(timers) - 1) : Tail(timers)[i] = timers[i + 1]
  BY TailEntries
<1>2. /\ Len(timers') = Len(timers)
      /\ timers'[Len(timers)] = x
      /\ \A i \in 1..(Len(timers) - 1) : timers'[i] = timers[i + 1]
  BY <1>1, AppendEntries
<1>3. Len(timers) \in Queued(x)'
  BY <1>1, <1>2 DEF Queued
<1>4. ASSUME NEW k \in Kind, NEW i \in Queued(k)'
      PROVE  i + 1 \in Queued(k) \/ (k = x /\ i = Len(timers))
  <2>1. i \in 1..Len(timers) /\ timers'[i] = k
    BY <1>2, <1>4 DEF Queued
  <2>2. CASE i = Len(timers)
    BY <1>2, <2>1, <2>2
  <2>3. CASE i # Len(timers)
    <3>1. i \in 1..(Len(timers) - 1) /\ i + 1 \in 1..Len(timers)
      <4>1. Len(timers) \in Nat
        BY <1>1
      <4>2. i \in 1..Len(timers)
        BY <2>1
      <4>3. QED
        BY <4>1, <4>2, <2>3
    <3>2. timers[i + 1] = k
      BY <1>2, <2>1, <3>1
    <3>3. QED
      BY <3>1, <3>2 DEF Queued
  <2>4. QED
    BY <2>2, <2>3
<1>5. ASSUME NEW k \in Kind, NEW i \in Queued(k), i # 1
      PROVE  i - 1 \in Queued(k)'
  <2>1. i - 1 \in 1..(Len(timers) - 1) /\ timers[(i - 1) + 1] = k
    BY <1>1, <1>5 DEF Queued
  <2>2. QED
    BY <1>1, <1>2, <2>1 DEF Queued
<1>6. QED
  BY <1>3, <1>4, <1>5

\* The three facts of an invariance proof, for IInv.
LEMMA InitIInv == Init => IInv
  BY DEF Init, IInv, TypeOK, OneActive, CompletedHasReset, ResetIsOwn, Active,
         Having, Selected, Queued, Button, Status, LinkStatus, NONE, COMPLETED, OUT,
         CONNECTING

\* A queued reset is only lost by firing, and firing it ends COMPLETED.
LEMMA CompletedStep ==
    ASSUME TypeOK, CompletedHasReset, [Next]_vars
    PROVE  CompletedHasReset'
<1> USE DEF TypeOK, CompletedHasReset
<1>1. CASE NextCb
  <2>1. timers # <<>> /\ timers \in Seq(Kind) /\ timers[1] = "next"
    BY <1>1, TailEntries DEF NextCb, Kind
  <2>2. CASE NextStops
    BY <2>1, <2>2, QueuedRotate DEF NextStops, Stop, Kind
  <2>3. CASE NextAsks
    BY <2>3 DEF NextAsks, IN_PROGRESS, COMPLETED
  <2>4. CASE NextAgain
    <3>1. \A i \in Queued("reset") : i - 1 \in Queued("reset")'
      BY <2>1, <2>4, QueuedRotate DEF NextAgain, Kind, Queued
    <3>2. QED
      BY <2>4, <3>1 DEF NextAgain
  <2>5. QED
    BY <1>1, <2>2, <2>3, <2>4 DEF NextCb
<1>2. CASE ResetCb
  BY <1>2 DEF ResetCb, NONE, COMPLETED
<1>3. ASSUME NEW S \in SUBSET Peer, ConnectBtn(S) PROVE CompletedHasReset'
  <2>1. mode' = IN_PROGRESS \/ mode' = mode
    BY <1>3 DEF ConnectBtn, StartAsks, StartAllRefused, StartNoIntent, StartEmpty
  <2>2. Queued("reset")' = Queued("reset")
    BY <1>3 DEF ConnectBtn, Queued
  <2>3. QED
    BY <2>1, <2>2 DEF IN_PROGRESS, COMPLETED
<1>4. CASE PopupOk
  <2>1. CASE mode = IN_PROGRESS
    BY <1>4, <2>1, QueuedAppend DEF PopupOk, Stop, Kind
  <2>2. CASE mode # IN_PROGRESS
    BY <1>4, <2>2 DEF PopupOk, Queued
  <2>3. QED
    BY <2>1, <2>2
<1>5. ASSUME NEW p \in Peer, NEW ok \in BOOLEAN, ConnectionRsp(p, ok)
      PROVE  CompletedHasReset'
  <2>1. mode' = mode
    BY <1>5 DEF ConnectionRsp
  <2>2. CASE timers' = timers
    BY <2>1, <2>2 DEF Queued
  <2>3. CASE mode = IN_PROGRESS
    BY <2>1, <2>3 DEF IN_PROGRESS, COMPLETED
  <2>4. QED
    BY <1>5, <2>2, <2>3 DEF ConnectionRsp
<1>6. CASE MultiButton
  BY <1>6 DEF MultiButton, Queued, NONE, COMPLETED
<1>7. ASSUME UNCHANGED <<mode, timers>> PROVE CompletedHasReset'
  BY <1>7 DEF Queued
<1>8. QED
  BY <1>1, <1>2, <1>3, <1>4, <1>5, <1>6, <1>7
  DEF Next, Timer, User, Daemon, Answer, RealizeButton, BackBtn, ScanBtn,
      PopupCancel, DisconnectionEvent, ProgressEvent, OtherConnect, DiscoverCb,
      Deactivated, Activated, vars

\* A step after which Active is no larger and the queue holds no more "next"
\* keeps OneActive.
LEMMA OneActiveShrinks ==
    ASSUME OneActive, clean \in BOOLEAN, clean' = clean, Active' \subseteq Active,
           timers \in Seq(Kind),
           \/ Queued("next")' \subseteq Queued("next")
           \/ timers # <<>> /\ timers' = Tail(timers)
    PROVE  OneActive'
<1> SUFFICES ASSUME clean' PROVE OneActive'
  BY DEF OneActive
<1>1. /\ \A p, q \in Active : p = q
      /\ \A i, j \in Queued("next") : i = j
      /\ Active # {} => Queued("next") = {}
  BY DEF OneActive
<1>2. CASE Queued("next")' \subseteq Queued("next")
  BY <1>1, <1>2 DEF OneActive
<1>3. CASE timers # <<>> /\ timers' = Tail(timers)
  <2>1. \A i \in Queued("next")' : i \in Nat /\ i + 1 \in Queued("next")
    BY <1>3, QueuedTail, TailEntries DEF Queued, Kind
  <2>2. \A i, j \in Queued("next")' : i = j
    BY <2>1, <1>1
  <2>3. QED
    BY <2>1, <2>2, <1>1 DEF OneActive
<1>4. QED
  BY <1>2, <1>3

\* Before "next" fires in a clean session nothing is active, and afterwards the
\* queue holds no other "next".
LEMMA NextIsLast ==
    ASSUME TypeOK, OneActive, clean, timers # <<>>, Head(timers) = "next"
    PROVE  Active = {} /\ \A i \in Queued("next") : i = 1
<1>1. 1 \in Queued("next")
  BY TailEntries DEF Queued, TypeOK, Kind
<1>2. QED
  BY <1>1 DEF OneActive

LEMMA OneActiveNextCb ==
    ASSUME TypeOK, OneActive, NextCb PROVE OneActive'
<1> USE DEF TypeOK
<1> SUFFICES ASSUME clean' PROVE OneActive'
  BY DEF OneActive
<1>1. /\ clean /\ timers # <<>> /\ Head(timers) = "next"
      /\ timers \in Seq(Kind) /\ Len(timers) \in Nat
  BY TailEntries DEF NextCb, history, Kind
<1>2. Active = {} /\ \A i \in Queued("next") : i = 1
  BY <1>1, NextIsLast
<1>3. CASE NextAgain
  <2>1. Active' = {}
    BY <1>2, <1>3 DEF NextAgain, NextCb, Active, Having, Selected
  <2>2. \A i \in Queued("next")' : i = Len(timers)
    <3>1. \A i \in Queued("next")' : i + 1 \in Queued("next") \/ i = Len(timers)
      BY <1>1, <1>3, QueuedRotate DEF NextAgain, Kind
    <3>2. \A i \in Queued("next")' : i \in Nat /\ i >= 1
      BY <1>1, <1>3, TailEntries, AppendEntries DEF NextAgain, Queued, Kind
    <3>3. QED
      BY <3>1, <3>2, <1>2
  <2>3. QED
    BY <2>1, <2>2 DEF OneActive
<1>4. ASSUME \A i \in Queued("next")' : i + 1 \in Queued("next")
      PROVE  Queued("next")' = {}
  <2>1. \A i \in Queued("next")' : i \in Nat /\ i >= 1
    BY <1>1, TypeStep DEF Queued, Next, Timer
  <2>2. QED
    BY <1>2, <1>4, <2>1
<1>5. CASE NextAsks
  <2>1. Queued("next")' = {}
    BY <1>1, <1>4, <1>5, QueuedTail DEF NextAsks, Kind
  <2>2. PICK p \in Having(WAIT) : Ask(sel, Having(WAIT), p)
    BY <1>5 DEF NextAsks
  <2>3. Active' \subseteq {p}
    BY <1>2, <2>2 DEF Ask, ConnectedTo, Active, Having, Selected, OUT, WAIT,
                      CONNECTING, FAILED
  <2>4. QED
    BY <2>1, <2>3 DEF OneActive
<1>6. CASE NextStops
  <2>1. Active' = {}
    BY <1>2, <1>6 DEF NextStops, NextCb, AllRefused, Active, Having, Selected,
                      OUT, WAIT, CONNECTING, FAILED
  <2>2. \A i \in Queued("next")' : i + 1 \in Queued("next")
    BY <1>1, <1>6, QueuedRotate DEF NextStops, Stop, Kind
  <2>3. QED
    BY <1>4, <2>1, <2>2 DEF OneActive
<1>7. QED
  BY <1>3, <1>5, <1>6 DEF NextCb

LEMMA OneActiveConnectBtn ==
    ASSUME TypeOK, OneActive, NEW S \in SUBSET Peer, ConnectBtn(S)
    PROVE  OneActive'
<1> USE DEF TypeOK
<1> SUFFICES ASSUME clean' PROVE OneActive'
  BY DEF OneActive
<1>1. pending = {} /\ Queued("next")' = {}
  BY DEF ConnectBtn, Queued
<1>2. CASE StartAsks(S)
  <2>1. PICK p \in S : Ask(Entries(S), S, p)
    BY <1>2 DEF StartAsks
  <2>2. Active' \subseteq {p}
    BY <1>1, <2>1 DEF Ask, ConnectedTo, Entries, Active, Having, Selected, OUT,
                      WAIT, CONNECTING, FAILED
  <2>3. QED
    BY <1>1, <2>2 DEF OneActive
<1>3. CASE StartAllRefused(S) \/ StartNoIntent(S) \/ StartEmpty(S)
  <2>1. Active' = {}
    BY <1>1, <1>3 DEF StartAllRefused, StartNoIntent, StartEmpty, AllRefused,
                      Entries, Active, Having, OUT, WAIT, CONNECTING, FAILED
  <2>2. QED
    BY <1>1, <2>1 DEF OneActive
<1>4. QED
  BY <1>2, <1>3 DEF ConnectBtn

LEMMA OneActiveConnectionRsp ==
    ASSUME TypeOK, OneActive, NEW p \in Peer, NEW ok \in BOOLEAN, ConnectionRsp(p, ok)
    PROVE  OneActive'
<1> USE DEF TypeOK
<1>1. clean' = clean /\ timers \in Seq(Kind) /\ Len(timers) \in Nat
  BY DEF ConnectionRsp, history, Kind
<1>2. Active' \subseteq Active
  BY DEF ConnectionRsp, Answered, Active, Having, Selected, OUT, CONNECTING,
         CONNECTED, FAILED
<1>3. CASE timers' = timers
  BY <1>1, <1>2, <1>3, OneActiveShrinks DEF Queued
<1>4. CASE /\ Found(p) /\ mode = IN_PROGRESS
           /\ sel' = [sel EXCEPT ![p] = Answered(ok)]
           /\ timers' = Append(timers, "next")
  <2> SUFFICES ASSUME clean PROVE OneActive'
    BY <1>1 DEF OneActive
  <2>1. p \in Active
    BY <1>4 DEF Found, Active, ConnectionRsp, NONE, IN_PROGRESS
  <2>2. p \notin Active'
    BY <1>4 DEF ConnectionRsp, Answered, Active, Having, CONNECTING, CONNECTED,
                FAILED
  <2>3. Active' = {}
    BY <1>2, <2>1, <2>2 DEF OneActive
  <2>4. Queued("next")' = {Len(timers) + 1}
    BY <1>1, <1>4, <2>1, QueuedAppend DEF OneActive, Kind
  <2>5. QED
    BY <2>3, <2>4 DEF OneActive
<1>5. QED
  BY <1>3, <1>4 DEF ConnectionRsp

LEMMA OneActiveStep ==
    ASSUME TypeOK, OneActive, [Next]_vars PROVE OneActive'
<1> USE DEF TypeOK
<1>0. timers \in Seq(Kind)
  BY DEF Kind
<1>1. CASE ResetCb
  <2>1. Active' \subseteq Active
    BY <1>1 DEF ResetCb, daemon, Active, Having, Selected, OUT, CONNECTING
  <2>2. QED
    BY <1>0, <1>1, <2>1, OneActiveShrinks DEF ResetCb, history
<1>2. CASE PopupOk
  <2>1. Active' = Active /\ clean' = clean
    BY <1>2 DEF PopupOk, daemon, Active, Having, Selected
  <2>2. Queued("next")' = Queued("next")
    <3>1. CASE mode = IN_PROGRESS
      BY <1>0, <1>2, <3>1, QueuedAppend DEF PopupOk, Stop, Kind
    <3>2. CASE mode # IN_PROGRESS
      BY <1>2, <3>2 DEF PopupOk, Queued
    <3>3. QED
      BY <3>1, <3>2
  <2>3. QED
    BY <1>0, <2>1, <2>2, OneActiveShrinks
<1>3. ASSUME NEW p \in Peer, NEW ok \in BOOLEAN, DisconnectionEvent(p, ok)
      PROVE  OneActive'
  <2>1. Active' \subseteq Active /\ clean' = clean /\ timers' = timers
    BY <1>3 DEF DisconnectionEvent, history, Found, Active, Having, Selected, OUT,
                CONNECTING, DISCONNECTED, NONE, COMPLETED
  <2>2. QED
    BY <1>0, <2>1, OneActiveShrinks DEF Queued
<1>4. ASSUME NEW p \in Peer, NEW inProgress \in BOOLEAN, ProgressEvent(p, inProgress)
      PROVE  OneActive'
  <2>1. Active' \subseteq Active /\ clean' = clean /\ timers' = timers
    BY <1>4 DEF ProgressEvent, history, Found, Active, Having, Selected, daemon, OUT,
                CONNECTING, NONE, COMPLETED
  <2>2. QED
    BY <1>0, <2>1, OneActiveShrinks DEF Queued
<1>5. ASSUME NEW p \in Peer, OtherConnect(p) PROVE OneActive'
  BY <1>5 DEF OtherConnect, OneActive
<1>6. CASE Deactivated
  <2>1. Active' \subseteq Active /\ clean' = clean /\ timers' = timers
    BY <1>6 DEF Deactivated, history, Active, Having, Selected
  <2>2. QED
    BY <1>0, <2>1, OneActiveShrinks DEF Queued
<1>7. ASSUME UNCHANGED <<sel, pending, timers, clean>> PROVE OneActive'
  BY <1>7 DEF OneActive, Active, Having, Selected, Queued
<1>8. QED
  BY <1>1, <1>2, <1>3, <1>4, <1>5, <1>6, <1>7, OneActiveNextCb,
     OneActiveConnectBtn, OneActiveConnectionRsp
  DEF Next, Timer, User, Daemon, Answer, RealizeButton, BackBtn, ScanBtn,
      MultiButton, PopupCancel, DiscoverCb, Activated, daemon, history, vars

-----------------------------------------------------------------------------

\* No step but a new start lets a selected device wait again.
LEMMA WaitingShrinks ==
    ASSUME TypeOK, Next, \A S \in SUBSET Peer : ~ConnectBtn(S)
    PROVE  Having(WAIT)' \subseteq Having(WAIT)
<1> USE DEF TypeOK
<1>1. CASE NextCb
  BY <1>1 DEF NextCb, NextAgain, NextAsks, NextStops, Ask, ConnectedTo, AllRefused,
              Having, WAIT, CONNECTING, FAILED
<1>2. CASE ResetCb
  BY <1>2 DEF ResetCb, Having, OUT, WAIT
<1>3. ASSUME NEW p \in Peer, NEW ok \in BOOLEAN, ConnectionRsp(p, ok)
      PROVE  Having(WAIT)' \subseteq Having(WAIT)
  BY <1>3 DEF ConnectionRsp, Answered, Having, WAIT, CONNECTED, FAILED
<1>4. ASSUME NEW p \in Peer, NEW ok \in BOOLEAN, DisconnectionEvent(p, ok)
      PROVE  Having(WAIT)' \subseteq Having(WAIT)
  BY <1>4 DEF DisconnectionEvent, Having, WAIT, DISCONNECTED
<1>5. ASSUME NEW p \in Peer, NEW inProgress \in BOOLEAN, ProgressEvent(p, inProgress)
      PROVE  Having(WAIT)' \subseteq Having(WAIT)
  BY <1>5 DEF ProgressEvent, Having, WAIT, CONNECTING
<1>6. ASSUME sel' = sel PROVE Having(WAIT)' \subseteq Having(WAIT)
  BY <1>6 DEF Having
<1>7. QED
  BY <1>1, <1>2, <1>3, <1>4, <1>5, <1>6
  DEF Next, Timer, User, Daemon, Answer, RealizeButton, MultiButton, BackBtn, ScanBtn,
      PopupOk, PopupCancel, OtherConnect, DiscoverCb, Deactivated, Activated

\* A stale "next" can only put a session in progress again that has a device waiting,
\* and an undisturbed one has none when its reset is queued.
LEMMA ResetIsOwnStep ==
    ASSUME TypeOK, ResetIsOwn, [Next]_vars PROVE ResetIsOwn'
<1> USE DEF TypeOK
<1>1. CASE NextCb
  <2>1. /\ timers # <<>> /\ timers \in Seq(Kind)
        /\ undisturbed' = undisturbed
    BY <1>1 DEF NextCb, history, Kind
  <2>2. CASE NextAgain
    <3>1. \A i \in Queued("reset")' : i + 1 \in Queued("reset")
      BY <2>1, <2>2, QueuedRotate DEF NextAgain, Kind
    <3>2. QED
      BY <2>1, <2>2, <3>1 DEF NextAgain, ResetIsOwn, Having
  <2>3. CASE NextAsks
    <3>1. \A i \in Queued("reset")' : i + 1 \in Queued("reset")
      BY <2>1, <2>3, QueuedTail DEF NextAsks, Kind
    <3>2. Having(WAIT) # {}
      BY <2>3 DEF NextAsks
    <3>3. QED
      BY <2>1, <3>1, <3>2 DEF ResetIsOwn
  <2>4. CASE NextStops
    BY <2>4 DEF NextStops, Stop, AllRefused, ResetIsOwn, Having, IN_PROGRESS,
                COMPLETED, WAIT, FAILED
  <2>5. QED
    BY <1>1, <2>2, <2>3, <2>4 DEF NextCb
<1>2. CASE ResetCb
  BY <1>2 DEF ResetCb, ResetIsOwn, Having, NONE, IN_PROGRESS, OUT, WAIT
<1>3. ASSUME NEW S \in SUBSET Peer, ConnectBtn(S) PROVE ResetIsOwn'
  BY <1>3 DEF ConnectBtn, ResetIsOwn, Queued
<1>4. CASE MultiButton
  BY <1>4 DEF MultiButton, ResetIsOwn, Having, Queued
<1>5. CASE PopupOk
  BY <1>5 DEF PopupOk, ResetIsOwn, Having, Queued
<1>6. ASSUME UNCHANGED <<mode, undisturbed>>, Queued("reset")' = Queued("reset"), Next,
             \A S \in SUBSET Peer : ~ConnectBtn(S)
      PROVE  ResetIsOwn'
  BY <1>6, WaitingShrinks DEF ResetIsOwn
<1>7. ASSUME Answer, \A S \in SUBSET Peer : ~ConnectBtn(S) PROVE ResetIsOwn'
  <2>1. PICK p \in Peer, ok \in BOOLEAN : ConnectionRsp(p, ok)
    BY <1>7 DEF Answer
  <2>2. UNCHANGED <<mode, undisturbed>>
    BY <2>1 DEF ConnectionRsp, history
  <2>3. timers' = timers \/ timers' = Append(timers, "next")
    BY <2>1 DEF ConnectionRsp
  <2>4. Queued("reset")' = Queued("reset")
    BY <2>3, QueuedAppend DEF Queued, Kind
  <2>5. QED
    BY <1>6, <1>7, <2>2, <2>4 DEF Next, Daemon
<1>8. ASSUME UNCHANGED <<mode, undisturbed, timers>>, Next,
             \A S \in SUBSET Peer : ~ConnectBtn(S)
      PROVE  ResetIsOwn'
  BY <1>6, <1>8 DEF Queued
<1>9. CASE UNCHANGED vars
  BY <1>9 DEF vars, ResetIsOwn, Queued, Having
<1>10. QED
  BY <1>1, <1>2, <1>3, <1>4, <1>5, <1>7, <1>8, <1>9
  DEF Next, Timer, User, Daemon, RealizeButton, BackBtn, ScanBtn, PopupCancel,
      DisconnectionEvent, ProgressEvent, OtherConnect, DiscoverCb, Deactivated,
      Activated, history

-----------------------------------------------------------------------------

\* The inductive invariant holds in every reachable state: types, one active
\* device, a reset queued for every completed session, and none queued early in an
\* undisturbed one.
THEOREM InductiveInvariant == Spec => []IInv
<1>1. IInv /\ [Next]_vars => IInv'
  BY TypeStep, CompletedStep, OneActiveStep, ResetIsOwnStep DEF IInv
<1>2. QED
  BY InitIInv, <1>1, PTL DEF Spec

\* A clean session has at most one selected device the daemon may still answer
\* for, whatever its status, and then no "next" timeout queued (OneActive).
THEOREM OneIsActive == Spec => []OneActive
<1>1. IInv => OneActive
  BY DEF IInv
<1>2. QED
  BY InductiveInvariant, <1>1, PTL

\* One device at a time: whatever the user and the daemon do in between, a
\* session that started with nothing left over has at most one device CONNECTING
\* and at most one "next" timeout, and never both (wfd_multi_connect_next_cb and
\* _connection_cb hand the turn to each other).
THEOREM OneDeviceAtATime == Spec => []OneAtATime
<1>1. IInv => OneAtATime
  BY DEF IInv, OneActive, OneAtATime, Active
<1>2. QED
  BY InductiveInvariant, <1>1, PTL

\* A completed session always has the timeout queued that ends it
\* (wfd_stop_multi_connect, __wfd_multi_connect_reset_cb).
THEOREM CompletedIsReset == Spec => []CompletedHasReset
<1>1. IInv => CompletedHasReset
  BY DEF IInv
<1>2. QED
  BY InductiveInvariant, <1>1, PTL

-----------------------------------------------------------------------------

\* Only the timeout that finds nobody left ends an undisturbed session: no reset is
\* queued while it runs, and the user's ways out of it disturb it.
LEMMA EndsByNext ==
    ASSUME IInv, Next, mode = IN_PROGRESS, mode' # IN_PROGRESS, undisturbed, undisturbed'
    PROVE  NextCb /\ NextStops
<1> USE DEF IInv, TypeOK
<1>1. ~ResetCb
  <2> SUFFICES ASSUME ResetCb PROVE FALSE
    OBVIOUS
  <2>1. 1 \in Queued("reset")
    BY TailEntries DEF ResetCb, Queued, Kind
  <2>2. QED
    BY <2>1 DEF ResetIsOwn
<1>2. \A S \in SUBSET Peer : ~ConnectBtn(S)
  BY DEF ConnectBtn, StartAsks, StartAllRefused, StartNoIntent, StartEmpty
<1>3. ~MultiButton /\ ~PopupOk
  BY DEF MultiButton, PopupOk
<1>4. ASSUME mode' = mode PROVE FALSE
  BY <1>4
<1>5. NextCb
  BY <1>1, <1>2, <1>3, <1>4
  DEF Next, Timer, User, Daemon, Answer, RealizeButton, BackBtn, ScanBtn, PopupCancel,
      ConnectionRsp, DisconnectionEvent, ProgressEvent, OtherConnect, DiscoverCb,
      Deactivated, Activated
<1>6. QED
  BY <1>4, <1>5 DEF NextCb, NextAgain, NextAsks

\* A session that is neither cancelled nor stopped and does not begin under an old
\* reset ends through wfd_stop_multi_connect alone, its reset queued and every
\* selected device tried (EndsByItself): no stale "next" and no stale reset of an
\* earlier session takes it from the user.
THEOREM EndsUndisturbed == Spec => EndsByItself
<1> DEFINE Ends == mode = IN_PROGRESS /\ mode' # IN_PROGRESS /\ undisturbed /\ undisturbed'
                     => mode' = COMPLETED /\ Queued("reset")' # {} /\ Having(WAIT)' = {}
<1>1. IInv /\ [Next]_vars => [Ends]_vars
  <2> SUFFICES ASSUME IInv, Next, mode = IN_PROGRESS, mode' # IN_PROGRESS,
                      undisturbed, undisturbed'
               PROVE  mode' = COMPLETED /\ Queued("reset")' # {} /\ Having(WAIT)' = {}
    OBVIOUS
  <2>1. NextStops
    BY EndsByNext
  <2>2. mode' = COMPLETED /\ Having(WAIT)' = {}
    BY <2>1 DEF NextStops, Stop, AllRefused, Having, IInv, TypeOK, WAIT, FAILED
  <2>3. Queued("reset")' # {}
    BY <2>2, CompletedStep DEF IInv, CompletedHasReset
  <2>4. QED
    BY <2>2, <2>3
<1>2. QED
  BY InductiveInvariant, <1>1, PTL DEF Spec, EndsByItself

-----------------------------------------------------------------------------

\* A "next" timeout that leaves the session in progress found nobody selected,
\* and then the reset behind it in the queue stays there, or it asked a device.
LEMMA DrivenNextCb ==
    ASSUME TypeOK, Driven, NextCb, mode' = IN_PROGRESS PROVE Driven'
<1> USE DEF TypeOK
<1>1. timers # <<>> /\ timers \in Seq(Kind) /\ timers[1] = "next"
  BY TailEntries DEF NextCb, Kind
<1>2. CASE NextAgain
  <2>1. Having(CONNECTING) = {} /\ Queued("reset") # {}
    BY <1>2 DEF NextAgain, Driven, Having, Selected, OUT, CONNECTING
  <2>2. \A i \in Queued("reset") : i - 1 \in Queued("reset")'
    BY <1>1, <1>2, QueuedRotate DEF NextAgain, Kind, Queued
  <2>3. QED
    BY <2>1, <2>2 DEF Driven
<1>3. CASE NextAsks
  <2>1. PICK p \in Having(WAIT) : Ask(sel, Having(WAIT), p)
    BY <1>3 DEF NextAsks
  <2>2. p \in Having(CONNECTING)' /\ p \in pending'
    BY <2>1 DEF Ask, ConnectedTo, Having
  <2>3. QED
    BY <2>2 DEF Driven
<1>4. CASE NextStops
  BY <1>4 DEF NextStops, Stop, IN_PROGRESS, COMPLETED
<1>5. QED
  BY <1>2, <1>3, <1>4 DEF NextCb

\* An answer for a selected device queues the next timeout; one for another
\* device leaves the device the session waits for as it was.
LEMMA DrivenConnectionRsp ==
    ASSUME TypeOK, Driven, mode = IN_PROGRESS,
           NEW p \in Peer, NEW ok \in BOOLEAN, ConnectionRsp(p, ok)
    PROVE  Driven'
<1> USE DEF TypeOK
<1>1. CASE NotFound(p)
  <2>1. sel' = sel /\ timers' = timers
    BY <1>1 DEF ConnectionRsp, NotFound, Found, NONE, IN_PROGRESS
  <2>2. Having(CONNECTING)' \cap pending' = Having(CONNECTING) \cap pending
    BY <1>1, <2>1 DEF ConnectionRsp, NotFound, Having, Selected, NONE,
                      IN_PROGRESS, OUT, CONNECTING
  <2>3. QED
    BY <2>1, <2>2 DEF Driven, Queued, Selected
<1>2. CASE ~NotFound(p)
  <2>1. /\ timers' = Append(timers, "next") /\ p \in Selected
        /\ sel' = [sel EXCEPT ![p] = Answered(ok)]
    BY <1>2 DEF ConnectionRsp, NotFound, Found, NONE, IN_PROGRESS
  <2>2. Queued("next")' # {}
    BY <2>1, QueuedAppend DEF Kind
  <2>3. p \in Selected'
    BY <2>1 DEF Selected, Answered, OUT, CONNECTED, FAILED
  <2>4. QED
    BY <2>2, <2>3 DEF Driven
<1>3. QED
  BY <1>1, <1>2

\* A driven session stays driven in every step that leaves it in progress,
\* leaves the daemon up and does not start another one (KeepsDriven).
THEOREM StaysDriven == Spec => KeepsDriven
<1> DEFINE Keep == mode = IN_PROGRESS /\ Driven /\ mode' = IN_PROGRESS /\ power'
                     /\ view' = view => Driven'
<1>1. TypeOK /\ [Next]_vars => [Keep]_vars
  <2> SUFFICES ASSUME TypeOK, Next, mode = IN_PROGRESS, Driven,
                      mode' = IN_PROGRESS, power', view' = view
               PROVE  Driven'
    OBVIOUS
  <2> USE DEF TypeOK
  <2>1. CASE ResetCb
    BY <2>1 DEF ResetCb, NONE, IN_PROGRESS
  <2>2. ASSUME NEW S \in SUBSET Peer, ConnectBtn(S) PROVE FALSE
    BY <2>2 DEF ConnectBtn
  <2>3. CASE MultiButton
    BY <2>3 DEF MultiButton, NONE, IN_PROGRESS
  <2>4. CASE PopupOk
    BY <2>4 DEF PopupOk, Stop, IN_PROGRESS, COMPLETED
  <2>5. CASE Deactivated
    BY <2>5 DEF Deactivated
  <2>6. ASSUME sel' = sel, timers' = timers, pending \subseteq pending'
        PROVE  Driven'
    BY <2>6 DEF Driven, Queued, Having, Selected
  <2>7. ASSUME NEW p \in Peer, NEW ok \in BOOLEAN, DisconnectionEvent(p, ok)
        PROVE  Driven'
    BY <2>6, <2>7 DEF DisconnectionEvent, IN_PROGRESS, COMPLETED
  <2>8. ASSUME NEW p \in Peer, NEW inProgress \in BOOLEAN,
               ProgressEvent(p, inProgress)
        PROVE  Driven'
    BY <2>6, <2>8 DEF ProgressEvent, daemon, IN_PROGRESS, COMPLETED
  <2>9. ASSUME NEW p \in Peer, OtherConnect(p) PROVE Driven'
    BY <2>6, <2>9 DEF OtherConnect
  <2>10. CASE RealizeButton \/ BackBtn \/ ScanBtn \/ PopupCancel \/ DiscoverCb
              \/ Activated
    BY <2>6, <2>10 DEF RealizeButton, BackBtn, ScanBtn, PopupCancel, DiscoverCb,
                       Activated, daemon
  <2>11. QED
    BY <2>1, <2>2, <2>3, <2>4, <2>5, <2>7, <2>8, <2>9, <2>10, DrivenNextCb,
       DrivenConnectionRsp
    DEF Next, Timer, User, Daemon, Answer
<1>2. QED
  BY TypeCorrect, <1>1, PTL DEF Spec, KeepsDriven
=============================================================================
