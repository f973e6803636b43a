--------------------------- MODULE WfdSwitch_proofs ---------------------------
(***************************************************************************)
(* Proofs about WfdSwitch, for every bound on the daemon's events.         *)
(***************************************************************************)
EXTENDS WfdSwitch, TLAPS

\* What sending an event and dispatching one do to the queue.
LEMMA AppendEvent ==
    ASSUME NEW s \in Seq(Event), NEW x \in Event
    PROVE  /\ Append(s, x) \in Seq(Event)
           /\ Len(Append(s, x)) = Len(s) + 1
           /\ Append(s, x)[Len(s) + 1] = x
           /\ \A i \in 1..Len(s) : Append(s, x)[i] = s[i]
  OBVIOUS

LEMMA TailEvents ==
    ASSUME NEW s \in Seq(Event), s # <<>>
    PROVE  /\ Tail(s) \in Seq(Event)
           /\ Len(s) \in Nat \ {0}
           /\ Len(Tail(s)) = Len(s) - 1
           /\ Head(s) = s[1]
           /\ \A i \in 1..Len(Tail(s)) : Tail(s)[i] = s[i + 1]
  OBVIOUS

LEMMA EventNames ==
    /\ SwitchEvent \subseteq Event
    /\ {"activated", "activate_fail", "deactivated", "deactivate_fail"} = SwitchEvent
    /\ {"listen", "scan", "found", "scan_over", "connection", "disconnection"}
         \subseteq Event \ SwitchEvent
  BY DEF Event, SwitchEvent

\* The states of the daemon by number, so that the backends can compare them.
LEMMA States ==
    /\ LinkState \subseteq Nat
    /\ {DEACTIVATED, DEACTIVATING, ACTIVATING, ACTIVATED, DISCOVERING, CONNECTING,
        CONNECTED} = LinkState
    /\ \A st \in LinkState : st >= ACTIVATING => st = ACTIVATING \/ st >= ACTIVATED
    /\ \A st \in LinkState : st < ACTIVATING => st = DEACTIVATING \/ st = DEACTIVATED
    /\ ~(DEACTIVATED >= ACTIVATED)
    /\ ACTIVATED >= ACTIVATED /\ DISCOVERING >= ACTIVATED /\ CONNECTING >= ACTIVATED
    /\ CONNECTED >= ACTIVATED
  BY DEF LinkState, DEACTIVATED, DEACTIVATING, ACTIVATING, ACTIVATED, DISCOVERING,
         CONNECTING, CONNECTED

-----------------------------------------------------------------------------
(* Types.                                                                  *)

LEMMA WarnType ==
    ASSUME warn_popup \in {"none", "fail", "terminate"},
           lost \subseteq {"fail", "terminate"},
           NEW kind \in {"fail", "terminate"}, Warn(kind)
    PROVE  warn_popup' \in {"none", "fail", "terminate"}
           /\ lost' \subseteq {"fail", "terminate"}
  BY DEF Warn

LEMMA ScanType ==
    ASSUME Scan(TRUE) \/ Scan(FALSE) \/ StopScan
    PROVE  scan_btn' \in [text : {"SCAN", "STOP"}, enabled : BOOLEAN]
<1>1. \A t \in {"SCAN", "STOP"}, b \in BOOLEAN :
        [text |-> t, enabled |-> b] \in [text : {"SCAN", "STOP"}, enabled : BOOLEAN]
  OBVIOUS
<1>2. QED
  BY <1>1, Zenon DEF Scan, StopScan

LEMMA OnOffType == TypeOK /\ OnOff => TypeOK'
<1> SUFFICES ASSUME TypeOK, OnOff PROVE TypeOK'
  OBVIOUS
<1> USE DEF TypeOK
<1>1. scan_btn' \in [text : {"SCAN", "STOP"}, enabled : BOOLEAN]
  BY ScanType DEF OnOff
<1>2. PICK st \in {link, wfd_status} : IF wfd_onoff THEN SwitchOff(st) ELSE SwitchOn(st)
  BY DEF OnOff
<1>3. wfd_status' \in LinkState /\ link' \in LinkState
  BY <1>2, States
  DEF SwitchOff, SwitchOn, AlreadyOn, WifiUnknown, AskWifiOff, Activate,
      ActivateRefused, AlreadyOff, Deactivate
<1>4. /\ warn_popup' \in {"none", "fail", "terminate"}
      /\ lost' \subseteq {"fail", "terminate"}
  BY <1>2, WarnType
  DEF SwitchOff, SwitchOn, AlreadyOn, WifiUnknown, AskWifiOff, Activate,
      ActivateRefused, AlreadyOff, Deactivate, NoWarn
<1>5. /\ head' \in {"DIRECT", "ACTIVATED", "SCANING"} \cup Waiting
      /\ act_popup' \in {"none", "wifi_off", "scan_again"}
  BY <1>2
  DEF SwitchOff, SwitchOn, AlreadyOn, WifiUnknown, AskWifiOff, Activate,
      ActivateRefused, AlreadyOff, Deactivate, Waiting
<1>6. excused' \in BOOLEAN
  BY <1>2
  DEF SwitchOff, SwitchOn, AlreadyOn, WifiUnknown, AskWifiOff, Activate,
      AlreadyOff, Deactivate, Fails
<1>7. QED
  BY <1>1, <1>3, <1>4, <1>5, <1>6 DEF OnOff

\* Every step keeps every variable in its type.
LEMMA TypeStep == TypeOK /\ [Next]_vars => TypeOK'
<1> SUFFICES ASSUME TypeOK, [Next]_vars PROVE TypeOK'
  OBVIOUS
<1>1. CASE OnOff
  BY <1>1, OnOffType
<1> USE DEF TypeOK
<1>2. CASE WifiOk
  BY <1>2, States DEF WifiOk, WifiOff, Fails
<1>3. CASE WifiCancel
  BY <1>3 DEF WifiCancel, Fails, world
<1>4. CASE WifiStateCb
  <2>1. /\ warn_popup' \in {"none", "fail", "terminate"}
        /\ lost' \subseteq {"fail", "terminate"}
    BY <1>4, WarnType DEF WifiStateCb, ActivateTaken, ActivateRefused, NoWarn
  <2>2. link' \in LinkState /\ head' \in {"DIRECT", "ACTIVATED", "SCANING"} \cup Waiting
    BY <1>4, States DEF WifiStateCb, ActivateTaken, ActivateRefused
  <2>3. excused' \in BOOLEAN /\ net_client' \in BOOLEAN
    BY <1>4 DEF WifiStateCb, Fails
  <2>4. QED
    BY <1>4, <2>1, <2>2, <2>3 DEF WifiStateCb
<1>5. CASE ScanBtn /\ ~OnOff
  <2>1. wfd_status' \in LinkState
    BY <1>5, States DEF ScanBtn, ScanAsks, ScanStarts, ScanNothing, StartDiscovery
  <2>2. scan_btn' \in [text : {"SCAN", "STOP"}, enabled : BOOLEAN]
    BY <1>5, ScanType DEF ScanBtn
  <2>3. /\ head' \in {"DIRECT", "ACTIVATED", "SCANING"} \cup Waiting
        /\ act_popup' \in {"none", "wifi_off", "scan_again"}
    BY <1>5 DEF ScanBtn, ScanAsks, ScanStarts, ScanNothing, StartDiscovery
  <2>4. QED
    BY <1>5, <2>1, <2>2, <2>3 DEF ScanBtn, Fails, world
<1>6. CASE StopBtn
  BY <1>6, States DEF StopBtn, Refresh, Fails, world
<1>7. CASE ScanAgainAnswer
  BY <1>7, States DEF ScanAgainAnswer, StartDiscovery, Fails, world
<1>8. CASE BackBtn
  BY <1>8 DEF BackBtn, Refresh, world
<1>9. CASE WarnAnswer
  BY <1>9 DEF WarnAnswer, world
<1>10. CASE OnDestroy
  <2>1. vconf_cb' \in BOOLEAN /\ net_client' \in BOOLEAN
    BY <1>10, Zenon DEF OnDestroy
  <2>2. QED
    BY <1>10, <2>1 DEF OnDestroy, Refresh, world
<1>11. ASSUME NEW kinds \in SUBSET Event, Dispatch(kinds)
       PROVE  events' \in Seq(Event) /\ Len(events') <= MaxEvents
  BY <1>11, TailEvents, MaxEventsAssumption DEF Dispatch
<1>12. CASE ActivationFailed
  <2>1. events' \in Seq(Event) /\ Len(events') <= MaxEvents
    BY <1>11, <1>12, EventNames DEF ActivationFailed
  <2>2. wfd_onoff' \in BOOLEAN /\ excused' \in BOOLEAN
    BY <1>12 DEF ActivationFailed, Fails
  <2>3. QED
    BY <1>12, <2>1, <2>2, WarnType DEF ActivationFailed, Dispatch, Refresh
<1>13. CASE Activated
  <2>1. events' \in Seq(Event) /\ Len(events') <= MaxEvents
    BY <1>11, <1>13, EventNames DEF Activated
  <2>2. QED
    BY <1>13, <2>1, ScanType DEF Activated, Dispatch, Refresh, Fails, NoWarn
<1>14. CASE Deactivated
  <2>1. events' \in Seq(Event) /\ Len(events') <= MaxEvents
    BY <1>11, <1>14, EventNames DEF Deactivated
  <2>2. QED
    BY <1>14, <2>1, ScanType DEF Deactivated, Dispatch, Refresh, Fails, NoWarn
<1>15. CASE DiscoverCb
  <2>1. events' \in Seq(Event) /\ Len(events') <= MaxEvents
    BY <1>11, <1>15, EventNames DEF DiscoverCb
  <2>2. scan_btn' \in [text : {"SCAN", "STOP"}, enabled : BOOLEAN]
    BY <1>15, ScanType DEF DiscoverCb
  <2>3. QED
    BY <1>15, <2>1, <2>2 DEF DiscoverCb, Dispatch, Fails, NoWarn
<1>16. CASE ConnectionCb
  <2>1. events' \in Seq(Event) /\ Len(events') <= MaxEvents
    BY <1>11, <1>16, EventNames DEF ConnectionCb
  <2>2. scan_btn' \in [text : {"SCAN", "STOP"}, enabled : BOOLEAN]
    BY <1>16, ScanType DEF ConnectionCb, ScanAfter
  <2>3. wfd_status' \in LinkState
    BY <1>16, States DEF ConnectionCb, Refresh
  <2>4. QED
    BY <1>16, <2>1, <2>2, <2>3 DEF ConnectionCb, Dispatch, Fails, NoWarn
<1>17. ASSUME NEW kind \in Event, Send(kind)
       PROVE  events' \in Seq(Event) /\ Len(events') <= MaxEvents
  BY <1>17, AppendEvent, MaxEventsAssumption DEF Send
<1>18. CASE Completes
  <2>1. events' \in Seq(Event) /\ Len(events') <= MaxEvents
    BY <1>17, <1>18, EventNames DEF Completes
  <2>2. QED
    BY <1>18, <2>1, States DEF Completes, Environment, gadget
<1>19. CASE LinkMoves
  <2>1. events' \in Seq(Event) /\ Len(events') <= MaxEvents
    BY <1>17, <1>19, EventNames DEF LinkMoves
  <2>2. QED
    BY <1>19, <2>1, States DEF LinkMoves, Environment, gadget
<1>20. CASE OtherSwitches
  BY <1>20, States DEF OtherSwitches, Environment, gadget
<1>21. CASE WifiPowersOff
  <2>1. changed' \in BOOLEAN
    BY <1>21, Zenon DEF WifiPowersOff
  <2>2. wifi_on' \in BOOLEAN /\ powering_off' \in BOOLEAN
    BY <1>21 DEF WifiPowersOff
  <2>3. UNCHANGED <<wfd_status, gadget, informed, excused, link, events>>
    BY <1>21 DEF WifiPowersOff, Environment
  <2>4. QED
    BY <2>1, <2>2, <2>3 DEF gadget
<1>22. CASE WifiChanges
  BY <1>22 DEF WifiChanges, Environment, gadget
<1>23. CASE UNCHANGED vars
  BY <1>23 DEF vars, gadget, world
<1>24. QED
  BY <1>1, <1>2, <1>3, <1>4, <1>5, <1>6, <1>7, <1>8, <1>9, <1>10, <1>12, <1>13,
     <1>14, <1>15, <1>16, <1>18, <1>19, <1>20, <1>21, <1>22, <1>23
  DEF Next, User, Callback, OnOffBtn

LEMMA TypeInit == Init => TypeOK
<1> SUFFICES ASSUME Init PROVE TypeOK
  OBVIOUS
<1>1. wfd_onoff \in BOOLEAN /\ informed \in BOOLEAN
  BY DEF Init
<1>2. wfd_status \in LinkState
  BY States DEF Init
<1>3. events \in Seq(Event) /\ Len(events) <= MaxEvents
  BY MaxEventsAssumption DEF Init
<1>4. QED
  BY <1>1, <1>2, <1>3 DEF Init, TypeOK

\* Every variable stays in its type (TypeOK): whatever the main loop, the daemon
\* and Wi-Fi do, no callback leaves a value the others do not know.
THEOREM TypeCorrect == Spec => []TypeOK
  BY TypeInit, TypeStep, PTL DEF Spec

-----------------------------------------------------------------------------
(* The events on their way and the check.                                  *)

Good == {"activated", "deactivate_fail"}

LEMMA ComingSent ==
    ASSUME TypeOK, NEW kind \in Event, Send(kind)
    PROVE  Coming' = Coming \cup {kind}
  BY AppendEvent DEF TypeOK, Send, Coming

LEMMA ComingDispatched ==
    ASSUME TypeOK, events # <<>>, events' = Tail(events)
    PROVE  Coming = Coming' \cup {Head(events)}
<1>1. Coming' \cup {Head(events)} \subseteq Coming
  BY TailEvents DEF TypeOK, Coming
<1>2. ASSUME NEW i \in 1..Len(events)
      PROVE  events[i] \in Coming' \cup {Head(events)}
  <2>1. CASE i = 1
    BY <2>1, TailEvents DEF TypeOK
  <2>2. CASE i # 1
    <3>1. i - 1 \in 1..Len(events') /\ events'[i - 1] = events[i]
      BY <2>2, TailEvents DEF TypeOK
    <3>2. QED
      BY <3>1 DEF Coming
  <2>3. QED
    BY <2>1, <2>2
<1>3. QED
  BY <1>1, <1>2 DEF Coming

\* A step that sends and dispatches nothing, and at most begins a switch.
LEMMA TellsKept ==
    ASSUME LastTells, OnWasTold,
           UNCHANGED <<events, wfd_onoff, informed>>,
           link' = link \/ link' \in {ACTIVATING, DEACTIVATING}
    PROVE  LastTells' /\ OnWasTold'
  BY DEF LastTells, OnWasTold, Tells, Coming

\* An event that ends a switch and tells how.
LEMMA TellsSwitchSent ==
    ASSUME TypeOK, LastTells, OnWasTold, UNCHANGED <<wfd_onoff, informed>>,
           NEW kind \in SwitchEvent, Send(kind),
           kind \in Good <=> link' >= ACTIVATED
    PROVE  LastTells' /\ OnWasTold'
<1>1. /\ Len(events) \in Nat
      /\ Len(events') = Len(events) + 1
      /\ events'[Len(events) + 1] = kind
  BY AppendEvent, EventNames DEF TypeOK, Send
<1>2. kind \in Coming'
  BY ComingSent, EventNames
<1>3. ASSUME NEW i \in 1..Len(events'),
             \A j \in i+1..Len(events') : events'[j] \notin SwitchEvent
      PROVE  i = Len(events')
  BY <1>1, <1>3
<1>4. QED
  BY <1>1, <1>2, <1>3 DEF LastTells, OnWasTold, Tells, Good

\* An event of another kind, while the daemon stays on.
LEMMA TellsOtherSent ==
    ASSUME TypeOK, LastTells, OnWasTold, UNCHANGED <<wfd_onoff, informed>>,
           NEW kind \in Event \ SwitchEvent, Send(kind),
           link >= ACTIVATED, link' >= ACTIVATED
    PROVE  LastTells' /\ OnWasTold'
<1>1. /\ Len(events) \in Nat
      /\ Len(events') = Len(events) + 1
      /\ events'[Len(events) + 1] = kind
      /\ \A i \in 1..Len(events) : events'[i] = events[i]
  BY AppendEvent DEF TypeOK, Send
<1>2. Coming' \cap SwitchEvent = Coming \cap SwitchEvent
  BY ComingSent
<1>3. link \notin {ACTIVATING, DEACTIVATING}
  BY DEF TypeOK, LinkState, DEACTIVATED, DEACTIVATING, ACTIVATING, ACTIVATED,
         DISCOVERING, CONNECTING, CONNECTED
<1>4. ASSUME NEW i \in 1..Len(events'), events'[i] \in SwitchEvent,
             \A j \in i+1..Len(events') : events'[j] \notin SwitchEvent
      PROVE  events'[i] \in Good
  <2>1. i \in 1..Len(events) /\ events'[i] = events[i]
    BY <1>1, <1>4
  <2>2. \A j \in i+1..Len(events) : events[j] \notin SwitchEvent
    BY <1>1, <1>4
  <2>3. QED
    BY <1>3, <1>4, <2>1, <2>2 DEF LastTells, Tells, Good
<1>5. informed' /\ Coming' \cap SwitchEvent = {} => wfd_onoff'
  BY <1>2, <1>3 DEF LastTells, Tells
<1>6. QED
  BY <1>4, <1>5 DEF LastTells, OnWasTold, Tells, Good

\* A callback for the end of a switch sets the check by it.
LEMMA TellsSwitchDispatched ==
    ASSUME TypeOK, LastTells,
           events # <<>>, events' = Tail(events), link' = link, informed' = TRUE,
           Head(events) \in SwitchEvent, wfd_onoff' <=> Head(events) \in Good
    PROVE  LastTells' /\ OnWasTold'
<1>1. /\ Len(events) \in Nat \ {0}
      /\ Len(events') = Len(events) - 1
      /\ events[1] \in SwitchEvent
      /\ \A i \in 1..Len(events') : events'[i] = events[i + 1]
      /\ wfd_onoff' <=> events[1] \in Good
  BY TailEvents DEF TypeOK
<1> SUFFICES ASSUME link \notin {ACTIVATING, DEACTIVATING} PROVE LastTells'
  BY DEF LastTells, OnWasTold
<1>2. ASSUME NEW i \in 1..Len(events), events[i] \in SwitchEvent,
             \A j \in i+1..Len(events) : events[j] \notin SwitchEvent
      PROVE  Tells(events[i] \in Good)
  BY <1>2 DEF LastTells, Good
<1>3. ASSUME NEW i \in 1..Len(events'), events'[i] \in SwitchEvent,
             \A j \in i+1..Len(events') : events'[j] \notin SwitchEvent
      PROVE  Tells(events'[i] \in Good)
  <2>1. i + 1 \in 1..Len(events) /\ events[i + 1] = events'[i]
    BY <1>1
  <2>2. ASSUME NEW j \in (i+1)+1..Len(events) PROVE events[j] \notin SwitchEvent
    <3>1. j - 1 \in i+1..Len(events') /\ events'[j - 1] = events[j]
      BY <1>1, <2>2
    <3>2. QED
      BY <1>3, <3>1
  <2>3. QED
    BY <1>2, <1>3, <2>1, <2>2
<1>4. ASSUME Coming' \cap SwitchEvent = {}
      PROVE  Tells(wfd_onoff')
  <2>1. ASSUME NEW j \in 1+1..Len(events) PROVE events[j] \notin SwitchEvent
    <3>1. j - 1 \in 1..Len(events') /\ events'[j - 1] = events[j]
      BY <1>1, <2>1
    <3>2. QED
      BY <1>4, <3>1 DEF Coming
  <2>2. Tells(events[1] \in Good)
    BY <1>1, <1>2, <2>1
  <2>3. QED
    BY <1>1, <2>2 DEF Tells
<1>5. QED
  BY <1>3, <1>4 DEF LastTells, Tells, Good

\* A callback for any other event leaves the check alone.
LEMMA TellsOtherDispatched ==
    ASSUME TypeOK, LastTells, OnWasTold, UNCHANGED <<link, wfd_onoff, informed>>,
           events # <<>>, events' = Tail(events), Head(events) \notin SwitchEvent
    PROVE  LastTells' /\ OnWasTold'
<1>1. /\ Len(events) \in Nat \ {0}
      /\ Len(events') = Len(events) - 1
      /\ events[1] \notin SwitchEvent
      /\ \A i \in 1..Len(events') : events'[i] = events[i + 1]
  BY TailEvents DEF TypeOK
<1>2. Coming' \cap SwitchEvent = Coming \cap SwitchEvent
  BY ComingDispatched
<1> SUFFICES ASSUME link \notin {ACTIVATING, DEACTIVATING} PROVE LastTells'
  BY DEF LastTells, OnWasTold
<1>3. ASSUME NEW i \in 1..Len(events'), events'[i] \in SwitchEvent,
             \A j \in i+1..Len(events') : events'[j] \notin SwitchEvent
      PROVE  Tells(events'[i] \in Good)
  <2>1. i + 1 \in 1..Len(events) /\ events[i + 1] = events'[i]
    BY <1>1
  <2>2. ASSUME NEW j \in (i+1)+1..Len(events) PROVE events[j] \notin SwitchEvent
    <3>1. j - 1 \in i+1..Len(events') /\ events'[j - 1] = events[j]
      BY <1>1, <2>2
    <3>2. QED
      BY <1>3, <3>1
  <2>3. QED
    BY <1>3, <2>1, <2>2 DEF LastTells, Good
<1>4. QED
  BY <1>2, <1>3 DEF LastTells, Tells, Good

\* In what OnOff does to the daemon: nothing, or it begins a switch.
LEMMA OnOffBegins ==
    ASSUME OnOff
    PROVE  link' = link \/ link' \in {ACTIVATING, DEACTIVATING}
  BY DEF OnOff, SwitchOn, AlreadyOn, WifiUnknown, AskWifiOff, Activate,
         ActivateRefused, SwitchOff, AlreadyOff, Deactivate

\* Every step keeps what the events on their way and the check tell.
LEMMA TellsStep ==
    ASSUME TypeOK, LastTells, OnWasTold, [Next]_vars
    PROVE  LastTells' /\ OnWasTold'
<1>1. CASE OnOff
  BY <1>1, OnOffBegins, TellsKept DEF OnOff
<1>2. CASE WifiOk \/ WifiCancel \/ StopBtn \/ ScanAgainAnswer \/ BackBtn \/ WarnAnswer
  BY <1>2, TellsKept
  DEF WifiOk, WifiCancel, StopBtn, ScanAgainAnswer, BackBtn, WarnAnswer, world
<1>3. CASE ScanBtn
  BY <1>1, <1>3, TellsKept DEF ScanBtn, world
<1>4. CASE WifiStateCb
  BY <1>4, TellsKept DEF WifiStateCb, ActivateTaken, ActivateRefused
<1>5. CASE OnDestroy
  BY <1>5, TellsKept DEF OnDestroy, world
<1>6. CASE ActivationFailed
  <2>1. Head(events) \in SwitchEvent /\ (wfd_onoff' <=> Head(events) \in Good)
    BY <1>6 DEF ActivationFailed, Dispatch, SwitchEvent, Good
  <2>2. QED
    BY <1>6, <2>1, TellsSwitchDispatched DEF ActivationFailed, Dispatch
<1>7. CASE Activated
  <2>1. Head(events) \in SwitchEvent /\ (wfd_onoff' <=> Head(events) \in Good)
    BY <1>7 DEF Activated, Dispatch, SwitchEvent, Good
  <2>2. QED
    BY <1>7, <2>1, TellsSwitchDispatched DEF Activated, Dispatch
<1>8. CASE Deactivated
  <2>1. Head(events) \in SwitchEvent /\ (wfd_onoff' <=> Head(events) \in Good)
    BY <1>8 DEF Deactivated, Dispatch, SwitchEvent, Good
  <2>2. QED
    BY <1>8, <2>1, TellsSwitchDispatched DEF Deactivated, Dispatch
<1>9. CASE DiscoverCb
  BY <1>9, EventNames, TellsOtherDispatched DEF DiscoverCb, Dispatch
<1>10. CASE ConnectionCb
  BY <1>10, EventNames, TellsOtherDispatched DEF ConnectionCb, Dispatch
<1>11. CASE Completes
  <2>1. PICK kind \in SwitchEvent : Send(kind) /\ (kind \in Good <=> link' >= ACTIVATED)
    BY <1>11, States, EventNames DEF Completes, Good
  <2>2. QED
    BY <1>11, <2>1, TellsSwitchSent DEF Completes, Environment, gadget
<1>12. CASE LinkMoves
  <2>1. link >= ACTIVATED /\ link' >= ACTIVATED
    BY <1>12, States DEF LinkMoves
  <2>2. PICK kind \in Event \ SwitchEvent : Send(kind)
    BY <1>12, EventNames DEF LinkMoves
  <2>3. QED
    BY <1>12, <2>1, <2>2, TellsOtherSent DEF LinkMoves, Environment, gadget
<1>13. CASE OtherSwitches \/ WifiPowersOff \/ WifiChanges
  BY <1>13, TellsKept
  DEF OtherSwitches, WifiPowersOff, WifiChanges, Environment, gadget
<1>14. CASE UNCHANGED vars
  BY <1>14, TellsKept DEF vars, gadget, world
<1>15. QED
  BY <1>1, <1>2, <1>3, <1>4, <1>5, <1>6, <1>7, <1>8, <1>9, <1>10, <1>11, <1>12,
     <1>13, <1>14
  DEF Next, User, Callback, OnOffBtn

-----------------------------------------------------------------------------
(* What the head waits for.                                                *)

\* A head that the step wrote anew and that waits for nothing needs nothing.
LEMMA HeadWritten ==
    ASSUME head' \notin Waiting PROVE HeadResolves'
  BY DEF HeadResolves

\* Nothing that could still resolve the head got lost.
LEMMA HeadKept ==
    ASSUME HeadResolves, head' = head, ug' = "up" => ug = "up", excused => excused',
           link' = link \/ link' \in {ACTIVATING, DEACTIVATING},
           Coming \cap SwitchEvent \subseteq Coming',
           act_popup = "wifi_off" => act_popup' = "wifi_off",
           vconf_cb => vconf_cb',
           powering_off \/ changed => powering_off' \/ changed'
    PROVE  HeadResolves'
  BY DEF HeadResolves

\* An excuse lasts until the head is rewritten.
LEMMA ExcuseLasts ==
    ASSUME NEW dropped \in BOOLEAN, Fails(dropped), head' = head
    PROVE  head \notin Waiting \/ (excused => excused')
  BY DEF Fails

LEMMA HeadOnOff ==
    ASSUME IInv, OnOff PROVE HeadResolves'
<1> USE DEF IInv
<1> SUFFICES ASSUME head' \in Waiting, ~excused' PROVE HeadResolves'
  BY DEF HeadResolves
<1>1. PICK st \in {link, wfd_status} : IF wfd_onoff THEN SwitchOff(st) ELSE SwitchOn(st)
  BY DEF OnOff
<1>2. events' = events /\ Coming' = Coming
  BY DEF OnOff, Coming
<1>3. CASE ~wfd_onoff /\ AlreadyOn(st)
  <2>1. informed /\ st = link /\ link >= ACTIVATING /\ link' = link
    BY <1>3 DEF AlreadyOn, Fails
  <2>2. link = ACTIVATING \/ Coming \cap SwitchEvent # {}
    BY <1>3, <2>1, States
    DEF LastTells, Tells, TypeOK, LinkState, DEACTIVATED, DEACTIVATING, ACTIVATING,
        ACTIVATED, DISCOVERING, CONNECTING, CONNECTED
  <2>3. QED
    BY <1>2, <2>1, <2>2 DEF HeadResolves
<1>4. CASE ~wfd_onoff /\ WifiUnknown(st)
  BY <1>4 DEF WifiUnknown, Fails
<1>5. CASE ~wfd_onoff /\ AskWifiOff(st)
  BY <1>5 DEF AskWifiOff, HeadResolves
<1>6. CASE ~wfd_onoff /\ Activate(st)
  BY <1>6 DEF Activate, ActivateRefused, Waiting, HeadResolves
<1>7. CASE wfd_onoff /\ AlreadyOff(st)
  <2>1. informed /\ st = link /\ link < ACTIVATING /\ link' = link
    BY <1>7 DEF AlreadyOff, Fails, OnWasTold
  <2>2. link = DEACTIVATING \/ Coming \cap SwitchEvent # {}
    BY <1>7, <2>1, States
    DEF LastTells, Tells, TypeOK, LinkState, DEACTIVATED, DEACTIVATING, ACTIVATING,
        ACTIVATED, DISCOVERING, CONNECTING, CONNECTED
  <2>3. QED
    BY <1>2, <2>1, <2>2 DEF HeadResolves
<1>8. CASE wfd_onoff /\ Deactivate(st)
  BY <1>8 DEF Deactivate, Waiting, HeadResolves
<1>9. QED
  BY <1>1, <1>3, <1>4, <1>5, <1>6, <1>7, <1>8 DEF SwitchOn, SwitchOff

LEMMA HeadStep ==
    ASSUME IInv, [Next]_vars PROVE HeadResolves'
<1> USE DEF IInv
<1>1. CASE OnOff
  BY <1>1, HeadOnOff
<1>2. ASSUME events' = events PROVE Coming \cap SwitchEvent \subseteq Coming'
  BY <1>2 DEF Coming
<1>3. ASSUME events # <<>>, events' = Tail(events), Head(events) \notin SwitchEvent
      PROVE  Coming \cap SwitchEvent \subseteq Coming'
  BY <1>3, ComingDispatched
<1>4. ASSUME NEW kind \in Event, Send(kind)
      PROVE  Coming \cap SwitchEvent \subseteq Coming'
  BY <1>4, ComingSent
<1>5. CASE WifiOk
  <2>1. PICK vconf \in BOOLEAN, net \in BOOLEAN, power \in BOOLEAN :
               WifiOff(vconf, net, power)
    BY <1>5 DEF WifiOk
  <2>2. head' \in Waiting /\ ~excused' => vconf_cb' /\ powering_off'
    BY <2>1 DEF WifiOff, Fails
  <2>3. QED
    BY <2>2 DEF HeadResolves
<1>6. CASE WifiCancel
  BY <1>6, HeadWritten DEF WifiCancel, Waiting
<1>7. CASE WifiStateCb
  <2>1. CASE head' = "DIRECT"
    BY <2>1, HeadWritten DEF Waiting
  <2>2. CASE ActivateTaken
    BY <2>2 DEF ActivateTaken, HeadResolves
  <2>3. CASE head' = head /\ Fails(~powering_off)
    <3>1. head' \in Waiting /\ ~excused' => vconf_cb' /\ powering_off'
      BY <1>7, <2>3 DEF WifiStateCb, Fails
    <3>2. QED
      BY <3>1 DEF HeadResolves
  <2>4. QED
    BY <1>7, <2>1, <2>2, <2>3 DEF WifiStateCb, ActivateRefused
<1>8. CASE ScanBtn /\ ~OnOff
  <2>1. CASE head' = "SCANING"
    BY <2>1, HeadWritten DEF Waiting
  <2>2. CASE head' = head
    <3>1. Open /\ Fails(FALSE) /\ UNCHANGED <<vconf_cb, ug, world>>
      BY <1>8, <2>2 DEF ScanBtn
    <3>2. head \notin Waiting \/ (excused => excused')
      BY <3>1, <2>2, ExcuseLasts
    <3>3. QED
      BY <1>2, <2>2, <3>1, <3>2, HeadKept, HeadWritten DEF Open, world
  <2>3. QED
    BY <1>8, <2>1, <2>2 DEF ScanBtn, ScanAsks, ScanStarts, ScanNothing, StartDiscovery
<1>9. CASE StopBtn
  BY <1>9, HeadWritten DEF StopBtn, Waiting
<1>10. CASE ScanAgainAnswer
  <2>1. CASE head' = "SCANING"
    BY <2>1, HeadWritten DEF Waiting
  <2>2. CASE head' = head
    <3>1. Fails(FALSE) /\ act_popup # "wifi_off" /\ UNCHANGED <<vconf_cb, ug, world>>
      BY <1>10 DEF ScanAgainAnswer
    <3>2. head \notin Waiting \/ (excused => excused')
      BY <3>1, <2>2, ExcuseLasts
    <3>3. QED
      BY <1>2, <2>2, <3>1, <3>2, HeadKept, HeadWritten DEF world
  <2>3. QED
    BY <1>10, <2>1, <2>2 DEF ScanAgainAnswer, StartDiscovery
<1>11. CASE BackBtn \/ OnDestroy
  BY <1>11 DEF BackBtn, OnDestroy, HeadResolves
<1>12. CASE WarnAnswer
  BY <1>2, <1>12, HeadKept DEF WarnAnswer, world
<1>13. CASE ActivationFailed \/ Activated \/ Deactivated
  BY <1>13, HeadWritten DEF ActivationFailed, Activated, Deactivated, Waiting
<1>14. CASE DiscoverCb
  <2>1. CASE head' = head
    <3>1. /\ Fails(FALSE) /\ events # <<>> /\ events' = Tail(events)
          /\ Head(events) \notin SwitchEvent
          /\ UNCHANGED <<act_popup, vconf_cb, ug, link, powering_off, changed>>
      BY <1>14, EventNames DEF DiscoverCb, Dispatch
    <3>2. head \notin Waiting \/ (excused => excused')
      BY <3>1, <2>1, ExcuseLasts
    <3>3. QED
      BY <1>3, <2>1, <3>1, <3>2, HeadKept, HeadWritten
  <2>2. CASE head' \in {"SCANING", "DIRECT"}
    BY <2>2, HeadWritten DEF Waiting
  <2>3. QED
    BY <1>14, <2>1, <2>2 DEF DiscoverCb
<1>15. CASE ConnectionCb
  <2>1. CASE head' = head
    <3>1. /\ Fails(FALSE) /\ events # <<>> /\ events' = Tail(events)
          /\ Head(events) \notin SwitchEvent
          /\ UNCHANGED <<act_popup, vconf_cb, ug, link, powering_off, changed>>
      BY <1>15, EventNames DEF ConnectionCb, Dispatch
    <3>2. head \notin Waiting \/ (excused => excused')
      BY <3>1, <2>1, ExcuseLasts
    <3>3. QED
      BY <1>3, <2>1, <3>1, <3>2, HeadKept, HeadWritten
  <2>2. CASE head' = "SCANING"
    BY <2>2, HeadWritten DEF Waiting
  <2>3. QED
    BY <1>15, <2>1, <2>2 DEF ConnectionCb
<1>16. CASE Completes
  <2>1. PICK kind \in SwitchEvent : Send(kind)
    BY <1>16, EventNames DEF Completes
  <2>2. kind \in Coming' \cap SwitchEvent
    BY <2>1, ComingSent, EventNames
  <2>3. QED
    BY <2>2 DEF HeadResolves
<1>17. CASE LinkMoves
  <2>1. PICK kind \in Event : Send(kind)
    BY <1>17, EventNames DEF LinkMoves
  <2>2. Coming \cap SwitchEvent \subseteq Coming'
    BY <1>4, <2>1
  <2>3. link >= ACTIVATED
    BY <1>17, States DEF LinkMoves
  <2>4. link \notin {ACTIVATING, DEACTIVATING}
    BY <2>3 DEF DEACTIVATING, ACTIVATING, ACTIVATED
  <2>5. UNCHANGED <<head, ug, excused, act_popup, vconf_cb, powering_off, changed>>
    BY <1>17 DEF LinkMoves, Environment, gadget
  <2>6. QED
    BY <2>2, <2>4, <2>5 DEF HeadResolves
<1>18. CASE OtherSwitches
  BY <1>2, <1>18, HeadKept DEF OtherSwitches, Environment, gadget
<1>19. CASE WifiPowersOff \/ WifiChanges
  <2>1. UNCHANGED <<head, ug, excused, act_popup, vconf_cb, link, events>>
    BY <1>19 DEF WifiPowersOff, WifiChanges, Environment, gadget
  <2>2. vconf_cb => changed'
    BY <1>19 DEF WifiPowersOff, WifiChanges
  <2>3. Coming' = Coming
    BY <2>1 DEF Coming
  <2>4. QED
    BY <2>1, <2>2, <2>3 DEF HeadResolves
<1>20. CASE UNCHANGED vars
  BY <1>2, <1>20, HeadKept DEF vars, gadget, world
<1>21. QED
  BY <1>1, <1>5, <1>6, <1>7, <1>8, <1>9, <1>10, <1>11, <1>12, <1>13, <1>14, <1>15,
     <1>16, <1>17, <1>18, <1>19, <1>20
  DEF Next, User, Callback, OnOffBtn

-----------------------------------------------------------------------------

LEMMA InvInit == Init => IInv
<1> SUFFICES ASSUME Init PROVE IInv
  OBVIOUS
<1>1. TypeOK
  BY TypeInit
<1>2. HeadResolves
  BY DEF Init, HeadResolves, Waiting
<1>3. wfd_onoff => wfd_status = link
  BY <1>1 DEF Init, TypeOK, DEACTIVATED, ACTIVATING
<1>4. OnWasTold
  BY <1>3 DEF Init, OnWasTold
<1>5. informed /\ link \notin {ACTIVATING, DEACTIVATING} => Tells(wfd_onoff)
  BY <1>1 DEF Init, Tells, TypeOK, LinkState, DEACTIVATED, DEACTIVATING, ACTIVATING,
              ACTIVATED, DISCOVERING, CONNECTING, CONNECTED
<1>6. LastTells
  BY <1>5 DEF LastTells, Init
<1>7. QED
  BY <1>1, <1>2, <1>4, <1>6 DEF IInv

\* The strengthening that carries the next two (IInv).
THEOREM InductiveInvariant == Spec => []IInv
<1>1. IInv /\ [Next]_vars => IInv'
  <2> SUFFICES ASSUME IInv, [Next]_vars PROVE IInv'
    OBVIOUS
  <2>1. TypeOK'
    BY TypeStep DEF IInv
  <2>2. LastTells' /\ OnWasTold'
    BY TellsStep DEF IInv
  <2>3. HeadResolves'
    BY HeadStep
  <2>4. QED
    BY <2>1, <2>2, <2>3 DEF IInv
<1>2. QED
  BY InvInit, <1>1, PTL DEF Spec

\* When nothing is under way the on/off check shows what the daemon is in
\* (OnOffAgrees), however the switches of the user and of others interleaved.
THEOREM CheckAgrees == Spec => []OnOffAgrees
<1>1. IInv => OnOffAgrees
  BY DEF IInv, LastTells, Tells, OnOffAgrees
<1>2. QED
  BY InductiveInvariant, <1>1, PTL

\* A head that reads "Activating" or "Deactivating" has what will replace it on
\* the way, unless a failing call made the code drop the switch (HeadResolves).
THEOREM HeadIsResolved == Spec => []HeadResolves
<1>1. IInv => HeadResolves
  BY DEF IInv
<1>2. QED
  BY InductiveInvariant, <1>1, PTL
=============================================================================
