--------------------------- MODULE WfdAutoOff_proofs ---------------------------
(***************************************************************************)
(* Proofs about WfdAutoOff, for every time-out, every polling period and   *)
(* every set of link states.                                               *)
(***************************************************************************)
EXTENDS WfdAutoOff, TLAPS

LEMMA OlderType ==
    ASSUME NEW age \in 0..TimeOut
    PROVE  /\ Older(age) \in 0..TimeOut
           /\ Older(age) \in {age, age + 1}
           /\ Older(age) = age => age = TimeOut
  BY TimeOutAssumption DEF Older

LEMMA SwitchType ==
    ASSUME TypeOK, SwitchTimers
    PROVE  /\ wfd_status' \in LinkState
           /\ monitor_timer' \in Handle /\ transmit_timer' \in Handle
           /\ due' \in 0..Period /\ idle' \in 0..TimeOut
           /\ transmit_idle' \in 0..TimeOut
           /\ offered' \in BOOLEAN
<1> USE TimeOutAssumption, PeriodAssumption, LinksAssumption DEF TypeOK, Handle
<1>1. wfd_status' \in LinkState
  BY DEF SwitchTimers, GetState
<1>2. offered' \in BOOLEAN
  BY DEF SwitchTimers, ToTransmit, ToMonitor
<1>3. /\ monitor_timer' \in Handle /\ transmit_timer' \in Handle
      /\ due' \in 0..Period /\ idle' \in 0..TimeOut
      /\ transmit_idle' \in 0..TimeOut
  BY DEF SwitchTimers, ToTransmit, ToMonitor
<1>4. QED
  BY <1>1, <1>2, <1>3

LEMMA InitType == Init => TypeOK
<1> SUFFICES ASSUME Init PROVE TypeOK
  OBVIOUS
<1>1. steady \in BOOLEAN /\ offered \in BOOLEAN /\ running \in BOOLEAN
  BY DEF Init
<1>2. LINK_DEACTIVATED \in LinkState /\ Period \in 0..Period /\ 0 \in 0..TimeOut
  BY TimeOutAssumption, PeriodAssumption DEF LinkState, LINK_DEACTIVATED
<1>3. QED
  BY <1>1, <1>2 DEF Init, TypeOK, Handle

LEMMA TypeStep == TypeOK /\ [Next]_vars => TypeOK'
<1> SUFFICES ASSUME TypeOK, [Next]_vars PROVE TypeOK'
  OBVIOUS
<1> USE TimeOutAssumption, PeriodAssumption, LinksAssumption DEF TypeOK
<1>1. CASE Tick
  BY <1>1, OlderType DEF Tick, Live
<1>2. CASE MonitorFires
  <2>1. offered' \in BOOLEAN
    BY <1>2 DEF MonitorFires, MonitorFails, MonitorSeesAction, MonitorWaits,
                MonitorGivesUp
  <2>2. /\ wfd_status' \in LinkState /\ last_wfd_status' \in LinkState
        /\ monitor_timer' \in Handle /\ due' \in 0..Period
        /\ idle' \in 0..TimeOut /\ popup' \in {"none", "turn_off", "other"}
    BY <1>2 DEF MonitorFires, MonitorFails, MonitorSeesAction, MonitorWaits,
                MonitorGivesUp, Handle
  <2>3. QED
    BY <1>2, <2>1, <2>2 DEF MonitorFires
<1>3. CASE TransmitFires
  BY <1>3 DEF TransmitFires, TransmitWaits, TransmitFails, TransmitRestarts,
              TransmitGivesUp, history, Handle
<1>4. ASSUME NEW kind \in EventKind, CbConnection(kind) PROVE TypeOK'
  <2>1. popup' \in {"none", "turn_off", "other"}
        /\ noti' \in {"none", "connected", "turn_off"}
    BY <1>4 DEF CbConnection, EventShows
  <2>2. QED
    BY <1>4, <2>1, SwitchType DEF CbConnection, history
<1>5. CASE CbDeactivated
  BY <1>5 DEF CbDeactivated, history, Handle
<1>6. CASE TurnOffOk
  BY <1>6 DEF TurnOffOk, timers, history, LinkState, LINK_DEACTIVATING
<1>7. CASE OtherAnswered
  BY <1>7 DEF OtherAnswered, timers, history
<1>8. CASE WinDel
  BY <1>8 DEF WinDel, timers, history
<1>9. ASSUME NEW st \in Links, DaemonMoves(st) PROVE TypeOK'
  BY <1>9 DEF DaemonMoves, timers
<1>10. CASE UNCHANGED vars
  BY <1>10 DEF vars
<1>11. QED
  BY <1>1, <1>2, <1>3, <1>4, <1>5, <1>6, <1>7, <1>8, <1>9, <1>10 DEF Next

\* Every variable stays in its type: in particular no age passes the time-out and
\* no timer is ever further from firing than one period (TypeOK).
THEOREM TypeCorrect == Spec => []TypeOK
  BY InitType, TypeStep, PTL DEF Spec

-----------------------------------------------------------------------------

LEMMA OneHandleStep ==
    ASSUME TypeOK, OneHandle, [Next]_vars PROVE OneHandle'
<1> USE DEF OneHandle
<1>1. CASE MonitorFires
  BY <1>1 DEF MonitorFires, MonitorFails, MonitorSeesAction, MonitorWaits,
              MonitorGivesUp
<1>2. CASE TransmitFires
  BY <1>2 DEF TransmitFires, TransmitWaits, TransmitFails, TransmitRestarts,
              TransmitGivesUp
<1>3. ASSUME NEW kind \in EventKind, CbConnection(kind) PROVE OneHandle'
  BY <1>3 DEF CbConnection, SwitchTimers, ToTransmit, ToMonitor
<1>4. CASE CbDeactivated \/ WinDel
  BY <1>4 DEF CbDeactivated, WinDel
<1>5. ASSUME UNCHANGED <<monitor_timer, transmit_timer, running>>
      PROVE  OneHandle'
  BY <1>5
<1>6. QED
  BY <1>1, <1>2, <1>3, <1>4, <1>5
  DEF Next, Tick, TurnOffOk, OtherAnswered, DaemonMoves, timers, vars

\* Exactly one handle is set while the application runs (OneHandle).
THEOREM OneHandleSet == Spec => []OneHandle
<1>1. Init => OneHandle
  BY DEF Init, OneHandle
<1>2. QED
  BY <1>1, TypeCorrect, OneHandleStep, PTL DEF Spec

-----------------------------------------------------------------------------

\* The polling of the monitor timer keeps idle and quiet together.
LEMMA IdleIsQuietMonitor ==
    ASSUME TypeOK, IdleIsQuiet, MonitorFires PROVE IdleIsQuiet'
<1> USE TimeOutAssumption, PeriodAssumption DEF TypeOK
<1>1. CASE MonitorFails \/ MonitorGivesUp
  BY <1>1 DEF MonitorFails, MonitorGivesUp, IdleIsQuiet
<1>2. CASE MonitorSeesAction
  BY <1>2 DEF MonitorFires, MonitorSeesAction, IdleIsQuiet, history
<1>3. CASE MonitorWaits
  BY <1>3 DEF MonitorFires, MonitorWaits, IdleIsQuiet, history
<1>4. QED
  BY <1>1, <1>2, <1>3 DEF MonitorFires

LEMMA IdleIsQuietTick ==
    ASSUME TypeOK, IdleIsQuiet, Tick PROVE IdleIsQuiet'
<1> USE TimeOutAssumption, PeriodAssumption DEF TypeOK
<1> SUFFICES ASSUME running', steady', monitor_timer' = "live"
             PROVE  IF last_wfd_status' = link' THEN quiet' + Period >= idle'
                    ELSE quiet' > SinceFired' => idle' <= SinceFired'
  BY DEF IdleIsQuiet
<1>1. /\ running /\ steady /\ monitor_timer = "live"
      /\ last_wfd_status' = last_wfd_status /\ link' = link
      /\ due \in 1..Period /\ due' = due - 1
      /\ quiet' = Older(quiet) /\ idle' = Older(idle)
  BY DEF Tick, Live
<1>2. /\ quiet' \in {quiet, quiet + 1} /\ (quiet' = quiet => quiet = TimeOut)
      /\ idle' \in {idle, idle + 1} /\ idle' \in 0..TimeOut
  BY <1>1, OlderType
<1>3. CASE last_wfd_status = link
  <2>1. quiet + Period >= idle
    BY <1>1, <1>3 DEF IdleIsQuiet
  <2>2. QED
    BY <1>1, <1>2, <1>3, <2>1
<1>4. CASE last_wfd_status # link
  <2>1. quiet > Period - due => idle <= Period - due
    BY <1>1, <1>4 DEF IdleIsQuiet, SinceFired
  <2>2. quiet' > Period - due' => idle' <= Period - due'
    BY <1>1, <1>2, <2>1
  <2>3. QED
    BY <1>1, <1>4, <2>2 DEF SinceFired
<1>5. QED
  BY <1>3, <1>4

\* A link state that follows one that lasted for more than a period is either
\* unseen, or the one seen before the timer was restarted.
LEMMA IdleIsQuietMoves ==
    ASSUME TypeOK, IdleIsQuiet, NEW st \in Links, DaemonMoves(st)
    PROVE  IdleIsQuiet'
<1> USE TimeOutAssumption, PeriodAssumption DEF TypeOK
<1> SUFFICES ASSUME running', steady', monitor_timer' = "live"
             PROVE  IF last_wfd_status' = link' THEN quiet' + Period >= idle'
                    ELSE quiet' > SinceFired' => idle' <= SinceFired'
  BY DEF IdleIsQuiet
<1>1. /\ running /\ steady /\ monitor_timer = "live" /\ quiet > Period
      /\ quiet' = 0 /\ idle' = idle /\ due' = due /\ link' = st /\ link # st
      /\ last_wfd_status' = last_wfd_status
  BY DEF DaemonMoves, timers
<1>2. CASE last_wfd_status = st
  BY <1>1, <1>2 DEF IdleIsQuiet, SinceFired
<1>3. CASE last_wfd_status # st
  BY <1>1, <1>3 DEF SinceFired
<1>4. QED
  BY <1>2, <1>3

LEMMA IdleIsQuietStep ==
    ASSUME IInv, [Next]_vars PROVE IdleIsQuiet'
<1> USE TimeOutAssumption, PeriodAssumption DEF IInv, TypeOK
<1>1. CASE TransmitFires
  <2>1. running /\ transmit_timer = "live" /\ monitor_timer' = monitor_timer
    BY <1>1 DEF TransmitFires
  <2>2. monitor_timer' = "null"
    BY <2>1 DEF OneHandle
  <2>3. QED
    BY <2>2 DEF IdleIsQuiet
<1>2. ASSUME NEW kind \in EventKind, CbConnection(kind) PROVE IdleIsQuiet'
  <2>1. CASE ToTransmit
    BY <2>1 DEF ToTransmit, IdleIsQuiet
  <2>2. CASE ToMonitor /\ monitor_timer = "null"
    BY <1>2, <2>2 DEF ToMonitor, CbConnection, history, IdleIsQuiet, SinceFired
  <2>3. CASE ToMonitor /\ monitor_timer # "null"
    BY <1>2, <2>3 DEF ToMonitor, CbConnection, history, IdleIsQuiet, SinceFired
  <2>4. QED
    BY <1>2, <2>1, <2>2, <2>3 DEF CbConnection, SwitchTimers
<1>3. CASE CbDeactivated \/ WinDel
  BY <1>3 DEF CbDeactivated, WinDel, IdleIsQuiet
<1>4. ASSUME UNCHANGED <<running, link, last_wfd_status, timers, history>>
      PROVE  IdleIsQuiet'
  BY <1>4 DEF timers, history, IdleIsQuiet, SinceFired
<1>5. QED
  BY <1>1, <1>2, <1>3, <1>4, IdleIsQuietMonitor, IdleIsQuietTick, IdleIsQuietMoves
  DEF Next, TurnOffOk, OtherAnswered, vars, timers, history

\* The handle of the timer that made the offer stays until a switch to transmit.
LEMMA OfferedIsStaleStep ==
    ASSUME TypeOK, OfferedIsStale, [Next]_vars PROVE OfferedIsStale'
<1> USE DEF OfferedIsStale
<1>1. CASE MonitorFires
  BY <1>1 DEF MonitorFires, MonitorFails, MonitorSeesAction, MonitorWaits,
              MonitorGivesUp
<1>2. CASE TransmitFires
  BY <1>2 DEF TransmitFires, history
<1>3. ASSUME NEW kind \in EventKind, CbConnection(kind) PROVE OfferedIsStale'
  BY <1>3 DEF CbConnection, SwitchTimers, ToTransmit, ToMonitor
<1>4. CASE CbDeactivated \/ WinDel
  BY <1>4 DEF CbDeactivated, WinDel
<1>5. ASSUME UNCHANGED <<monitor_timer, running, offered>>
      PROVE  OfferedIsStale'
  BY <1>5
<1>6. QED
  BY <1>1, <1>2, <1>3, <1>4, <1>5
  DEF Next, Tick, TurnOffOk, OtherAnswered, DaemonMoves, timers, history, vars

\* The inductive invariant holds in every reachable state.
THEOREM InductiveInvariant == Spec => []IInv
<1>1. Init => IInv
  <2>1. Init => OneHandle /\ OfferedIsStale
    BY DEF Init, OneHandle, OfferedIsStale
  <2>2. Init => IdleIsQuiet
    BY TimeOutAssumption, PeriodAssumption DEF Init, IdleIsQuiet, SinceFired
  <2>3. QED
    BY <2>1, <2>2, InitType DEF IInv
<1>2. IInv /\ [Next]_vars => IInv'
  BY TypeStep, OneHandleStep, IdleIsQuietStep, OfferedIsStaleStep DEF IInv
<1>3. QED
  BY <1>1, <1>2, PTL DEF Spec

\* The polls that found nothing stand for a quiet link: what the monitor's timer
\* has counted has really been idle, up to the period since it fired (IdleIsQuiet).
THEOREM IdleStaysQuiet == Spec => []IdleIsQuiet
<1>1. IInv => IdleIsQuiet
  BY DEF IInv
<1>2. QED
  BY InductiveInvariant, <1>1, PTL

\* The offer is made in one place only.
LEMMA OfferIsGivingUp ==
    ASSUME Next, popup # "turn_off", popup' = "turn_off"
    PROVE  MonitorFires /\ MonitorGivesUp
<1>1. MonitorFires
  BY DEF Next, Tick, TransmitFires, CbConnection, EventShows, CbDeactivated, WinDel,
         TurnOffOk, OtherAnswered, DaemonMoves
<1>2. QED
  BY <1>1 DEF MonitorFires, MonitorFails, MonitorSeesAction, MonitorWaits

\* The offer to turn off is at most one period early while no link state is
\* shorter than a period (OffersInTime): the polling misses no action then, and
\* the switches between the timers lose no more than the time to the first poll.
THEOREM OfferIsInTime == Spec => OffersInTime
<1> DEFINE InTime == popup # "turn_off" /\ popup' = "turn_off" /\ steady
                       => quiet + Period >= TimeOut
<1>1. IInv /\ [Next]_vars => [InTime]_vars
  <2> SUFFICES ASSUME IInv, Next, popup # "turn_off", popup' = "turn_off", steady
               PROVE  quiet + Period >= TimeOut
    OBVIOUS
  <2>1. MonitorFires /\ MonitorGivesUp
    BY OfferIsGivingUp
  <2>2. quiet + Period >= idle /\ idle >= TimeOut
    BY <2>1 DEF MonitorFires, MonitorGivesUp, IInv, IdleIsQuiet
  <2>3. QED
    BY <2>2, TimeOutAssumption, PeriodAssumption DEF IInv, TypeOK
<1>2. QED
  BY InductiveInvariant, <1>1, PTL DEF Spec, OffersInTime

\* The offer to turn off is not repeated before an event finds somebody connected
\* (OffersOnce): the timer that made it left a handle that only the switch to the
\* transmit timer clears (_wfd_automatic_deactivated_for_no_connection_cb,
\* _cb_connection).
THEOREM OfferIsMadeOnce == Spec => OffersOnce
<1> DEFINE Once == popup # "turn_off" /\ popup' = "turn_off" => ~offered
<1>1. IInv /\ [Next]_vars => [Once]_vars
  <2> SUFFICES ASSUME IInv, Next, popup # "turn_off", popup' = "turn_off"
               PROVE  ~offered
    OBVIOUS
  <2>1. running /\ monitor_timer = "live"
    BY OfferIsGivingUp DEF MonitorFires
  <2>2. QED
    BY <2>1 DEF IInv, OfferedIsStale
<1>2. QED
  BY InductiveInvariant, <1>1, PTL DEF Spec, OffersOnce
=============================================================================
