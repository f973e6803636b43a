------------------------------ MODULE WfdAutoOff ------------------------------
(***************************************************************************)
(* The automatic turn-off of the popup application (popup-wifidirect).     *)
(*                                                                         *)
(* While nobody is connected a monitor timer polls the link state and,     *)
(* when the state has been the same for NO_ACTION_TIME_OUT seconds, offers *)
(* to switch Wi-Fi Direct off; while somebody is connected a transmit      *)
(* timer does the like with the transfer state.  Every connection event    *)
(* switches between the two.                                               *)
(*                                                                         *)
(* wfd_appdata_t keeps its names.  A timer handle is "null", "live", or    *)
(* "stale": an Ecore timer whose callback returned ECORE_CALLBACK_CANCEL   *)
(* is freed, but nothing clears the handle.  Deleting a stale handle finds *)
(* no timer.  The time stamps become ages, cut off where the code no       *)
(* longer tells them apart:                                                *)
(*   idle           time(NULL) - last_wfd_time                             *)
(*   transmit_idle  time(NULL) - last_wfd_transmit_time                    *)
(*   due            what is left until the live timer fires                *)
(* Time passes in Tick, and not while a timer is due.                      *)
(***************************************************************************)
EXTENDS Naturals

CONSTANTS
    TimeOut,   \* NO_ACTION_TIME_OUT, 300 s
    Period,    \* the timers' period, 5 s
    Links      \* the link states the daemon may report

\* wifi_direct_state_e
LINK_DEACTIVATED == 0
LINK_DEACTIVATING == 1
LINK_ACTIVATING == 2
LINK_CONNECTING == 5
LinkState == 0..8

ASSUME TimeOutAssumption == TimeOut \in Nat
ASSUME PeriodAssumption == Period \in Nat \ {0}
ASSUME LinksAssumption == Links \subseteq LinkState

VARIABLES
    link,            \* the daemon's link state
    wfd_status, last_wfd_status,
    monitor_timer, transmit_timer,
    due, idle, transmit_idle,
    popup,           \* "none", "turn_off" (WFD_POP_AUTOMATIC_TURN_OFF), "other"
    noti,            \* the notification in the tray
    running,         \* FALSE after elm_exit
    quiet,           \* history: how long the link state has been what it is
    steady,          \* history: no link state was over within a period
    offered          \* history: the offer was made since the last switch to transmit

vars == <<link, wfd_status, last_wfd_status, monitor_timer, transmit_timer,
          due, idle, transmit_idle, popup, noti, running, quiet, steady, offered>>

timers == <<monitor_timer, transmit_timer, due, idle, transmit_idle>>
history == <<quiet, steady, offered>>

Handle == {"null", "live", "stale"}

TypeOK ==
    /\ link \in Links
    /\ wfd_status \in LinkState
    /\ last_wfd_status \in LinkState
    /\ monitor_timer \in Handle
    /\ transmit_timer \in Handle
    /\ due \in 0..Period
    /\ idle \in 0..TimeOut
    /\ transmit_idle \in 0..TimeOut
    /\ popup \in {"none", "turn_off", "other"}
    /\ noti \in {"none", "connected", "turn_off"}
    /\ running \in BOOLEAN
    /\ quiet \in 0..TimeOut
    /\ steady \in BOOLEAN
    /\ offered \in BOOLEAN

Older(age) == IF age < TimeOut THEN age + 1 ELSE age

Live == monitor_timer = "live" \/ transmit_timer = "live"

\* wifi_direct_get_state: it fails or gives the daemon's state.
GetState == wfd_status' \in {wfd_status, link}

-----------------------------------------------------------------------------
(* The timers.                                                             *)

Tick ==
    /\ running
    /\ Live => due > 0
    /\ due' = IF Live THEN due - 1 ELSE due
    /\ idle' = Older(idle)
    /\ transmit_idle' = Older(transmit_idle)
    /\ quiet' = Older(quiet)
    /\ UNCHANGED <<link, wfd_status, last_wfd_status, monitor_timer,
                   transmit_timer, popup, noti, running, steady, offered>>

\* _wfd_automatic_deactivated_for_no_connection_cb, by how it returns.
MonitorFails ==
    /\ monitor_timer' = "stale"
    /\ UNCHANGED <<wfd_status, last_wfd_status, due, idle, popup, offered>>

\* Mutation of MonitorSeesAction: the new state is noted, its time is not.
MonitorSeesActionOnly ==
    /\ wfd_status' = link
    /\ last_wfd_status # link
    /\ last_wfd_status' = link
    /\ due' = Period
    /\ UNCHANGED <<monitor_timer, idle, popup, offered>>

MonitorSeesAction ==
    /\ wfd_status' = link
    /\ last_wfd_status # link
    /\ last_wfd_status' = link
    /\ idle' = 0
    /\ due' = Period
    /\ UNCHANGED <<monitor_timer, popup, offered>>

MonitorWaits ==
    /\ wfd_status' = link
    /\ last_wfd_status = link
    /\ idle < TimeOut
    /\ due' = Period
    /\ UNCHANGED <<last_wfd_status, monitor_timer, idle, popup, offered>>

\* Mutation of MonitorGivesUp: the timer goes on.
MonitorGivesUpForNow ==
    /\ wfd_status' = link
    /\ last_wfd_status = link
    /\ idle >= TimeOut
    /\ popup' = IF link < LINK_ACTIVATING THEN popup ELSE "turn_off"
    /\ offered' = (offered \/ link >= LINK_ACTIVATING)
    /\ due' = Period
    /\ UNCHANGED <<last_wfd_status, monitor_timer, idle>>

\* wfd_prepare_popup destroys the popup that was up.
MonitorGivesUp ==
    /\ wfd_status' = link
    /\ last_wfd_status = link
    /\ idle >= TimeOut
    /\ popup' = IF link < LINK_ACTIVATING THEN popup ELSE "turn_off"
    /\ offered' = (offered \/ link >= LINK_ACTIVATING)
    /\ monitor_timer' = "stale"
    /\ UNCHANGED <<last_wfd_status, due, idle>>

MonitorFires ==
    /\ running
    /\ monitor_timer = "live" /\ due = 0
    /\ \/ MonitorFails
       \/ MonitorSeesAction
       \/ MonitorWaits
       \/ MonitorGivesUp
    /\ UNCHANGED <<link, transmit_timer, transmit_idle, noti, running, quiet, steady>>

\* _wfd_automatic_deactivated_for_connection_cb
TransmitWaits ==
    /\ transmit_idle < TimeOut
    /\ due' = Period
    /\ UNCHANGED <<transmit_timer, transmit_idle, noti>>

TransmitFails ==
    /\ transmit_idle >= TimeOut
    /\ transmit_timer' = "stale"
    /\ UNCHANGED <<due, transmit_idle, noti>>

TransmitRestarts ==
    /\ transmit_idle >= TimeOut
    /\ transmit_idle' = 0
    /\ due' = Period
    /\ UNCHANGED <<transmit_timer, noti>>

\* _add_wfd_turn_off_notification takes the old notification away first, and
\* any call after that may fail.
TransmitGivesUp ==
    /\ transmit_idle >= TimeOut
    /\ noti' \in {"none", "turn_off"}
    /\ transmit_timer' = "stale"
    /\ UNCHANGED <<due, transmit_idle>>

TransmitFires ==
    /\ running
    /\ transmit_timer = "live" /\ due = 0
    /\ \/ TransmitWaits
       \/ TransmitFails
       \/ TransmitRestarts
       \/ TransmitGivesUp
    /\ UNCHANGED <<link, wfd_status, last_wfd_status, monitor_timer, idle, popup,
                   running, history>>

-----------------------------------------------------------------------------
(* Events of the daemon and of the user.                                   *)

\* Mutation of ToTransmit: the monitor timer is left running.
ToTransmitToo ==
    /\ wfd_status' > LINK_CONNECTING
    /\ offered' = FALSE
    /\ UNCHANGED <<monitor_timer, idle>>
    /\ IF transmit_timer = "null"
       THEN transmit_timer' = "live" /\ transmit_idle' = 0 /\ due' = Period
       ELSE UNCHANGED <<transmit_timer, transmit_idle, due>>

\* "if connected, switch to the transmit timer; Otherwise, switch to monitor
\* timer": the end of _cb_connection.
ToTransmit ==
    /\ wfd_status' > LINK_CONNECTING
    /\ offered' = FALSE
    /\ monitor_timer' = "null"
    /\ UNCHANGED idle
    /\ IF transmit_timer = "null"
       THEN transmit_timer' = "live" /\ transmit_idle' = 0 /\ due' = Period
       ELSE UNCHANGED <<transmit_timer, transmit_idle, due>>

ToMonitor ==
    /\ wfd_status' <= LINK_CONNECTING
    /\ transmit_timer' = "null"
    /\ UNCHANGED <<transmit_idle, offered>>
    /\ IF monitor_timer = "null"
       THEN monitor_timer' = "live" /\ idle' = 0 /\ due' = Period
       ELSE UNCHANGED <<monitor_timer, idle, due>>

SwitchTimers ==
    /\ GetState
    /\ ToTransmit \/ ToMonitor

\* _cb_connection up to the switch, by what it leaves of popup and notification:
\* a good answer, a failed one, a request, a disconnection by the peer or asked
\* for here, and the events that touch neither.
EventShows(kind) ==
    \/ kind = "connected" /\ popup' = "none" /\ noti' \in {"none", "connected"}
    \/ kind = "failed" /\ popup' = "none" /\ noti' = noti
    \/ kind = "request" /\ popup' = "other" /\ noti' = noti
    \/ kind = "disconnected_ind" /\ popup' = popup /\ noti' \in {"none", noti}
    \/ kind = "disconnected_rsp" /\ popup' = "none" /\ noti' \in {"none", noti}
    \/ kind = "quiet" /\ UNCHANGED <<popup, noti>>

EventKind == {"connected", "failed", "request", "disconnected_ind",
              "disconnected_rsp", "quiet"}

CbConnection(kind) ==
    /\ running
    /\ EventShows(kind)
    /\ SwitchTimers
    /\ UNCHANGED <<link, last_wfd_status, running, quiet, steady>>

\* _cb_activation.  A failing wifi_direct_generate_wps_pin makes _cb_connection
\* return before the switch, which changes nothing here.
CbDeactivated ==
    /\ running
    /\ link = LINK_DEACTIVATED
    /\ monitor_timer' = "null"
    /\ transmit_timer' = "null"
    /\ running' = FALSE
    /\ UNCHANGED <<link, wfd_status, last_wfd_status, due, idle, transmit_idle,
                   popup, noti, history>>

\* _win_del: the main loop ends, and deinit_wfd_popup_client deletes the timers after it.
WinDel ==
    /\ running
    /\ running' = FALSE
    /\ UNCHANGED <<link, wfd_status, last_wfd_status, timers, popup, noti, history>>

\* WFD_POP_RESP_AUTOMATIC_TURNOFF_OK; when the state cannot be read the popup
\* stays.  The daemon takes its time to deactivate.
TurnOffOk ==
    /\ running
    /\ popup = "turn_off"
    /\ wfd_status' = IF link < LINK_ACTIVATING THEN link ELSE LINK_DEACTIVATING
    /\ popup' = "none"
    /\ UNCHANGED <<link, last_wfd_status, timers, noti, running, history>>

\* Mutation of OtherAnswered: the window is hidden, the popup not destroyed.
OtherHidden ==
    /\ running
    /\ popup = "other"
    /\ popup' = "hidden"
    /\ UNCHANGED <<link, last_wfd_status, wfd_status, timers, noti, running, history>>

OtherAnswered ==
    /\ running
    /\ popup = "other"
    /\ popup' \in {"none", "other"}
    /\ UNCHANGED <<link, wfd_status, last_wfd_status, timers, noti, running, history>>

DaemonMoves(st) ==
    /\ running
    /\ st # link
    /\ link' = st
    /\ quiet' = 0
    /\ steady' = (steady /\ quiet > Period)
    /\ UNCHANGED <<wfd_status, last_wfd_status, timers, popup, noti, running, offered>>

-----------------------------------------------------------------------------

\* init_wfd_popup_client
Init ==
    /\ link \in Links
    /\ wfd_status = LINK_DEACTIVATED
    /\ last_wfd_status = LINK_DEACTIVATED
    /\ monitor_timer = "live"
    /\ transmit_timer = "null"
    /\ due = Period
    /\ idle = 0
    /\ transmit_idle = 0
    /\ popup = "none"
    /\ noti = "none"
    /\ running = TRUE
    /\ quiet \in 0..TimeOut
    /\ steady = TRUE
    /\ offered = FALSE

Next ==
    \/ Tick
    \/ MonitorFires
    \/ TransmitFires
    \/ \E kind \in EventKind : CbConnection(kind)
    \/ CbDeactivated
    \/ WinDel
    \/ TurnOffOk
    \/ OtherAnswered
    \/ \E st \in Links : DaemonMoves(st)

Spec == Init /\ [][Next]_vars

-----------------------------------------------------------------------------

\* Exactly one of the two handles is set while the application runs, live or
\* stale: the switch of _cb_connection never leaves both timers polling, nor
\* neither handle for _cb_activation to delete.
OneHandle ==
    running => ((monitor_timer = "null") <=> (transmit_timer # "null"))

\* The offer to turn off comes at most one period early: if no link state lasts
\* for less than a period, then the state has been the same for NO_ACTION_TIME_OUT
\* less one period when _wfd_automatic_deactivated_for_no_connection_cb shows it,
\* however the switches between the timers fell.
OffersInTime ==
    [][popup # "turn_off" /\ popup' = "turn_off" /\ steady
         => quiet + Period >= TimeOut]_vars

\* What makes it inductive: as long as the state is the one the monitor timer saw
\* last, it has been so for as long as idle says, but for one period.  A state it
\* has not seen yet is younger than its last poll, or the timer is younger than
\* the state.
SinceFired == Period - due

IdleIsQuiet ==
    running /\ steady /\ monitor_timer = "live" =>
        IF last_wfd_status = link THEN quiet + Period >= idle
                                  ELSE quiet > SinceFired => idle <= SinceFired

\* The user is asked once: until an event finds somebody connected, the offer is not
\* made again, however it was answered and whatever fails to connect meanwhile.  The
\* handle of the timer that made it is not cleared, so no switch starts another.
OffersOnce ==
    [][popup # "turn_off" /\ popup' = "turn_off" => ~offered]_vars

OfferedIsStale == running /\ offered => monitor_timer = "stale"

IInv == TypeOK /\ OneHandle /\ IdleIsQuiet /\ OfferedIsStale

\* The text of the popup, IDS_WFD_POP_AUTOMATIC_TURN_OFF: "There has been no
\* activity for 5 minutes".
NoActivity ==
    [][popup # "turn_off" /\ popup' = "turn_off"
         => quiet + Period >= TimeOut]_vars

\* The comment before the switch in _cb_connection: "if connected, switch to the
\* transmit timer; Otherwise, switch to monitor timer".
SwitchesTimer ==
    [][\A kind \in EventKind :
         CbConnection(kind) =>
           IF wfd_status' > LINK_CONNECTING THEN transmit_timer' = "live"
                                            ELSE monitor_timer' = "live"]_vars
=============================================================================
