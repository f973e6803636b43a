------------------------------- MODULE WfdSwitch -------------------------------
(***************************************************************************)
(* Switching Wi-Fi Direct on and off in the gadget (ug-wifidirect).        *)
(*                                                                         *)
(* Wi-Fi and Wi-Fi Direct exclude each other.  The on/off check at the head*)
(* of the main view asks the wifi-direct daemon to activate or deactivate; *)
(* while Wi-Fi is on the user is first asked to give it up, the network    *)
(* client is asked to power it off, and a callback on the vconf key of the *)
(* Wi-Fi state activates Wi-Fi Direct when it is off.  Until the daemon's  *)
(* event comes the head reads "Activating" or "Deactivating" and shows no  *)
(* check.                                                                  *)
(*                                                                         *)
(* struct ug_data keeps its names: wfd_status, wfd_onoff, act_popup,       *)
(* warn_popup, and head for head_text_mode.  The popups are modal; the     *)
(* newest is on top.  One action is one callback of the main loop, or one  *)
(* step of the daemon, of Wi-Fi or of another application.                 *)
(***************************************************************************)
EXTENDS Naturals, Sequences

CONSTANT MaxEvents   \* bound: events of the daemon not yet dispatched

ASSUME MaxEventsAssumption == MaxEvents \in Nat \ {0}

\* wifi_direct_state_e, with nothing to tell DISCONNECTING and GROUP_OWNER from
\* their neighbours here
DEACTIVATED == 0
DEACTIVATING == 1
ACTIVATING == 2
ACTIVATED == 3
DISCOVERING == 4
CONNECTING == 5
CONNECTED == 7

LinkState == {DEACTIVATED, DEACTIVATING, ACTIVATING, ACTIVATED, DISCOVERING,
              CONNECTING, CONNECTED}

\* What ends a switch, and the other events of the daemon.
SwitchEvent == {"activated", "activate_fail", "deactivated", "deactivate_fail"}
Event == SwitchEvent \cup {"listen", "scan", "found", "scan_over",
                           "connection", "disconnection"}

VARIABLES
    wfd_status, wfd_onoff, head,
    act_popup, warn_popup,
    lost,         \* warnings on the screen that warn_popup no longer points to
    scan_btn,     \* its text, and whether it is enabled
    vconf_cb,     \* _wifi_state_cb is registered
    net_client,   \* the network client is registered
    ug,           \* "up", "closing" after ug_destroy_me, "gone"
    link,         \* the daemon's state
    events,       \* its events on their way to the gadget
    wifi_on,      \* VCONFKEY_WIFI_STATE is not VCONFKEY_WIFI_OFF
    powering_off, \* net_wifi_power_off was taken and has not been carried out
    changed,      \* a change of the key waits for _wifi_state_cb
    informed,     \* history: wfd_onoff was set from the daemon's state
    excused       \* history: see Fails

gadget == <<wfd_onoff, head, act_popup, warn_popup, lost, scan_btn, vconf_cb,
            net_client, ug>>
world == <<link, events, wifi_on, powering_off, changed>>
vars == <<wfd_status, gadget, world, informed, excused>>

Waiting == {"ACTIVATING", "DEACTIVATING"}

TypeOK ==
    /\ wfd_status \in LinkState
    /\ wfd_onoff \in BOOLEAN
    /\ head \in {"DIRECT", "ACTIVATED", "SCANING"} \cup Waiting
    /\ act_popup \in {"none", "wifi_off", "scan_again"}
    /\ warn_popup \in {"none", "fail", "terminate"}
    /\ lost \subseteq {"fail", "terminate"}
    /\ scan_btn \in [text : {"SCAN", "STOP"}, enabled : BOOLEAN]
    /\ vconf_cb \in BOOLEAN
    /\ net_client \in BOOLEAN
    /\ ug \in {"up", "closing", "gone"}
    /\ link \in LinkState
    /\ events \in Seq(Event) /\ Len(events) <= MaxEvents
    /\ wifi_on \in BOOLEAN
    /\ powering_off \in BOOLEAN
    /\ changed \in BOOLEAN
    /\ informed \in BOOLEAN
    /\ excused \in BOOLEAN

-----------------------------------------------------------------------------
(* What the callbacks share.                                               *)

\* wfd_refresh_wifi_direct_state: on failure the copy keeps the value old.
Refresh(old) == wfd_status' \in {link, old}

Scan(enabled) == scan_btn' = [text |-> "SCAN", enabled |-> enabled]
StopScan == scan_btn' = [text |-> "STOP", enabled |-> TRUE]

\* Mutation of Warn: a warning is taken for lost though none was up.
WarnAlwaysLoses(kind) == warn_popup' = kind /\ lost' = lost \cup {warn_popup}

\* wfd_ug_warn_popup does not look at the warning that is up.
Warn(kind) ==
    /\ warn_popup' = kind
    /\ lost' = IF warn_popup = "none" THEN lost ELSE lost \cup {warn_popup}

NoWarn == UNCHANGED <<warn_popup, lost>>

\* The user reaches the views when no popup is up.
Open == ug = "up" /\ act_popup = "none" /\ warn_popup = "none" /\ lost = {}

\* excused holds from a callback that gives the switch up without a word, or
\* that goes by a stale copy of the daemon's state, until the head is rewritten.
Fails(dropped) == excused' = ((excused \/ dropped) /\ head' \in Waiting)

\* wifi_direct_activate from wfd_client_switch_on or wfd_client_swtch_force
ActivateTaken ==
    /\ link = DEACTIVATED
    /\ link' = ACTIVATING
    /\ UNCHANGED head
    /\ NoWarn

ActivateRefused ==
    /\ head' = "DIRECT"
    /\ Warn("terminate")
    /\ UNCHANGED link

-----------------------------------------------------------------------------
(* _wfd_onoff_btn_cb                                                       *)

\* wfd_client_switch_on with the refreshed copy st of the daemon's state.
AlreadyOn(st) ==
    /\ st >= ACTIVATING
    /\ head' = "ACTIVATING"
    /\ wfd_status' = st
    /\ UNCHANGED <<link, act_popup>> /\ NoWarn
    /\ Fails(~informed \/ st # link)

WifiUnknown(st) ==
    /\ st < ACTIVATING
    /\ head' = "ACTIVATING"
    /\ wfd_status' = ACTIVATING
    /\ UNCHANGED <<link, act_popup>> /\ NoWarn
    /\ Fails(TRUE)

AskWifiOff(st) ==
    /\ st < ACTIVATING
    /\ wifi_on
    /\ head' = "ACTIVATING"
    /\ wfd_status' = ACTIVATING
    /\ act_popup' = "wifi_off"
    /\ UNCHANGED link /\ NoWarn
    /\ Fails(FALSE)

Activate(st) ==
    /\ st < ACTIVATING
    /\ ~wifi_on
    /\ wfd_status' = ACTIVATING
    /\ UNCHANGED act_popup
    /\ \/ link = DEACTIVATED /\ link' = ACTIVATING /\ head' = "ACTIVATING" /\ NoWarn
       \/ ActivateRefused
    /\ Fails(FALSE)

SwitchOn(st) == AlreadyOn(st) \/ WifiUnknown(st) \/ AskWifiOff(st) \/ Activate(st)

\* wfd_client_switch_off
AlreadyOff(st) ==
    /\ st < ACTIVATING
    /\ head' = "DEACTIVATING"
    /\ wfd_status' = st
    /\ UNCHANGED link /\ NoWarn
    /\ Fails(st # link)

Deactivate(st) ==
    /\ st >= ACTIVATING
    /\ wfd_status' = DEACTIVATING
    /\ \/ /\ link >= ACTIVATED
          /\ link' = DEACTIVATING
          /\ head' = "DEACTIVATING" /\ NoWarn
       \/ /\ head' = "DIRECT"
          /\ Warn("terminate")
          /\ UNCHANGED link
    /\ Fails(FALSE)

SwitchOff(st) == (AlreadyOff(st) \/ Deactivate(st)) /\ UNCHANGED act_popup

OnOff ==
    /\ \E st \in {link, wfd_status} : IF wfd_onoff THEN SwitchOff(st) ELSE SwitchOn(st)
    /\ Scan(FALSE)
    /\ UNCHANGED <<wfd_onoff, vconf_cb, net_client, ug, events, wifi_on,
                   powering_off, changed, informed>>

\* A tap on the check or on the head itself, which works while the check is away.
OnOffBtn == Open /\ OnOff

\* _wfd_ug_act_popup_wifi_ok_cb: how far wfd_wifi_off gets.
WifiOff(vconf, net, power) ==
    /\ net => vconf
    /\ power => net /\ wifi_on
    /\ vconf_cb' = (vconf_cb \/ vconf)
    /\ net_client' = (net_client \/ net)
    /\ powering_off' = (powering_off \/ power)
    /\ Fails(~(vconf_cb' /\ powering_off'))

\* Mutation of WifiOk: the callback on the key is taken for registered.
WifiOkUnregistered ==
    /\ ug = "up" /\ act_popup = "wifi_off" /\ warn_popup = "none" /\ lost = {}
    /\ act_popup' = "none"
    /\ wfd_status' = DEACTIVATED
    /\ powering_off' = TRUE
    /\ Fails(FALSE)
    /\ UNCHANGED <<wfd_onoff, head, warn_popup, lost, scan_btn, vconf_cb, net_client,
                   ug, link, events, wifi_on, changed, informed>>

WifiOk ==
    /\ ug = "up" /\ act_popup = "wifi_off" /\ warn_popup = "none" /\ lost = {}
    /\ act_popup' = "none"
    /\ wfd_status' = DEACTIVATED
    /\ UNCHANGED <<wfd_onoff, head, warn_popup, lost, scan_btn, ug, link, events,
                   wifi_on, changed, informed>>
    /\ \E vconf, net, power \in BOOLEAN : WifiOff(vconf, net, power)

WifiCancel ==
    /\ ug = "up" /\ act_popup = "wifi_off" /\ warn_popup = "none" /\ lost = {}
    /\ act_popup' = "none"
    /\ head' = "DIRECT"
    /\ Fails(FALSE)
    /\ UNCHANGED <<wfd_status, wfd_onoff, warn_popup, lost, scan_btn, vconf_cb,
                   net_client, ug, world, informed>>

\* _wifi_state_cb: it reads the key, which may have changed again by now.
WifiStateCb ==
    /\ ug # "gone" /\ vconf_cb /\ changed
    /\ changed' = FALSE
    /\ \/ /\ UNCHANGED <<head, link, net_client>> /\ NoWarn
          /\ Fails(~powering_off)
       \/ /\ wifi_on
          /\ UNCHANGED <<head, link>> /\ NoWarn
          /\ net_client' \in {FALSE, net_client}
          /\ Fails(~powering_off)
       \/ /\ ~wifi_on
          /\ ActivateTaken \/ ActivateRefused
          /\ net_client' \in {FALSE, net_client}
          /\ Fails(FALSE)
    /\ UNCHANGED <<wfd_status, wfd_onoff, act_popup, scan_btn, vconf_cb, ug,
                   events, wifi_on, powering_off, informed>>

-----------------------------------------------------------------------------
(* The scan button, as far as it reaches the head.                         *)

\* wfd_client_start_discovery leaves wfd_status the value of another
\* enumeration if its refresh fails: WIFI_DIRECT_DISCOVERY_STARTED is 1, and
\* WIFI_DIRECT_DISCOVERY_FOUND 2.
StartDiscovery == wfd_status' \in {link, DEACTIVATING, ACTIVATING} /\ head' = "SCANING"

ScanAsks(st) ==
    /\ st >= CONNECTED
    /\ act_popup' = "scan_again"
    /\ wfd_status' = st
    /\ UNCHANGED head

ScanStarts(st) ==
    /\ st = ACTIVATED
    /\ StartDiscovery
    /\ UNCHANGED act_popup

ScanNothing(st) ==
    /\ st \notin {DEACTIVATED, ACTIVATED} /\ st < CONNECTED
    /\ wfd_status' = st
    /\ UNCHANGED <<head, act_popup>>

ScanBtn ==
    /\ Open
    /\ scan_btn = [text |-> "SCAN", enabled |-> TRUE]
    /\ \E st \in {link, wfd_status} :
         \/ /\ ScanAsks(st) \/ ScanStarts(st) \/ ScanNothing(st)
            /\ StopScan
            /\ Fails(FALSE)
            /\ UNCHANGED <<wfd_onoff, warn_popup, lost, vconf_cb, net_client, ug,
                           world, informed>>
         \/ st = DEACTIVATED /\ OnOff

StopBtn ==
    /\ Open
    /\ scan_btn.text = "STOP" /\ scan_btn.enabled
    /\ Refresh(ACTIVATED)
    /\ head' = "DIRECT"
    /\ Fails(FALSE)
    /\ UNCHANGED <<wfd_onoff, act_popup, warn_popup, lost, scan_btn, vconf_cb,
                   net_client, ug, world, informed>>

\* _wfd_ug_act_popup_scan_again_ok_cb and ..._cancel_cb
ScanAgainAnswer ==
    /\ ug = "up" /\ act_popup = "scan_again" /\ warn_popup = "none" /\ lost = {}
    /\ act_popup' = "none"
    /\ StartDiscovery \/ UNCHANGED <<head, wfd_status>>
    /\ Fails(FALSE)
    /\ UNCHANGED <<wfd_onoff, warn_popup, lost, scan_btn, vconf_cb, net_client,
                   ug, world, informed>>

-----------------------------------------------------------------------------
(* The daemon's callbacks.                                                 *)

Dispatch(kinds) ==
    /\ ug # "gone"
    /\ events # <<>> /\ Head(events) \in kinds
    /\ events' = Tail(events)
    /\ UNCHANGED <<net_client, ug, link, wifi_on, powering_off, changed>>

\* Mutation of ActivationFailed: the switch keeps its position.
ActivationFailedOnly ==
    /\ Dispatch({"activate_fail", "deactivate_fail"})
    /\ Refresh(wfd_status)
    /\ head' = "DIRECT"
    /\ Warn("fail")
    /\ informed' = TRUE
    /\ Fails(FALSE)
    /\ UNCHANGED <<wfd_onoff, act_popup, scan_btn, vconf_cb>>

\* _activation_cb with an error returns before the buttons are refreshed.
ActivationFailed ==
    /\ Dispatch({"activate_fail", "deactivate_fail"})
    /\ Refresh(wfd_status)
    /\ head' = "DIRECT"
    /\ wfd_onoff' = (Head(events) = "deactivate_fail")
    /\ Warn("fail")
    /\ informed' = TRUE
    /\ Fails(FALSE)
    /\ UNCHANGED <<act_popup, scan_btn, vconf_cb>>

Activated ==
    /\ Dispatch({"activated"})
    /\ Refresh(wfd_status)
    /\ head' = "ACTIVATED"
    /\ wfd_onoff' = TRUE
    /\ act_popup' = "none"
    /\ vconf_cb' \in {FALSE, vconf_cb}
    /\ Scan(TRUE)
    /\ informed' = TRUE
    /\ Fails(FALSE)
    /\ NoWarn

\* Mutation of Deactivated: only the switch is put back.
DeactivatedSwitchOnly ==
    /\ Dispatch({"deactivated"})
    /\ Refresh(wfd_status)
    /\ UNCHANGED head
    /\ wfd_onoff' = FALSE
    /\ Scan(TRUE)
    /\ informed' = TRUE
    /\ Fails(FALSE)
    /\ NoWarn
    /\ UNCHANGED <<act_popup, vconf_cb>>

Deactivated ==
    /\ Dispatch({"deactivated"})
    /\ Refresh(wfd_status)
    /\ head' = "DIRECT"
    /\ wfd_onoff' = FALSE
    /\ Scan(TRUE)
    /\ informed' = TRUE
    /\ Fails(FALSE)
    /\ NoWarn
    /\ UNCHANGED <<act_popup, vconf_cb>>

\* _discover_cb
DiscoverCb ==
    /\ Dispatch({"listen", "scan", "found", "scan_over"})
    /\ head' = IF Head(events) = "scan" THEN "SCANING"
               ELSE IF Head(events) = "scan_over" THEN head ELSE "DIRECT"
    /\ IF Head(events) = "scan" THEN StopScan ELSE Scan(TRUE)
    /\ Fails(FALSE)
    /\ NoWarn
    /\ UNCHANGED <<wfd_status, wfd_onoff, act_popup, vconf_cb, informed>>

\* The end of _connection_cb: a group owner may scan while it connects.
ScanAfter(st) ==
    IF st = CONNECTING THEN Scan(FALSE) \/ UNCHANGED scan_btn ELSE Scan(TRUE)

\* _connection_cb.  Of a peer it does not find, and of a disconnection while a session
\* is in progress, only the refresh at its end is left; a disconnection with an error
\* does not get there.
ConnectionCb ==
    /\ Dispatch({"connection", "disconnection"})
    /\ \/ /\ Refresh(wfd_status) \/ (Head(events) = "connection" /\ Refresh(CONNECTED))
          /\ UNCHANGED head
          /\ ScanAfter(wfd_status')
       \/ /\ Head(events) = "disconnection"
          /\ Refresh(DISCOVERING)
          /\ head' = "SCANING"
          /\ ScanAfter(wfd_status')
       \/ /\ Head(events) = "disconnection"
          /\ UNCHANGED <<wfd_status, head, scan_btn>>
    /\ Fails(FALSE)
    /\ NoWarn
    /\ UNCHANGED <<wfd_onoff, act_popup, vconf_cb, informed>>

-----------------------------------------------------------------------------
(* Closing the gadget.                                                     *)

\* _back_btn_cb
BackBtn ==
    /\ Open
    /\ ug' = "closing"
    /\ Refresh(wfd_status)
    /\ UNCHANGED <<wfd_onoff, head, act_popup, warn_popup, lost, scan_btn, vconf_cb,
                   net_client, world, informed, excused>>

\* _wfd_ug_warn_popup_cb and _wfd_ug_terminate_popup_cb on the newest warning.
\* Both delete warn_popup: on a lost warning that is not there.
WarnAnswer ==
    /\ ug = "up"
    /\ \/ warn_popup = "terminate" /\ ug' = "closing"
       \/ warn_popup = "fail" /\ UNCHANGED ug
       \/ warn_popup = "none" /\ "terminate" \in lost /\ ug' = "closing"
    /\ warn_popup' = "none"
    /\ UNCHANGED <<wfd_status, wfd_onoff, head, act_popup, lost, scan_btn, vconf_cb,
                   net_client, world, informed, excused>>

\* on_destroy and deinit_wfd_client
OnDestroy ==
    /\ ug = "closing"
    /\ ug' = "gone"
    /\ Refresh(wfd_status)
    /\ vconf_cb' \in {FALSE, vconf_cb}
    /\ net_client' \in {FALSE, net_client}
    /\ act_popup' = "none" /\ warn_popup' = "none" /\ lost' = {}
    /\ UNCHANGED <<wfd_onoff, head, scan_btn, world, informed, excused>>

-----------------------------------------------------------------------------
(* The daemon, Wi-Fi and other applications.                               *)

Environment == UNCHANGED <<wfd_status, gadget, informed, excused>>

Send(kind) == Len(events) < MaxEvents /\ events' = Append(events, kind)

\* The daemon ends the switch it took.
Completes ==
    /\ \/ /\ link = ACTIVATING
          /\ \/ link' = ACTIVATED /\ Send("activated")
             \/ link' = DEACTIVATED /\ Send("activate_fail")
       \/ /\ link = DEACTIVATING
          /\ \/ link' = DEACTIVATED /\ Send("deactivated")
             \/ link' = ACTIVATED /\ Send("deactivate_fail")
    /\ Environment
    /\ UNCHANGED <<wifi_on, powering_off, changed>>

\* Discoveries and connections, whoever asked for them.
LinkMoves ==
    /\ \/ link = ACTIVATED /\ link' = DISCOVERING /\ Send("scan")
       \/ /\ link = DISCOVERING /\ link' = ACTIVATED
          /\ Send("listen") \/ Send("found") \/ Send("scan_over")
       \/ link \in {ACTIVATED, DISCOVERING} /\ link' = CONNECTING /\ Send("connection")
       \/ link = CONNECTING /\ link' \in {ACTIVATED, CONNECTED} /\ Send("connection")
       \/ link = CONNECTED /\ link' = ACTIVATED /\ Send("disconnection")
    /\ Environment
    /\ UNCHANGED <<wifi_on, powering_off, changed>>

\* Another application switches Wi-Fi Direct on or off.
OtherSwitches ==
    /\ \/ link = DEACTIVATED /\ link' = ACTIVATING
       \/ link >= ACTIVATED /\ link' = DEACTIVATING
    /\ Environment
    /\ UNCHANGED <<events, wifi_on, powering_off, changed>>

WifiPowersOff ==
    /\ powering_off
    /\ wifi_on' = FALSE /\ powering_off' = FALSE
    /\ changed' = vconf_cb
    /\ Environment
    /\ UNCHANGED <<link, events>>

\* The key also tells a connected Wi-Fi from one that is not.
WifiChanges ==
    /\ wifi_on' \in IF powering_off THEN {wifi_on} ELSE BOOLEAN
    /\ changed' = vconf_cb
    /\ Environment
    /\ UNCHANGED <<link, events, powering_off>>

-----------------------------------------------------------------------------

\* on_create; wifi_direct_get_state may have failed.
Init ==
    /\ link \in LinkState
    /\ wfd_status \in {DEACTIVATED, link}
    /\ wfd_onoff = (wfd_status > ACTIVATING)
    /\ informed = (wfd_status = link)
    /\ head = "DIRECT"
    /\ act_popup = "none" /\ warn_popup = "none" /\ lost = {}
    /\ scan_btn = [text |-> "SCAN", enabled |-> TRUE]
    /\ vconf_cb = FALSE /\ net_client = FALSE
    /\ ug = "up"
    /\ events = <<>>
    /\ wifi_on \in BOOLEAN
    /\ powering_off = FALSE
    /\ changed = FALSE
    /\ excused = FALSE

User ==
    \/ OnOffBtn
    \/ WifiOk \/ WifiCancel
    \/ ScanBtn \/ StopBtn \/ ScanAgainAnswer
    \/ BackBtn \/ WarnAnswer

Callback ==
    \/ ActivationFailed \/ Activated \/ Deactivated
    \/ DiscoverCb \/ ConnectionCb

Next ==
    \/ User \/ Callback \/ WifiStateCb \/ OnDestroy
    \/ Completes \/ LinkMoves \/ OtherSwitches
    \/ WifiPowersOff \/ WifiChanges

Spec == Init /\ [][Next]_vars

\* The main loop dispatches what waits, the daemon ends the switches it takes and
\* Wi-Fi goes off when told to.  The user and the other applications owe nothing.
FairSpec ==
    /\ Spec
    /\ WF_vars(Callback)
    /\ WF_vars(WifiStateCb)
    /\ WF_vars(Completes)
    /\ WF_vars(WifiPowersOff)

-----------------------------------------------------------------------------

Coming == {events[i] : i \in 1..Len(events)}

\* When no switch is under way and none of its events is on its way, the check
\* shows what the daemon is in, whoever switched it and however often.
OnOffAgrees ==
    informed /\ link \notin {ACTIVATING, DEACTIVATING} /\ Coming \cap SwitchEvent = {}
      /\ ug = "up"
    => (wfd_onoff <=> link >= ACTIVATED)

\* What makes it inductive: the last switch event on its way, or the check if
\* there is none, tells what the daemon is in; a check that is on was told.
Tells(on) == on <=> link >= ACTIVATED

LastTells ==
    link \notin {ACTIVATING, DEACTIVATING} =>
        /\ informed /\ Coming \cap SwitchEvent = {} => Tells(wfd_onoff)
        /\ \A i \in 1..Len(events) :
             /\ events[i] \in SwitchEvent
             /\ \A j \in i+1..Len(events) : events[j] \notin SwitchEvent
             => Tells(events[i] \in {"activated", "deactivate_fail"})

OnWasTold == wfd_onoff => informed

\* "Activating" or "Deactivating", which hide the check, never outlive what will
\* replace them: the daemon's event, the question about Wi-Fi, or the change of
\* the Wi-Fi state the callback waits for.  The cases where the code drops the
\* switch instead are the ones of Fails.
HeadResolves ==
    head \in Waiting /\ ug = "up" /\ ~excused =>
        \/ link \in {ACTIVATING, DEACTIVATING}
        \/ Coming \cap SwitchEvent # {}
        \/ act_popup = "wifi_off"
        \/ vconf_cb /\ (powering_off \/ changed)

\* ... and the head does leave them, unless the question is left unanswered.
HeadSettles ==
    head \in Waiting /\ ug = "up" /\ ~excused
      ~> head \notin Waiting \/ ug # "up" \/ excused \/ act_popup = "wifi_off"

IInv == TypeOK /\ LastTells /\ OnWasTold /\ HeadResolves

\* debian/changelog: "Enable 'scan' button when WFD is off".
ScanWhenOff ==
    Open /\ head = "DIRECT" /\ ~wfd_onoff /\ link = DEACTIVATED => scan_btn.enabled
=============================================================================
