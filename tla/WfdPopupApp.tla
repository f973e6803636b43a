------------------------------ MODULE WfdPopupApp ------------------------------
(***************************************************************************)
(* The popup application (popup-wifidirect): it asks the user about the    *)
(* requests that reach the daemon, carries the answers back and keeps the  *)
(* notification of the connected devices.  WfdAutoOff models its timers;   *)
(* here they only raise the turn-off popup.                                *)
(*                                                                         *)
(* All popups share wfd_appdata_t: the peer the last event was about       *)
(* (peer_mac), a buffer with a name for it (peer_name) and one for a PIN   *)
(* (pin_number).  An action is one callback; an action of the daemon is the*)
(* daemon's step together with the event it sends and the callback for it. *)
(***************************************************************************)
EXTENDS Naturals, FiniteSets

CONSTANTS
    Peer,
    NoPeer,
    NameLen,    \* the length of each peer's SSID
    MacLen,     \* the length of a MAC address as text
    MaxLeaked   \* bound: progress timers without a handle

ASSUME PeerAssumption == IsFiniteSet(Peer)
ASSUME NoPeerAssumption == NoPeer \notin Peer
ASSUME NameLenAssumption == NameLen \in [Peer -> Nat \ {0}]
ASSUME MacLenAssumption == MacLen \in Nat \ {0}
ASSUME MaxLeakedAssumption == MaxLeaked \in Nat

VARIABLES
    peer_mac,
    peer_name,    \* whose SSID or MAC was copied into it last, its length, and
                  \* whether the tail of an older, longer name still follows
    discovered,   \* discovered_peers
    popup,        \* type; the name it shows; history: the peer it is about
    pin,          \* pin_number's length; typed: the user typed into this popup
    pb_timer,     \* the handle of the progress timer
    leaked,       \* progress timers that run without a handle
    noti,         \* the number in the notification as a singleton, {} if none
    app,          \* "up", "exiting" after elm_exit, "down"
    asking,       \* daemon: requests of peers that wait for an answer
    linking,      \* daemon: connections being made
    joined,       \* daemon: peers in the group
    auto,         \* daemon: the auto-connection mode other applications set
    missed        \* history: a peer left and the application ignored the event

daemon == <<asking, linking, joined>>
vars == <<peer_mac, peer_name, discovered, popup, pin, pb_timer, leaked, noti, app,
          daemon, auto, missed>>

\* WFD_POP_APRV_* and WFD_POP_PROG_*
Approval == {"pushbutton", "display", "keypad"}
Progress == {"with_pin", "with_keypad"}

NoName == [of |-> NoPeer, text |-> "mac", len |-> 0, whole |-> TRUE]
NoPopup == [type |-> "none", name |-> NoName, peer |-> NoPeer]

Name == [of : Peer \cup {NoPeer}, text : {"ssid", "mac"}, len : Nat, whole : BOOLEAN]

TypeOK ==
    /\ peer_mac \in Peer \cup {NoPeer}
    /\ peer_name \in Name
    /\ discovered \subseteq Peer
    /\ popup \in [type : Approval \cup Progress \cup {"none", "turn_off"},
                  name : Name, peer : Peer \cup {NoPeer}]
    /\ pin \in [len : {"short", "legal"}, typed : BOOLEAN]
    /\ pb_timer \in {"null", "live", "stale"}
    /\ leaked \in 0..MaxLeaked
    /\ noti \subseteq 0..Cardinality(Peer)
    /\ app \in {"up", "exiting", "down"}
    /\ asking \subseteq Peer
    /\ linking \subseteq Peer
    /\ joined \subseteq Peer
    /\ auto \in BOOLEAN
    /\ missed \in BOOLEAN

-----------------------------------------------------------------------------
(* What the callbacks share.                                               *)

\* strncpy(name, text, strlen(text)) copies no terminator: of a longer name the
\* tail remains.
Overwrite(name, p, text, len) ==
    [of |-> p, text |-> text, whole |-> len >= name.len,
     len |-> IF len >= name.len THEN len ELSE name.len]

\* The head of _cb_connection: the peer of the event becomes the current one;
\* its SSID is known only if the last discovery found it.
NamePeer(p) ==
    /\ peer_mac' = p
    /\ peer_name' =
         IF p \in discovered THEN Overwrite(peer_name, p, "ssid", NameLen[p])
         ELSE IF peer_name.len = 0 THEN Overwrite(peer_name, p, "mac", MacLen)
         ELSE peer_name

\* Mutation of DestroyPopup: only the window is hidden.
HideWindow == popup' = popup

\* wfd_destroy_popup, which leaves the progress timer alone.
DestroyPopup == popup' = NoPopup

\* Mutation of PreparePopup: the old progress timer is stopped by the new handle.
PreparePopupThenStop(type, name, p) ==
    /\ popup' = [type |-> type, name |-> name, peer |-> p]
    /\ pb_timer' = IF type = "display" /\ pb_timer = "null" THEN "live" ELSE "null"
    /\ UNCHANGED leaked

\* wfd_prepare_popup.  wfd_draw_pop_type_display starts a progress timer and
\* keeps it in pb_timer whatever was there.
PreparePopup(type, name, p) ==
    /\ popup' = [type |-> type, name |-> name, peer |-> p]
    /\ IF type = "display"
       THEN /\ pb_timer = "live" => leaked < MaxLeaked
            /\ pb_timer' = "live"
            /\ leaked' = IF pb_timer = "live" THEN leaked + 1 ELSE leaked
       ELSE UNCHANGED <<pb_timer, leaked>>

StopProgress == pb_timer' = "null" /\ UNCHANGED leaked
KeepProgress == UNCHANGED <<pb_timer, leaked>>

\* Mutations of AddNotification: the peers are counted before the new one is
\* there; this device is counted too.
AddNotificationFirst(jn) == noti' \in {{}, {0}, {Cardinality(joined)}}
AddNotificationSelf(jn) == noti' \in {{}, {0}, {Cardinality(jn) + 1}}

\* _add_wfd_peers_connected_notification: the old one goes, and the new one comes
\* unless a call fails; it counts 0 if the daemon does not list its peers.
AddNotification(jn) == noti' \in {{}, {0}, {Cardinality(jn)}}

\* _del_wfd_notification may fail.
DeleteNotification == noti' \in {{}, noti}

AutoOff == auto' \in {FALSE, auto}

-----------------------------------------------------------------------------
(* The events of the daemon: _cb_connection.                               *)

ConnectionRsp(p, ok) ==
    /\ app = "up"
    /\ p \in linking \/ (p \in asking /\ ~ok)
    /\ linking' = linking \ {p}
    /\ asking' = asking \ {p}
    /\ joined' = IF ok THEN joined \cup {p} ELSE joined
    /\ NamePeer(p)
    /\ DestroyPopup /\ KeepProgress
    /\ IF ok THEN AddNotification(joined') ELSE UNCHANGED noti
    /\ missed' = (missed /\ ~ok)
    /\ UNCHANGED <<discovered, pin, app, auto>>

\* WIFI_DIRECT_CONNECTION_WPS_REQ, by wps_config; a push button needs no popup,
\* and when the daemon gives no PIN the popup that was up stays.
WpsReq(p) ==
    /\ app = "up"
    /\ p \in linking
    /\ NamePeer(p)
    /\ \/ UNCHANGED <<popup, pin, pb_timer, leaked>>
       \/ /\ pin' = [len |-> "legal", typed |-> FALSE]
          /\ PreparePopup("with_pin", peer_name', p)
       \/ /\ pin' = [pin EXCEPT !.typed = FALSE]
          /\ PreparePopup("with_keypad", peer_name', p)
    /\ UNCHANGED <<discovered, noti, app, daemon, auto, missed>>

\* WIFI_DIRECT_CONNECTION_REQ; for a wps_config it does not know it draws no popup, and
\* the one that was up stays.
ConnectionReq(p) ==
    /\ app = "up"
    /\ p \notin asking \cup linking \cup joined
    /\ NamePeer(p)
    /\ IF auto
       THEN /\ \/ asking' = asking \cup {p} /\ UNCHANGED linking
               \/ linking' = linking \cup {p} /\ UNCHANGED asking
            /\ UNCHANGED <<popup, pin, pb_timer, leaked>>
       ELSE /\ asking' = asking \cup {p}
            /\ UNCHANGED linking
            /\ \/ /\ pin' = [pin EXCEPT !.typed = FALSE]
                  /\ \E type \in Approval : PreparePopup(type, peer_name', p)
               \/ UNCHANGED <<popup, pin, pb_timer, leaked>>
    /\ UNCHANGED <<discovered, noti, app, joined, auto, missed>>

\* WIFI_DIRECT_DISCONNECTION_IND
DisconnectionInd(p) ==
    /\ app = "up"
    /\ p \in joined
    /\ joined' = joined \ {p}
    /\ NamePeer(p)
    /\ DeleteNotification
    /\ AutoOff
    /\ missed' = (missed \/ noti' # {})
    /\ UNCHANGED <<discovered, popup, pin, pb_timer, leaked, app, asking, linking>>

\* WIFI_DIRECT_DISCONNECTION_RSP
DisconnectionRsp(p) ==
    /\ app = "up"
    /\ p \in joined \cup linking \cup asking
    /\ joined' = joined \ {p}
    /\ linking' = linking \ {p}
    /\ asking' = asking \ {p}
    /\ NamePeer(p)
    /\ DeleteNotification
    /\ DestroyPopup /\ KeepProgress
    /\ AutoOff
    /\ missed' = (missed \/ noti' # {})
    /\ UNCHANGED <<discovered, pin, app>>

\* WIFI_DIRECT_DISASSOCIATION_IND and the rest of the default case
Disassociation(p) ==
    /\ app = "up"
    /\ p \in joined
    /\ joined' = joined \ {p}
    /\ NamePeer(p)
    /\ missed' = TRUE
    /\ UNCHANGED <<discovered, popup, pin, pb_timer, leaked, noti, app, asking,
                   linking, auto>>

\* WIFI_DIRECT_CONNECTION_IN_PROGRESS, at the start of an attempt made here
InProgress(p) ==
    /\ app = "up"
    /\ p \notin joined \cup asking
    /\ linking' = linking \cup {p}
    /\ NamePeer(p)
    /\ UNCHANGED <<discovered, popup, pin, pb_timer, leaked, noti, app, asking,
                   joined, auto, missed>>

\* _cb_discover
CbDiscover ==
    /\ app = "up"
    /\ discovered' \in SUBSET Peer
    /\ UNCHANGED <<peer_mac, peer_name, popup, pin, pb_timer, leaked, noti, app,
                   daemon, auto, missed>>

\* _cb_activation: the daemon went down, the application leaves its main loop.
CbDeactivated ==
    /\ app = "up"
    /\ app' = "exiting"
    /\ asking' = {} /\ linking' = {} /\ joined' = {}
    /\ UNCHANGED <<peer_mac, peer_name, discovered, popup, pin, pb_timer, leaked,
                   noti, auto, missed>>

\* _win_del: the window is asked to close, and the daemon goes on as it was.
WinDel ==
    /\ app = "up"
    /\ app' = "exiting"
    /\ UNCHANGED <<peer_mac, peer_name, discovered, popup, pin, pb_timer, leaked,
                   noti, daemon, auto, missed>>

\* _app_terminate; if wifi_direct_deinitialize fails it frees nothing.
AppTerminate ==
    /\ app = "exiting"
    /\ app' = "down"
    /\ DeleteNotification
    /\ \/ DestroyPopup /\ discovered' = {}
       \/ UNCHANGED <<popup, discovered>>
    /\ UNCHANGED <<peer_mac, peer_name, pin, pb_timer, leaked, daemon, auto, missed>>

-----------------------------------------------------------------------------
(* The timers and the user.                                                *)

\* The monitor timer of WfdAutoOff gives up.
TurnOffOffer ==
    /\ app = "up"
    /\ PreparePopup("turn_off", NoName, NoPeer)
    /\ UNCHANGED <<peer_mac, peer_name, discovered, pin, noti, app, daemon, auto,
                   missed>>

\* _fn_pb_timer returns ECORE_CALLBACK_CANCEL at the end of the progress bar.
ProgressEnds ==
    /\ app = "up"
    /\ pb_timer = "live"
    /\ pb_timer' = "stale"
    /\ UNCHANGED <<peer_mac, peer_name, discovered, popup, pin, leaked, noti, app,
                   daemon, auto, missed>>

\* _smart_ime_cb, on each key
TypePin ==
    /\ app = "up"
    /\ popup.type \in {"keypad", "with_keypad"}
    /\ pin' \in [len : {"short", "legal"}, typed : {TRUE}]
    /\ UNCHANGED <<peer_mac, peer_name, discovered, popup, pb_timer, leaked, noti,
                   app, daemon, auto, missed>>

\* wifi_direct_accept_connection(ad->peer_mac)
Accepted ==
    /\ peer_mac \in asking \cup linking
    /\ asking' = asking \ {peer_mac}
    /\ linking' = linking \cup {peer_mac}
    /\ UNCHANGED joined

Accept == Accepted \/ UNCHANGED daemon

\* wifi_direct_disconnect(ad->peer_mac): a refused request is gone; the daemon
\* reports what it took apart by WIFI_DIRECT_DISCONNECTION_RSP.
Disconnect ==
    /\ asking' \in {asking, asking \ {peer_mac}}
    /\ UNCHANGED <<linking, joined>>

\* __popup_resp_cb, by its cases.
PushButtonYes ==
    /\ popup.type = "pushbutton"
    /\ DestroyPopup /\ KeepProgress
    /\ Accept
    /\ UNCHANGED pin

DisplayYes ==
    /\ popup.type = "display"
    /\ \/ /\ DestroyPopup /\ StopProgress
          /\ UNCHANGED <<pin, daemon>>
       \/ /\ DestroyPopup /\ StopProgress
          /\ pin' = [len |-> "legal", typed |-> FALSE]
          /\ UNCHANGED daemon
       \/ /\ popup' = [type |-> "with_pin", name |-> peer_name, peer |-> peer_mac]
          /\ StopProgress
          /\ pin' = [len |-> "legal", typed |-> FALSE]
          /\ Accepted

KeypadOk ==
    /\ popup.type \in {"keypad", "with_keypad"}
    /\ IF pin.len = "legal"
       THEN DestroyPopup /\ KeepProgress /\ UNCHANGED pin /\ Accept
       ELSE /\ PreparePopup(popup.type, peer_name, popup.peer)
            /\ pin' = [pin EXCEPT !.typed = FALSE]
            /\ UNCHANGED daemon

\* The second button of every popup but the next two cases
No ==
    /\ popup.type \in Approval \cup {"with_keypad"}
    /\ DestroyPopup /\ StopProgress
    /\ Disconnect
    /\ UNCHANGED pin

ProgressCancel ==
    /\ popup.type = "with_pin"
    /\ DestroyPopup /\ KeepProgress
    /\ Disconnect
    /\ UNCHANGED pin

\* If the link state cannot be read the popup stays.
TurnOffOk ==
    /\ popup.type = "turn_off"
    /\ popup' \in {NoPopup, popup} /\ KeepProgress
    /\ UNCHANGED <<pin, daemon>>

Respond ==
    /\ app = "up"
    /\ PushButtonYes \/ DisplayYes \/ KeypadOk \/ No \/ ProgressCancel \/ TurnOffOk
    /\ UNCHANGED <<peer_mac, peer_name, discovered, noti, app, auto, missed>>

SetAuto ==
    /\ ~auto
    /\ auto' = TRUE
    /\ UNCHANGED <<peer_mac, peer_name, discovered, popup, pin, pb_timer, leaked,
                   noti, app, daemon, missed>>

-----------------------------------------------------------------------------

Init ==
    /\ peer_mac = NoPeer
    /\ peer_name = NoName
    /\ discovered = {}
    /\ popup = NoPopup
    /\ pin = [len |-> "short", typed |-> FALSE]
    /\ pb_timer = "null"
    /\ leaked = 0
    /\ noti = {}
    /\ app = "up"
    /\ asking = {} /\ linking = {} /\ joined = {}
    /\ auto = FALSE
    /\ missed = FALSE

Next ==
    \/ \E p \in Peer :
         \/ \E ok \in BOOLEAN : ConnectionRsp(p, ok)
         \/ WpsReq(p)
         \/ ConnectionReq(p)
         \/ DisconnectionInd(p)
         \/ DisconnectionRsp(p)
         \/ Disassociation(p)
         \/ InProgress(p)
    \/ CbDiscover
    \/ CbDeactivated
    \/ WinDel
    \/ AppTerminate
    \/ TurnOffOffer
    \/ ProgressEnds
    \/ TypePin
    \/ Respond
    \/ SetAuto

Spec == Init /\ [][Next]_vars

\* The daemon ends every connection it makes, by its own timeout if need be.  A
\* request that waits for the user may wait for ever.
Answers(p) == p \in linking /\ \E ok \in BOOLEAN : ConnectionRsp(p, ok)

FairSpec == Spec /\ \A p \in Peer : WF_vars(Answers(p))

-----------------------------------------------------------------------------

\* A popup never outlives what it is about: an approval is for a request that
\* still waits, a progress popup for a connection still being made.  The user's
\* answer goes to peer_mac, which may be another peer by then, and events of other
\* peers destroy and replace popups; still none is left over.
PopupOpen ==
    app = "up" =>
        /\ popup.type \in Approval => popup.peer \in asking
        /\ popup.type \in Progress => popup.peer \in linking

\* The daemon is told to accept a request only by a press on a popup whose own request,
\* or connection, is still alive: a popup left over from one peer never lets in
\* another one, though the answer goes to peer_mac.
AcceptsLive ==
    [][\A p \in Peer : p \in asking /\ p \in linking'
         => popup.peer \in asking \cup linking]_vars

\* The number in the notification is the number of connected peers, or 0 if the
\* daemon did not list them, as long as no peer left unnoticed.
CountsConnected ==
    app = "up" /\ ~missed => noti \subseteq {0, Cardinality(joined)}

\* While the popup with the progress bar is up its timer has a handle, so that
\* Yes and No stop it.
ProgressHasHandle == popup.type = "display" => pb_timer # "null"

\* "Connecting" does not stay on the screen for good: a progress popup has no timer
\* of its own; if the user does not, only an event of the daemon takes it away, and
\* requests, PIN entries and turn-off popups may replace it meanwhile.
ProgressGoes ==
    popup.type \in Progress ~> popup.type \notin Progress \/ app # "up"

\* A peer whose request waits for the user is not being connected yet.
OneStage == asking \cap linking = {}

\* The invariants together are inductive.
IInv == TypeOK /\ PopupOpen /\ CountsConnected /\ ProgressHasHandle /\ OneStage

\* IDS_WFD_POP_CONNECT_Q asks "Connect with %s?": Yes accepts the peer whose
\* name the popup shows.
AcceptsNamed ==
    [][\A p \in Peer : p \in asking /\ p \in linking'
         /\ popup.type \in Approval /\ popup' # popup
         /\ popup.name.text = "ssid" /\ popup.name.whole
         => popup.name.of = p]_vars

\* IDS_WFD_POP_ENTER_PIN asks "Enter PIN to connect %s.": a connection is made
\* with a PIN the user typed into the popup that asked for it.
EntersPin ==
    [][popup.type \in {"keypad", "with_keypad"} /\ asking # asking'
         /\ linking # linking' /\ popup' = NoPopup
         => pin.typed]_vars
=============================================================================
