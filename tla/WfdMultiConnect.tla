--------------------------- MODULE WfdMultiConnect ---------------------------
(***************************************************************************)
(* The multi-connect engine of the Wi-Fi Direct gadget (ug-wifidirect).    *)
(*                                                                         *)
(* The user ticks several devices in the multi-connect view and presses    *)
(* Connect.  The gadget raises its group owner intent, asks the wifi-direct*)
(* daemon for the first device and, one second after each answer, for the  *)
(* next one; when no device is left it lowers the intent and, one second   *)
(* later, forgets the selection.  Everything runs on one GLib main loop:   *)
(* button callbacks, daemon callbacks and timeouts interleave, but each    *)
(* runs to its end.  One action below is one such callback.                *)
(*                                                                         *)
(* struct ug_data fields keep their names where they are short enough:     *)
(*   mode    multi_connect_mode                                            *)
(*   sel     conn_status of the entries of raw_multi_selected_peers; OUT   *)
(*           for a device that is not an entry.  raw_multi_selected_peer_  *)
(*           cnt is the number of the others, and the entries lie in the   *)
(*           order of the device numbers.                                  *)
(*   timers  the g_timeout_add(1000, ...) sources of the engine.  All have *)
(*           the same period, so they fire in the order they were added.   *)
(*   btn     the multi button of the main view and what pressing it does   *)
(*   view, popup  the view on top, and the action popup over it            *)
(* The lists of discovered and connected peers are left out: they decide   *)
(* here only whether the main view shows the multi button.                 *)
(***************************************************************************)
EXTENDS Naturals, Sequences, FiniteSets

CONSTANTS
    NPeers,   \* devices around; MAX_PEER_NUM in wfd_ug.h
    MaxLoad   \* bound: timeouts queued plus connection attempts unanswered

ASSUME NPeersAssumption == NPeers \in Nat \ {0}
ASSUME MaxLoadAssumption == MaxLoad \in Nat \ {0}

Peer == 1..NPeers

\* wfd_multi_connect_mode_e
NONE == "NONE"
IN_PROGRESS == "IN_PROGRESS"
COMPLETED == "COMPLETED"

\* conn_status_e of a selected peer
OUT == "OUT"
WAIT == "WAIT_FOR_CONNECT"
CONNECTING == "CONNECTING"
CONNECTED == "CONNECTED"
FAILED == "FAILED_TO_CONNECT"
DISCONNECTED == "DISCONNECTED"

Status == {OUT, WAIT, CONNECTING, CONNECTED, FAILED, DISCONNECTED}

\* The link states of wfd_client.h the handlers below tell apart, in its order.
LINK_DEACTIVATED == 0
LINK_ACTIVATED == 3
LINK_CONNECTING == 5
LINK_DISCONNECTING == 6
LINK_CONNECTED == 7

LinkStatus == {LINK_DEACTIVATED, LINK_ACTIVATED, LINK_CONNECTING,
               LINK_DISCONNECTING, LINK_CONNECTED}

VARIABLES
    mode, sel, timers,
    intent,       \* the group owner intent the daemon was last given
    wfd_status,   \* the gadget's copy of the daemon's link state
    btn, view, popup,
    power,        \* the daemon has Wi-Fi Direct switched on
    pending,      \* connection attempts the daemon has not answered
    joined,       \* peers in the daemon's group
    clean,        \* history: see ConnectBtn
    undisturbed   \* history: see ConnectBtn

vars == <<mode, sel, timers, intent, wfd_status, btn, view, popup,
          power, pending, joined, clean, undisturbed>>

daemon == <<power, pending, joined>>
screen == <<btn, view, popup>>
history == <<clean, undisturbed>>

\* "none": no item; "new": the item is there but genlist has not asked for its
\* button yet; "inert": a button without a callback; else the button's text.
Button == {"none", "new", "inert", "MULTI", "CANCEL", "DISCONNECT"}

TypeOK ==
    /\ mode \in {NONE, IN_PROGRESS, COMPLETED}
    /\ sel \in [Peer -> Status]
    /\ timers \in Seq({"next", "reset"})
    /\ intent \in {7, 15}
    /\ wfd_status \in LinkStatus
    /\ btn \in Button
    /\ view \in {"main", "multi"}
    /\ popup \in {"none", "disconnect", "scan_again"}
    /\ power \in BOOLEAN
    /\ pending \subseteq Peer
    /\ joined \subseteq Peer
    /\ clean \in BOOLEAN
    /\ undisturbed \in BOOLEAN

Selected == {p \in Peer : sel[p] # OUT}
Having(status) == {p \in Peer : sel[p] = status}

\* Where timeouts of a kind are queued
Queued(kind) == {i \in 1..Len(timers) : timers[i] = kind}

Load == Len(timers) + Cardinality(pending)

-----------------------------------------------------------------------------
(* The daemon, as far as the gadget sees it.                               *)

\* What wifi_direct_get_state may answer.
LinkStates(pw, pd, jn) ==
    IF ~pw THEN {LINK_DEACTIVATED}
    ELSE IF pd # {} THEN {LINK_CONNECTING}
    ELSE IF jn # {} THEN {LINK_CONNECTED, LINK_DISCONNECTING}
    ELSE {LINK_ACTIVATED}

\* wfd_refresh_wifi_direct_state: on failure the copy keeps its value.
Refresh(old) ==
    wfd_status' \in LinkStates(power', pending', joined') \cup {old}

\* Mutation of SetIntent: a refused intent is taken for 0.
SetIntentZero(i) == intent' \in {i, 0}

\* The daemon takes or refuses a new intent; the gadget does not retry.
SetIntent(i) == intent' \in {i, intent}

-----------------------------------------------------------------------------
(* The multi button of the main view.                                      *)

TitleText(st) ==
    IF st = LINK_CONNECTING THEN "CANCEL"
    ELSE IF st > LINK_CONNECTING THEN "DISCONNECT" ELSE "MULTI"

Retitled(b, st) == IF b \in {"none", "new", "inert"} THEN b ELSE TitleText(st)

\* _change_multi_button_title on the button b
ChangeMultiButtonTitle(b) ==
    /\ IF b = "none" THEN UNCHANGED wfd_status ELSE Refresh(wfd_status)
    /\ btn' = Retitled(b, wfd_status')

\* wfd_ug_view_update_peers deletes the button's item and appends a new one if
\* enough devices are listed.
UpdatePeers(st) == IF st = LINK_DEACTIVATED THEN {"none"} ELSE {"none", "new"}

\* genlist realizes the item: _gl_button_get makes the button.
RealizeButton ==
    /\ btn = "new"
    /\ UNCHANGED daemon
    /\ Refresh(wfd_status)
    /\ btn' = IF mode = COMPLETED THEN "inert"
              ELSE IF wfd_status' = LINK_CONNECTING THEN "CANCEL"
              ELSE IF wfd_status' >= LINK_CONNECTED THEN "DISCONNECT" ELSE "MULTI"
    /\ UNCHANGED <<mode, sel, timers, intent, view, popup, history>>

-----------------------------------------------------------------------------
(* Starting, continuing and stopping a session.                            *)

\* Mutation of ConnectedTo: the loop goes on after the first device it asked.
ConnectedToAll(entries, cands, p) ==
    [q \in Peer |-> IF q \in cands THEN CONNECTING ELSE entries[q]]

\* The loops of wfd_start_multi_connect and wfd_multi_connect_next_cb: devices
\* whose request the daemon refuses are FAILED, the first it takes is CONNECTING.
ConnectedTo(entries, cands, p) ==
    [q \in Peer |-> IF q = p THEN CONNECTING
                    ELSE IF q \in cands /\ q < p THEN FAILED ELSE entries[q]]

AllRefused(entries, cands) ==
    [q \in Peer |-> IF q \in cands THEN FAILED ELSE entries[q]]

\* Mutation of Ask: the daemon's refusal goes unnoticed.
AskUnnoticed(entries, cands, p) ==
    /\ p \in cands
    /\ sel' = ConnectedTo(entries, cands, p)
    /\ pending' \in {pending, pending \cup {p}}

Ask(entries, cands, p) ==
    /\ power
    /\ p \in cands
    /\ sel' = ConnectedTo(entries, cands, p)
    /\ pending' = pending \cup {p}

\* Mutation of Stop: the reset timeout is not added.
StopWithoutReset(queue) ==
    /\ mode' = COMPLETED
    /\ SetIntent(7)
    /\ timers' = queue

\* wfd_stop_multi_connect
Stop(queue) ==
    /\ mode' = COMPLETED
    /\ SetIntent(7)
    /\ timers' = Append(queue, "reset")

Entries(S) == [p \in Peer |-> IF p \in S THEN WAIT ELSE OUT]

\* _connect_btn_cb with the devices S ticked.  clean records that the session
\* starts with no earlier "next" timeout queued and no attempt unanswered;
\* undisturbed, that it starts with no earlier "reset" queued, until the user
\* cancels or stops it.
StartAsks(S) ==
    /\ S # {}
    /\ mode' = IN_PROGRESS
    /\ intent' = 15
    /\ \E p \in S : Ask(Entries(S), S, p)

StartAllRefused(S) ==
    /\ S # {}
    /\ mode' = IN_PROGRESS
    /\ sel' = AllRefused(Entries(S), S)
    /\ intent' \in {7, 15}
    /\ UNCHANGED pending

StartNoIntent(S) ==
    /\ S # {}
    /\ mode' = IN_PROGRESS
    /\ sel' = Entries(S)
    /\ UNCHANGED <<intent, pending>>

StartEmpty(S) ==
    /\ S = {}
    /\ sel' = Entries(S)
    /\ UNCHANGED <<mode, intent, pending>>

ConnectBtn(S) ==
    /\ view = "multi" /\ popup = "none"
    /\ Load < MaxLoad
    /\ UNCHANGED <<power, joined, timers, popup>>
    /\ \/ /\ StartAsks(S)
          /\ \E b \in UpdatePeers(wfd_status) : ChangeMultiButtonTitle(b)
       \/ /\ StartAllRefused(S) \/ StartNoIntent(S) \/ StartEmpty(S)
          /\ ChangeMultiButtonTitle(btn)
    /\ view' = "main"
    /\ clean' = (pending = {} /\ Queued("next") = {})
    /\ undisturbed' = (Queued("reset") = {})

\* wfd_multi_connect_next_cb.  Without an entry it returns -1, which GLib takes
\* for TRUE: the source stays and fires again a second later.
NextAgain ==
    /\ Selected = {}
    /\ timers' = Append(Tail(timers), "next")
    /\ UNCHANGED <<mode, sel, intent, pending>>

\* Mutation of NextAsks: the source is kept after a device was asked.
NextAsksAndStays ==
    /\ Selected # {}
    /\ timers' = Append(Tail(timers), "next")
    /\ mode' = IN_PROGRESS
    /\ \E p \in Having(WAIT) : Ask(sel, Having(WAIT), p)
    /\ UNCHANGED intent

\* Mutation of NextAsks: devices that failed are asked again.
NextAsksFailed ==
    /\ Selected # {}
    /\ timers' = Tail(timers)
    /\ mode' = IN_PROGRESS
    /\ \E p \in Having(WAIT) \cup Having(FAILED) :
          Ask(sel, Having(WAIT) \cup Having(FAILED), p)
    /\ UNCHANGED intent

NextAsks ==
    /\ Selected # {}
    /\ timers' = Tail(timers)
    /\ mode' = IN_PROGRESS
    /\ \E p \in Having(WAIT) : Ask(sel, Having(WAIT), p)
    /\ UNCHANGED intent

\* Mutation of NextStops: it waits for another turn when nobody is left.
NextWaits ==
    /\ Selected # {}
    /\ sel' = AllRefused(sel, Having(WAIT))
    /\ timers' = Append(Tail(timers), "next")
    /\ UNCHANGED <<mode, intent, pending>>

NextStops ==
    /\ Selected # {}
    /\ sel' = AllRefused(sel, Having(WAIT))
    /\ Stop(Tail(timers))
    /\ UNCHANGED pending

NextCb ==
    /\ timers # <<>> /\ Head(timers) = "next"
    /\ NextAgain \/ NextAsks \/ NextStops
    /\ UNCHANGED <<wfd_status, screen, power, joined, history>>

\* Mutation of ResetCb: the selection is kept.
ResetCbModeOnly ==
    /\ timers # <<>> /\ Head(timers) = "reset"
    /\ timers' = Tail(timers)
    /\ mode' = NONE
    /\ btn' \in UpdatePeers(wfd_status)
    /\ UNCHANGED <<sel, intent, wfd_status, view, popup, daemon, history>>

\* __wfd_multi_connect_reset_cb
ResetCb ==
    /\ timers # <<>> /\ Head(timers) = "reset"
    /\ timers' = Tail(timers)
    /\ mode' = NONE
    /\ sel' = [p \in Peer |-> OUT]
    /\ btn' \in UpdatePeers(wfd_status)
    /\ UNCHANGED <<intent, wfd_status, view, popup, daemon, history>>

-----------------------------------------------------------------------------
(* The user.                                                               *)

\* _wifid_create_multibutton_cb
MultiButton ==
    /\ view = "main" /\ popup = "none"
    /\ btn \in {"MULTI", "CANCEL", "DISCONNECT"}
    /\ \/ /\ mode = IN_PROGRESS
          /\ mode' = NONE
          /\ undisturbed' = FALSE
          /\ popup' = IF btn = "CANCEL" THEN "disconnect" ELSE popup
          /\ UNCHANGED view
       \/ /\ mode # IN_PROGRESS /\ btn = "MULTI"
          /\ view' = "multi"
          /\ UNCHANGED <<mode, popup, undisturbed>>
       \/ /\ mode # IN_PROGRESS /\ btn # "MULTI"
          /\ popup' = "disconnect"
          /\ UNCHANGED <<mode, view, undisturbed>>
    /\ UNCHANGED <<sel, timers, intent, wfd_status, btn, daemon, clean>>

\* _multiconnect_view_back_btn_cb
BackBtn ==
    /\ view = "multi" /\ popup = "none"
    /\ view' = "main"
    /\ UNCHANGED <<mode, sel, timers, intent, wfd_status, btn, popup, daemon, history>>

\* _scan_btn_cb, whose branches other than the popup change nothing here but
\* the copy of the link state.
ScanBtn ==
    /\ popup = "none"
    /\ UNCHANGED daemon
    /\ Refresh(wfd_status)
    /\ popup' = IF wfd_status' >= LINK_CONNECTED THEN "scan_again" ELSE popup
    /\ UNCHANGED <<mode, sel, timers, intent, btn, view, history>>

\* _wfd_ug_act_popup_disconnect_all_ok_cb and ..._scan_again_ok_cb.  The daemon
\* answers wifi_direct_disconnect_all later, by one event for each peer.
PopupOk ==
    /\ popup # "none"
    /\ Load < MaxLoad
    /\ IF mode = IN_PROGRESS
       THEN Stop(timers) /\ undisturbed' = FALSE
       ELSE UNCHANGED <<mode, timers, intent, undisturbed>>
    /\ UNCHANGED daemon
    /\ IF popup = "scan_again" THEN Refresh(wfd_status) ELSE UNCHANGED wfd_status
    /\ popup' = "none"
    /\ UNCHANGED <<sel, btn, view, clean>>

PopupCancel ==
    /\ popup # "none"
    /\ popup' = "none"
    /\ UNCHANGED <<mode, sel, timers, intent, wfd_status, btn, view, daemon, history>>

-----------------------------------------------------------------------------
(* Daemon events.  _connection_cb looks the peer up among the selected ones *)
(* while a session runs or has completed, else among the discovered ones,   *)
(* where it may be missing.                                                 *)

NotFound(p) == IF mode = NONE THEN TRUE ELSE p \notin Selected
Found(p) == IF mode = NONE THEN TRUE ELSE p \in Selected

\* Mutation of Answered: a device that failed waits for another turn.
AnsweredAgain(ok) == IF ok THEN CONNECTED ELSE WAIT

\* What an answer makes of a selected device
Answered(ok) == IF ok THEN CONNECTED ELSE FAILED

\* WIFI_DIRECT_CONNECTION_RSP
ConnectionRsp(p, ok) ==
    LET assigned == IF ok THEN LINK_CONNECTED ELSE wfd_status IN
    /\ p \in pending
    /\ pending' = pending \ {p}
    /\ joined' = IF ok THEN joined \cup {p} ELSE joined
    /\ UNCHANGED power
    /\ \/ /\ NotFound(p)
          /\ UNCHANGED <<sel, timers, btn>>
          /\ Refresh(wfd_status)
       \/ /\ Found(p)
          /\ mode = IN_PROGRESS
          /\ sel' = [sel EXCEPT ![p] = Answered(ok)]
          /\ timers' = Append(timers, "next")
          /\ btn' \in UpdatePeers(assigned)
          /\ Refresh(assigned)
       \/ /\ Found(p)
          /\ mode # IN_PROGRESS
          /\ sel' = IF mode = COMPLETED THEN [sel EXCEPT ![p] = Answered(ok)] ELSE sel
          /\ btn' \in UpdatePeers(assigned)
          /\ Refresh(assigned)
          /\ UNCHANGED timers
    /\ UNCHANGED <<mode, intent, view, popup, history>>

\* WIFI_DIRECT_DISCONNECTION_RSP, _IND and DISASSOCIATION_IND
DisconnectionEvent(p, ok) ==
    /\ p \in joined
    /\ joined' = IF ok THEN joined \ {p} ELSE joined
    /\ UNCHANGED <<power, pending>>
    /\ \/ /\ NotFound(p)
          /\ Refresh(wfd_status)
          /\ UNCHANGED <<sel, btn>>
       \/ /\ Found(p) /\ mode = IN_PROGRESS
          /\ btn' \in UpdatePeers(wfd_status)
          /\ Refresh(wfd_status)
          /\ UNCHANGED sel
       \/ /\ Found(p) /\ mode # IN_PROGRESS /\ ok
          /\ sel' = IF mode = COMPLETED THEN [sel EXCEPT ![p] = DISCONNECTED] ELSE sel
          /\ btn' \in UpdatePeers(LINK_ACTIVATED)
          /\ Refresh(LINK_ACTIVATED)
       \/ /\ Found(p) /\ mode # IN_PROGRESS /\ ~ok
          /\ UNCHANGED <<sel, btn, wfd_status>>
    /\ UNCHANGED <<mode, timers, intent, view, popup, history>>

\* WIFI_DIRECT_CONNECTION_IN_PROGRESS, and the request events (WPS_)REQ, which
\* the gadget leaves to the popup application.
ProgressEvent(p, inProgress) ==
    /\ inProgress => p \in pending
    /\ UNCHANGED daemon
    /\ Refresh(wfd_status)
    /\ \/ NotFound(p) /\ UNCHANGED <<sel, btn>>
       \/ /\ Found(p) /\ mode = IN_PROGRESS
          /\ btn' \in UpdatePeers(wfd_status)
          /\ UNCHANGED sel
       \/ /\ Found(p) /\ mode # IN_PROGRESS
          /\ sel' = IF inProgress /\ mode = COMPLETED
                    THEN [sel EXCEPT ![p] = CONNECTING] ELSE sel
          /\ btn' = Retitled(btn, wfd_status')
    /\ UNCHANGED <<mode, timers, intent, view, popup, history>>

\* An attempt the engine did not make: a tap on one device in the main view, or
\* a request from the peer itself, which the popup application accepted.
OtherConnect(p) ==
    /\ power
    /\ p \notin pending \cup joined
    /\ Load < MaxLoad
    /\ pending' = pending \cup {p}
    /\ clean' = FALSE
    /\ UNCHANGED <<mode, sel, timers, intent, wfd_status, screen, power, joined,
                   undisturbed>>

\* _discover_cb
DiscoverCb ==
    /\ power
    /\ btn' \in UpdatePeers(wfd_status)
    /\ UNCHANGED <<mode, sel, timers, intent, wfd_status, view, popup, daemon, history>>

\* _activation_cb for a daemon that went down: it takes its group and its
\* attempts with it and answers none of them.
Deactivated ==
    /\ power
    /\ power' = FALSE /\ pending' = {} /\ joined' = {}
    /\ Refresh(wfd_status)
    /\ btn' \in UpdatePeers(wfd_status')
    /\ UNCHANGED <<mode, sel, timers, intent, view, popup, history>>

\* _activation_cb for a daemon that came up; it takes an action popup away.
Activated ==
    /\ ~power
    /\ power' = TRUE
    /\ UNCHANGED <<pending, joined>>
    /\ Refresh(wfd_status)
    /\ popup' = "none"
    /\ UNCHANGED <<mode, sel, timers, intent, btn, view, history>>

-----------------------------------------------------------------------------

\* on_create with a switched-on daemon and nobody connected.
Init ==
    /\ mode = NONE
    /\ sel = [p \in Peer |-> OUT]
    /\ timers = <<>>
    /\ intent = 7
    /\ wfd_status = LINK_ACTIVATED
    /\ btn \in {"none", "new"}
    /\ view = "main"
    /\ popup = "none"
    /\ power = TRUE
    /\ pending = {}
    /\ joined = {}
    /\ clean = TRUE
    /\ undisturbed = TRUE

Timer == NextCb \/ ResetCb
Answer == \E p \in Peer, ok \in BOOLEAN : ConnectionRsp(p, ok)

User ==
    \/ \E S \in SUBSET Peer : ConnectBtn(S)
    \/ MultiButton
    \/ BackBtn
    \/ ScanBtn
    \/ PopupOk
    \/ PopupCancel

Daemon ==
    \/ Answer
    \/ \E p \in Peer, ok \in BOOLEAN : DisconnectionEvent(p, ok)
    \/ \E p \in Peer, inProgress \in BOOLEAN : ProgressEvent(p, inProgress)
    \/ \E p \in Peer : OtherConnect(p)
    \/ DiscoverCb
    \/ Deactivated
    \/ Activated

Next == RealizeButton \/ Timer \/ User \/ Daemon

Spec == Init /\ [][Next]_vars

\* GLib dispatches a due timeout, and the daemon answers every connection
\* attempt it took unless it goes down.  The user owes nothing.
FairSpec ==
    /\ Spec
    /\ WF_vars(Timer)
    /\ \A p \in Peer : WF_vars(\E ok \in BOOLEAN : ConnectionRsp(p, ok))

-----------------------------------------------------------------------------

\* Devices are asked one at a time: a session that starts with nothing left over
\* from the one before never has two selected devices CONNECTING, nor one
\* CONNECTING while the timeout that asks for the next is queued, unless someone
\* else's attempt comes between (wfd_start_multi_connect breaks out of its loop
\* at the first device, _connection_cb queues the next one at its answer).
OneAtATime ==
    clean =>
        /\ \A p, q \in Having(CONNECTING) : p = q
        /\ \A i, j \in Queued("next") : i = j
        /\ Having(CONNECTING) # {} => Queued("next") = {}

\* A completed session is always about to be forgotten: nothing loses the
\* timeout of wfd_stop_multi_connect that puts the mode back to NONE.
CompletedHasReset == mode = COMPLETED => Queued("reset") # {}

\* The selected devices the daemon may still answer for, whatever their status.
Active == Having(CONNECTING) \cup (pending \cap Selected)

\* What makes OneAtATime inductive: a device that was disconnected or cancelled
\* while its attempt was unanswered counts too, since the answer can come back
\* into a session that a queued timeout has put in progress again.
OneActive ==
    clean =>
        /\ \A p, q \in Active : p = q
        /\ \A i, j \in Queued("next") : i = j
        /\ Active # {} => Queued("next") = {}

\* What EndsByItself rests on: a reset that is queued in an undisturbed session is
\* its own, queued when nobody was left to ask.
ResetIsOwn ==
    undisturbed /\ Queued("reset") # {} => mode # IN_PROGRESS /\ Having(WAIT) = {}

IInv == TypeOK /\ OneActive /\ CompletedHasReset /\ ResetIsOwn

\* A session that nobody cancels or stops, and that does not begin in the second in
\* which an earlier one is about to be forgotten, is neither forgotten nor dropped:
\* it leaves IN_PROGRESS only through wfd_stop_multi_connect, which puts the intent
\* back and queues the reset, with every selected device tried.
EndsByItself ==
    [][mode = IN_PROGRESS /\ mode' # IN_PROGRESS /\ undisturbed /\ undisturbed'
         => mode' = COMPLETED /\ Queued("reset")' # {} /\ Having(WAIT)' = {}]_vars

\* A device of a selection is tried once: whichever timeouts and answers fall into
\* the session, only a new start lets it wait again, and until then or the reset it
\* stays among those that were tried.
Tried == Selected \ Having(WAIT)

TriedOnce ==
    [][view' = view => /\ Having(WAIT)' \subseteq Having(WAIT)
                       /\ Tried \subseteq Tried' \/ Selected' = {}]_vars

\* Something will still move the session on: a queued timeout that finds what it
\* works on, or the answer to the attempt on a selected device.
Driven ==
    \/ Queued("reset") # {}
    \/ Queued("next") # {} /\ Selected # {}
    \/ Having(CONNECTING) \cap pending # {}

\* A session in progress that something drives keeps being driven for as long
\* as it stays in progress, whatever the user and the other devices do; only
\* the daemon going down, or a new start whose requests all fail, strands it.
KeepsDriven ==
    [][mode = IN_PROGRESS /\ Driven /\ mode' = IN_PROGRESS /\ power'
          /\ view' = view => Driven']_vars

\* ... and so it comes to an end: a driven session leaves IN_PROGRESS, or is
\* stranded as above (wfd_multi_connect_next_cb runs out of waiting devices).
SessionEnds ==
    [](mode = IN_PROGRESS /\ Driven
         => <>(mode # IN_PROGRESS \/ ~Driven))

\* The engine implements the abstract session, whatever interleaves: stale timeouts
\* included, every device of a selection is tried once and in order, a session ends
\* by itself only when nobody waits, and only a new start or the reset drops it.
Session == INSTANCE WfdSession WITH
    phase <- mode,
    waiting <- Having(WAIT),
    tried <- Tried,
    unanswered <- pending

ImplementsSession == Session!Spec

\* What WfdPeers lets happen to the session is all that happens to it: the engine,
\* with its queue, its popups and its stale timeouts, implements the interface,
\* which sees of an entry's status no more than this.
Seen(status) == IF status \in {OUT, CONNECTED} THEN status ELSE "OPEN"

Selection == INSTANCE WfdSelection WITH sel <- [p \in Peer |-> Seen(sel[p])]

ImplementsSelection == Selection!Spec
=============================================================================
