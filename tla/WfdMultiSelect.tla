---------------------------- MODULE WfdMultiSelect ----------------------------
(***************************************************************************)
(* The multi-connect view of the gadget (ug-wifidirect): the list in which *)
(* the user ticks the devices to connect to.                               *)
(*                                                                         *)
(* The view has its own array, multi_conn_dev_list, filled from the raw    *)
(* list of discovered peers when the view is opened and at the end of a    *)
(* discovery.  Other events copy the raw list anew and recount the main    *)
(* view but leave this array as it was.  A device's tick is kept three     *)
(* times: in the array, in the check box genlist made for the item, if it  *)
(* has, and, summed up, in the select-all item and the Connect button.     *)
(* Connect walks the array as far as the main view counts.                 *)
(*                                                                         *)
(*   raw        raw_discovered_peers, without those that are is_connected  *)
(*   available  gl_available_peer_cnt: those of them the main view found   *)
(*              free, neither busy nor connecting nor failed               *)
(*   open       multiconn_view_genlist is set                              *)
(*   cnt        gl_available_dev_cnt_at_multiconn_view                     *)
(*   dev, sel, item   peer, dev_sel_state and peer.gl_item of the slots of *)
(*              multi_conn_dev_list                                        *)
(*   all        mcview_select_all_item                                     *)
(*   box, allBox  the check boxes on the screen; genlist makes an item's   *)
(*              box when it scrolls in and destroys it when it scrolls out *)
(*   connect    the Connect button is enabled                              *)
(*                                                                         *)
(* A pointer to an item of a list that is gone is "stale"; Elementary      *)
(* refuses to delete such an item when it notices, and if it does not the  *)
(* harm is done elsewhere than here.                                       *)
(***************************************************************************)
EXTENDS Naturals, Sequences

CONSTANTS
    Peer,
    MaxPeers,    \* MAX_PEER_NUM, the slots of multi_conn_dev_list
    NoPeer       \* what a slot never used holds

ASSUME MaxPeersAssumption == MaxPeers \in Nat
ASSUME NoPeerAssumption == NoPeer \notin Peer

Slot == 1..MaxPeers

VARIABLES
    raw, available,
    open, cnt, dev, sel, item, all,
    box, allBox, connect,
    ticked,   \* history: the devices the user has ticked so far
    fresh     \* history: the view was filled from this raw list

lists == <<raw, available>>
array == <<cnt, dev, sel>>
items == <<item, all>>
screen == <<box, allBox, connect>>
vars == <<lists, open, array, items, screen, ticked, fresh>>

Pointer == {"null", "live", "stale"}
Box == {"none", "off", "on"}

TypeOK ==
    /\ raw \in Seq(Peer) /\ Len(raw) <= MaxPeers
    /\ available \in 0..Len(raw)
    /\ open \in BOOLEAN
    /\ cnt \in 0..MaxPeers
    /\ dev \in [Slot -> Peer \cup {NoPeer}]
    /\ sel \in [Slot -> BOOLEAN]
    /\ item \in [Slot -> Pointer] /\ all \in Pointer
    /\ box \in [Slot -> Box] /\ allBox \in Box
    /\ connect \in BOOLEAN
    /\ ticked \subseteq Peer
    /\ fresh \in BOOLEAN

Listed == 1..cnt

-----------------------------------------------------------------------------
(* The raw list and the main view.                                         *)

\* What the daemon may list: each peer once; nobody if it fails.
Reports ==
    {r \in UNION {[1..n -> Peer] : n \in 0..MaxPeers} :
        \A i, j \in DOMAIN r : r[i] = r[j] => i = j}

\* Mutation of UpdatePeers: a device is counted twice.
UpdatePeersTwice(r) == available' \in 0..(2 * Len(r))

\* wfd_ug_view_update_peers counts those it finds free now, nobody if the gadget
\* believes Wi-Fi Direct to be off.
UpdatePeers(r) == available' \in 0..Len(r)

\* wfd_ug_get_discovered_peers and the update of the main view
GetDiscovered == raw' \in Reports /\ UpdatePeers(raw')

-----------------------------------------------------------------------------
(* Filling the view.                                                       *)

\* Mutation of Freed: the items stay.
FreedNone == item

\* _wfd_free_multiconnect_device, of an open view: what becomes of the pointers
Freed == [i \in Slot |-> IF i \in Listed THEN "null" ELSE item[i]]

\* Mutation of Unticked: a slot keeps the tick of the device it had before.
UntickedNone(r) == sel

\* The ticks once r fills the first slots
Unticked(r) == [i \in Slot |-> IF i <= Len(r) THEN FALSE ELSE sel[i]]

\* _wfd_update_multiconnect_device with the raw list r, which frees the old items
\* first.  Slots beyond the new list keep their device and its tick.
Fill(r) ==
    /\ cnt' = Len(r)
    /\ dev' = [i \in Slot |-> IF i <= Len(r) THEN r[i] ELSE dev[i]]
    /\ sel' = Unticked(r)
    /\ item' = [i \in Slot |-> IF i <= Len(r) THEN "live" ELSE Freed[i]]
    /\ all' = IF r = <<>> THEN "null" ELSE "live"
    /\ box' = [i \in Slot |-> "none"] /\ allBox' = "none"
    /\ fresh' = TRUE

\* _wifid_create_multiconnect_view
OpenView ==
    /\ ~open
    /\ open' = TRUE
    /\ Fill(raw)
    /\ connect' = FALSE
    /\ UNCHANGED <<lists, ticked>>

\* elm_naviframe_item_pop destroys the genlist and all its items; the pointers to
\* them stay.
PopView ==
    /\ open' = FALSE
    /\ item' = [i \in Slot |-> IF item[i] = "live" THEN "stale" ELSE item[i]]
    /\ all' = IF all = "live" THEN "stale" ELSE all
    /\ box' = [i \in Slot |-> "none"] /\ allBox' = "none"
    /\ connect' = FALSE

\* _multiconnect_view_back_btn_cb
BackBtn ==
    /\ open
    /\ PopView
    /\ UNCHANGED <<lists, array, ticked, fresh>>

-----------------------------------------------------------------------------
(* Ticking.                                                                *)

\* Mutation of ToAsk: the last counted slot is left out.
ToAskShort == {i \in Slot : i < available /\ sel[i]}

\* The slots Connect would ask: its loop is bounded by the main view's count.
ToAsk == {i \in Slot : i <= available /\ sel[i]}

\* _connect_btn_cb: the devices of ToAsk become the selection of a session, which
\* WfdMultiConnect takes from here; only a start that succeeds updates the main view.
ConnectBtn ==
    /\ open /\ connect
    /\ PopView
    /\ UpdatePeers(raw) \/ UNCHANGED available
    /\ UNCHANGED <<raw, array, ticked, fresh>>

Toggled(b) == IF b = "on" THEN "off" ELSE "on"

\* elm_check_state_set: without a box there is nothing to set.
Set(b, on) == IF b = "none" THEN "none" ELSE IF on THEN "on" ELSE "off"

\* Mutation of Sums: the button follows the last device of the list.
SumsLast(s) ==
    /\ allBox' = Set(allBox, \A i \in Listed : s[i])
    /\ connect' = s[cnt]

\* Mutation of Sums: the select-all box is only ever switched on.
SumsOnly(s) ==
    /\ allBox' = IF \A i \in Listed : s[i] THEN Set(allBox, TRUE) ELSE allBox
    /\ connect' = \E i \in Listed : s[i]

\* The loop of _wfd_gl_multi_sel_cb over the list
Sums(s) ==
    /\ allBox' = Set(allBox, \A i \in Listed : s[i])
    /\ connect' = \E i \in Listed : s[i]

\* _wfd_gl_multi_sel_cb: the tick is taken from the box and not from the array.  (A
\* click on the box itself is undone by _wfd_check_clicked_cb.)
TapDevice(i) ==
    /\ open /\ i \in Listed /\ box[i] # "none"
    /\ box' = [box EXCEPT ![i] = Toggled(box[i])]
    /\ sel' = [sel EXCEPT ![i] = (box'[i] = "on")]
    /\ Sums(sel')
    /\ ticked' = IF sel'[i] THEN ticked \cup {dev[i]} ELSE ticked
    /\ UNCHANGED <<lists, open, cnt, dev, items, fresh>>

\* _wfd_gl_sel_cb.  The boxes that are not made yet will be made "off".
SelectAll ==
    /\ open /\ all = "live" /\ allBox # "none"
    /\ allBox' = Toggled(allBox)
    /\ LET on == allBox' = "on" IN
       /\ sel' = [i \in Slot |-> IF i \in Listed THEN on ELSE sel[i]]
       /\ box' = [i \in Slot |-> IF i \in Listed THEN Set(box[i], on) ELSE box[i]]
       /\ connect' = on
       /\ ticked' = IF on THEN ticked \cup {dev[i] : i \in Listed} ELSE ticked
    /\ UNCHANGED <<lists, open, cnt, dev, items, fresh>>

\* Genlist realizes an item, _wfd_gl_device_icon_get or _wfd_gl_select_all_icon_get,
\* whose box is always "off", or takes one off the screen.
Scroll ==
    /\ open
    /\ \/ /\ \E i \in Listed :
               box' = [box EXCEPT ![i] = IF box[i] = "none" THEN "off" ELSE "none"]
          /\ UNCHANGED allBox
       \/ /\ all = "live"
          /\ allBox' = IF allBox = "none" THEN "off" ELSE "none"
          /\ UNCHANGED box
    /\ UNCHANGED <<lists, open, array, items, connect, ticked, fresh>>

-----------------------------------------------------------------------------
(* Events of the daemon and timers.                                        *)

\* _discover_cb: it fills an open view too, and leaves the Connect button alone.
DiscoverCb ==
    /\ GetDiscovered
    /\ \/ open /\ Fill(raw')
       \/ /\ ~open
          /\ fresh' = FALSE
          /\ UNCHANGED <<array, items, box, allBox>>
    /\ UNCHANGED <<open, connect, ticked>>

\* _connection_cb of a disconnection, and _connect_failed_peers_display_cb
CopyPeers ==
    /\ GetDiscovered
    /\ fresh' = FALSE
    /\ UNCHANGED <<open, array, items, screen, ticked>>

\* The handlers that update the main view from the raw list there is: the other
\* events of _connection_cb, _activation_cb and __wfd_multi_connect_reset_cb
Recount ==
    /\ UpdatePeers(raw)
    /\ UNCHANGED <<raw, open, array, items, screen, ticked, fresh>>

-----------------------------------------------------------------------------

\* UG_MODULE_INIT clears the gadget's data.
Init ==
    /\ raw = <<>> /\ available = 0
    /\ open = FALSE
    /\ cnt = 0
    /\ dev = [i \in Slot |-> NoPeer] /\ sel = [i \in Slot |-> FALSE]
    /\ item = [i \in Slot |-> "null"] /\ all = "null"
    /\ box = [i \in Slot |-> "none"] /\ allBox = "none"
    /\ connect = FALSE
    /\ ticked = {}
    /\ fresh = FALSE

Next ==
    \/ OpenView \/ BackBtn \/ ConnectBtn
    \/ \E i \in Slot : TapDevice(i)
    \/ SelectAll \/ Scroll
    \/ DiscoverCb \/ CopyPeers \/ Recount

Spec == Init /\ [][Next]_vars

-----------------------------------------------------------------------------

\* The gadget never holds a pointer to an item of a view that is gone while the view
\* is open: nothing resets the pointers when the view is left, and only the free at
\* the next opening, up to the old count, keeps them from being tapped or updated.
ItemsAreFresh ==
    open => \A i \in Slot : item[i] = IF i \in Listed THEN "live" ELSE "null"

\* Whoever ticked a device can press Connect, however the ticks came and went
\* (the button is set at every tap, and at a new list not at all).
TickedCanConnect == open /\ (\E i \in Listed : sel[i]) => connect

\* The screen never shows a tick the array does not have, in a device's box or in
\* the select-all box, whatever scrolls and whatever the daemon tells.
ScreenTells ==
    /\ \A i \in Listed : box[i] = "on" => sel[i]
    /\ allBox = "on" => \A i \in Listed : sel[i]

\* Connect asks no device the user has not ticked at some time: a slot's tick goes
\* when another device moves in, and the slots beyond the list, which Connect reaches
\* when the main view counts more, hold devices with their own ticks.
AsksOnlyTicked == \A i \in ToAsk : dev[i] \in ticked

\* ... and exactly those ticked on the screen, if the main view found all of the raw
\* list free and the list was not copied since the view was filled.  Neither can be
\* left out: _connect_btn_cb counts with the main view's count.
AsksSelected ==
    open /\ fresh /\ available = Len(raw) =>
        /\ ToAsk = {i \in Listed : sel[i]}
        /\ \A i \in Listed : dev[i] = raw[i]

\* What makes them inductive: the slots listed hold devices, the pointers are to
\* exactly the items listed, also after the view is gone, every tick in the array
\* is one the user made, and a fresh list is the raw one.
ListedAreDevices == \A i \in Listed : dev[i] \in Peer

PointersAreListed ==
    /\ \A i \in Slot :
         item[i] = IF i \notin Listed THEN "null" ELSE IF open THEN "live" ELSE "stale"
    /\ all = "live" => open

TicksAreMade == \A i \in Slot : sel[i] => dev[i] \in ticked

FreshIsRaw ==
    open /\ fresh => cnt = Len(raw) /\ \A i \in Listed : dev[i] = raw[i]

IInv ==
    /\ TypeOK /\ ListedAreDevices /\ PointersAreListed
    /\ TicksAreMade /\ FreshIsRaw
    /\ TickedCanConnect /\ ScreenTells
=============================================================================
