# Verification of the Wi-Fi Direct user interface

TLA+ specifications, TLC runs and TLAPS proofs for `ug-wifi-direct`: the Wi-Fi
Direct *gadget* (`src/ug-wifidirect`, a view the settings application loads),
the Wi-Fi Direct *popup application* (`src/popup-wifidirect`, which asks the
user about requests of other devices) and a launcher for the gadget. All of it
is C on one GLib/Ecore main loop: button callbacks, callbacks of the wifi-direct
daemon, vconf callbacks and timeouts interleave in any order, but each runs to
its end. There are no threads and nothing is persisted. What is hard is that the
two programs and the daemon share one radio, that every callback sees copies
of the daemon's state made by an earlier one, and that timers and popups outlive
the situation they were made for.

## Inventory

| Part | State | Operations | Correct when |
|---|---|---|---|
| Multi-connect engine (`wfd_ug_multiconnect_view.c`, `wfd_client.c`) | `multi_connect_mode`, `raw_multi_selected_peers`, two kinds of one-second timeouts, group owner intent | Connect, next, reset, Cancel, daemon answers | asks for one device at a time; a session always ends |
| On/off switch (`wfd_client.c`, `wfd_ug_popup.c`, `wfd_ug_main_view.c`) | `wfd_status`, `wfd_onoff`, `head_text_mode`, popups, scan button, vconf callback, network client | tap, answers to popups, Wi-Fi change, daemon events, closing | the check agrees with the daemon; "Activating" does not stay for good |
| Peer lists (`wfd_ug_main_view.c`, `wfd_client.c`) | `raw_*_peers`, `gl_*_peers`, `display_timer` | copy, status change, redraw, timer | nobody is listed twice or after having left; failed devices go |
| Multi-connect view (`wfd_ug_multiconnect_view.c`) | `multi_conn_dev_list`, its count, genlist items and their check boxes, the Connect button | open, leave, tick, select all, refill, Connect | who is asked was ticked; the screen tells the ticks; Connect is there for whoever ticked |
| Automatic turn-off (`wfd-app-client.c`) | two Ecore timers, two time stamps, two link states | poll, switch, offer | offers after five minutes without activity, and only then |
| Requests and notifications (`wfd-app-client.c`, `wfd-app-popup-view.c`) | `peer_mac`, `peer_name`, `pin_number`, `popup`, `pb_timer`, `noti` | connection events, popup answers, progress timer | a popup is for a request that waits; its answer goes where it says |
| Gadget life cycle and launcher (`wfd_ug.c`, `wfd-ugapp-main.c`) | the gadgets loaded, their data, layouts and warnings; the process's client, vconf callback and timeouts; the main loop | reset, create, start, warn, end, destroy, terminate | no callback is given freed data; a gadget keeps the client it initialised |
| Genlist rendering, about view, utilities | none of interest | | |

Interaction: both programs register the same three callbacks with the daemon
(activation, discovery, connection) and call it to activate, discover, connect,
accept and disconnect. The gadget and the popup application do not talk to each
other; a request is answered by the one and its result seen by both. Inside the
gadget, engine, switch and lists share `wfd_status` and the raw lists; the view
hands the ticked devices to the engine as its selection. The launcher loads a
gadget at each launch, so that several may share one process and one client.

The hazards of this code are listed with their lines in `PROJECT.json`; the
properties below are aimed at them.

## Modules

| Module | Models | Runs | Proofs |
|---|---|---|---|
| `WfdMultiConnect` | multi-connect engine | `multi_connect` | `WfdMultiConnect_proofs` |
| `WfdSession` | what a multi-connect session promises | `multi_connect` (`ImplementsSession`) | `WfdSession_proofs` |
| `WfdSelection` | a session as the peer lists see it | `multi_connect` (`ImplementsSelection`) | `WfdSession_proofs` |
| `WfdMultiSelect` (`MCWfdMultiSelect`) | multi-connect view | `multi_select` | `WfdMultiSelect_proofs` |
| `WfdSwitch` | on/off switch | `switch`, `switch_scan` | `WfdSwitch_proofs` |
| `WfdPeers` (`MCWfdPeers`) | peer lists | `peers` | `WfdPeers_proofs` |
| `WfdGadget` | life cycle of the gadget in its launcher | `gadget` | `WfdGadget_proofs` |
| `WfdAutoOff` | automatic turn-off | `auto_off`, `auto_off_switch`, `auto_off_flap` | `WfdAutoOff_proofs` |
| `WfdPopupApp` (`MCWfdPopupApp`) | requests and notifications | `popup_app`, `popup_accepts_named`, `popup_enters_pin` | `WfdPopupApp_proofs` |

One action is one callback with everything it calls; the daemon, Wi-Fi and other
applications are actions of their own or are folded into the event they send.
State variables keep the names of the C fields. `PROJECT.json` maps each
definition to its lines. Definitions introduced by "Mutation of" are plausible
errors: put in place of the definition after them they make TLC find one
property violated, which shows that the property says something.

### WfdMultiConnect

`sel` is the array of selected peers with their `conn_status`; `timers` is the
queue of `g_timeout_add(1000, ...)` sources, a sequence because all have the
same period and so fire in the order they were added. `pending` is the daemon's
set of unanswered attempts. `ConnectBtn` is `_connect_btn_cb` with
`wfd_start_multi_connect`, by its four outcomes; `NextCb` is
`wfd_multi_connect_next_cb`, `ResetCb` its counterpart for the reset;
`ConnectionRsp`, `DisconnectionEvent` and `ProgressEvent` are the branches of
`_connection_cb`. The button of the main view is modelled up to its text, because
the text decides what it does.

* `OneAtATime`: a session that starts with nothing left over never has two
  selected devices `CONNECTING`, nor one while the timeout for the next is
  queued. A session that begins while an older timeout is queued, or is joined by
  an attempt from elsewhere, does not have this (`clean` is FALSE then): the
  code has no guard against it.
* `CompletedHasReset`: a completed session has the timeout queued that resets it.
* `KeepsDriven`, `SessionEnds`: something always moves a session on, and so it
  ends. The antecedent excludes what strands it in the code: a start whose
  requests all fail, and the daemon going down.
* `EndsByItself`: a session the user leaves alone is neither forgotten nor dropped:
  it ends only when every device was tried, with the intent put back and the reset
  queued. The history variable `undisturbed` is FALSE for a session that begins in
  the second in which an earlier one is about to be reset: that reset forgets the
  new selection, and the code has no guard against it.
* `TriedOnce`: whichever timeouts and answers fall into a session, no device of the
  selection waits again once it was tried.
* `ImplementsSession`, `ImplementsSelection`: the engine implements `WfdSession` and
  `WfdSelection`, below.

Bounds: two devices, and at most two timeouts and attempts outstanding when the
user acts (`MaxLoad`). Two devices are enough for two to be asked at a time, and
the bound lets a second session begin while the first has a timeout or an attempt
left. The safety properties and the refinement are proved for every value of
both; the run with `MaxLoad = 3` passes as well (1,179,540 states) and is left out
for its length.

### WfdSession

The promise of the engine, without timeouts, buttons and popups: the selected
devices that wait, those that were tried, the attempts the daemon owes an answer
to, and the mode. Its steps say that devices are tried in order and once, that a
refused request counts as a try, that a session ends by itself only when nobody
waits, and that a stopped or cancelled session keeps its selection until the
reset or a new start. `WfdMultiConnect!ImplementsSession` maps `waiting` to the
entries in `WAIT_FOR_CONNECT` and `tried` to the other selected ones. It holds
for sessions that are not `clean` as well: a timeout left over may put a session
in progress again, but cannot make it ask anybody twice.

### WfdSelection

The same session by what the peer lists can tell: `multi_connect_mode`, and of a
selected device whether it is connected. It is the interface of two models:
`WfdPeers` builds its steps of the session from these actions, and
`WfdMultiConnect!ImplementsSelection` says that the engine, with its queue, its
popups and its stale timeouts, takes no others. So `NoGhost` and `ListedTwice`
cover every session the engine can have. The first attempt at this refinement
failed, and showed two states the list model had excluded: Connect pressed while a
timeout left over has put a session in progress again, and Connect pressed after a
discovery unticked everybody, which empties the selection and leaves the mode.
Both are in `WfdPeers` now.

### WfdMultiSelect

`dev`, `sel` and `item` are the three fields of `multi_conn_dev_list`, `cnt` its
count. `box` and `allBox` are the check boxes, which exist only while genlist
shows their items; the handlers read the tick from the box and write it to both.
`available` is the main view's `gl_available_peer_cnt`, by which Connect walks the
array; a device of the raw list may be busy, connecting or failed and not be
counted. `OpenView` and `DiscoverCb` fill the array; `CopyPeers` and `Recount` are
the handlers that change the lists behind an open view.

* `ItemsAreFresh`: an open view holds pointers to exactly the items it lists,
  although nothing resets them when it is left.
* `TickedCanConnect`: with a device ticked the Connect button is enabled. The
  converse does not hold in the code: a discovery unticks everybody and leaves
  the button.
* `ScreenTells`: a tick on the screen is a tick in the array. The converse does not
  hold either: a box that scrolls back in is made unticked.
* `AsksOnlyTicked`: Connect asks nobody the user has not ticked, whatever the two
  counts are.
* `AsksSelected`: it asks exactly the ticked devices if the counts agree and the
  raw list was not copied since the view was filled. The code guarantees no more.

External: `elm_genlist_item_index_get` counts from 1, so that the first device,
after the title and the select-all item, is the array's slot 0; a pointer to an
item of a destroyed list is only counted as stale.

Bounds: three interchangeable peers (symmetry; safety only) and three slots, so
that a list may shrink below and grow beyond a ticked slot.

### WfdAutoOff

Time stamps are ages cut off at `TimeOut`; `Tick` is one unit of time and does
not pass while a timer is due, which is how Ecore serves timers on an idle loop (a
callback that blocks the loop would delay the poll; then the offer comes later,
never earlier). A handle is `null`, `live`, or `stale` after its callback
returned `ECORE_CALLBACK_CANCEL`.

* `OneHandle`: exactly one handle is set while the application runs.
* `OffersInTime`: if no link state lasts for less than a period, the offer comes at most
  one period early. `IdleIsQuiet` is what makes it inductive.
* `OffersOnce`: however the offer was answered, it is not made again before an event
  finds somebody connected (`offered`, a history variable, remembers it). What
  prevents it is the stale handle, the same that `auto_off_switch` complains of.
* `auto_off_switch` (violated): "if connected, switch to the transmit timer;
  Otherwise, switch to monitor timer" fails when the handle is stale.
* `auto_off_flap` (violated): "There has been no activity for 5 minutes" fails
  for activity between two polls.

Bounds: `TimeOut = 5`, `Period = 2` instead of 300 s and 5 s, a period that does
not divide the time-out; four link states, one on each side of the two
comparisons the code makes. The proofs are for all values.

### WfdPopupApp

`popup` has the type, the name shown and, as history, the peer it is about;
`peer_mac`, `peer_name` and `pin` are the shared buffers, a name being whose it
is, its length and whether it is whole, since `strncpy` with the source's length
copies no terminator. `Respond` is `__popup_resp_cb` by its cases. A request that comes
with a `wps_config` the application does not know waits without a popup, under
whichever popup is up. The main loop ends with the daemon (`CbDeactivated`) or
with the window (`WinDel`), then with requests and connections left; what the daemon
does after that is not followed.

* `PopupOpen`: an approval popup is for a request that waits, a progress popup
  for a connection being made, although events of other peers destroy and
  replace popups.
* `AcceptsLive`: the daemon is told to accept a request only by a press on a popup
  whose own request or connection is still alive. It is what `PopupOpen` comes to for
  the daemon. That it may be the popup of another device is what
  `popup_accepts_named` shows.
* `CountsConnected`: the number in the notification is that of the connected
  peers, or 0 if the daemon did not list them, unless a peer left by an event the
  application ignores.
* `ProgressHasHandle`: the popup with the progress bar has a handle to stop its
  timer by. It says nothing of a handle that points to no timer any more (`stale`) or
  of timers that have none (`leaked`), both of which the code does leave behind.
* `ProgressGoes`: a popup that says a connection is being made goes, by an event of
  any peer or by being replaced, even if the user leaves it alone: no timer of the
  application takes it away.
* `popup_accepts_named` (violated): "Connect with %s?" accepts another device.
* `popup_enters_pin` (violated): "Enter PIN" accepts a PIN nobody typed.

Bounds: two peers with names of different length, at most one timer without a
handle.

### WfdSwitch

`events` is the queue of daemon events the main loop has not dispatched;
`changed` says that the vconf callback has something to see. A refresh of
`wfd_status` may fail and leave the old copy. `excused` records that the code
dropped a switch without a word; `Fails` lists the places: an unreadable Wi-Fi
state, a failing `wfd_wifi_off`, a Wi-Fi that is on again when the callback
reads the key, and a decision by a stale `wfd_status`.

* `OnOffAgrees`: with no switch under way and none of its events waiting, the
  check shows what the daemon is in, whoever switched it.
* `HeadResolves`, `HeadSettles`: "Activating" and "Deactivating" have something
  coming that replaces them, and are replaced, but for the drops above and a
  question the user leaves open.
* `switch_scan` (violated): "Enable 'scan' button when WFD is off".

Bounds: one waiting daemon event, which the state that follows may overtake. The
safety properties are proved for every bound; with two waiting events the run
passes too, liveness included (3.1 million states), and is left out for its
length.

Deadlock is not checked here: a closed gadget with nothing under way stops.

### WfdPeers

`disc`, `conn` and `sel` are the raw lists; `mode` and `sel` change by the actions of
`WfdSelection` only; `gl` is what `wfd_ug_view_update_peers`
made of them last. `Reports` is what a discovery may say: any part of the peers
around, a member of our group being connected.

* `ListedTwice`: a device is listed as available and connected only if it joined
  during a session and was not copied since.
* `NoGhost`: a device listed as connected is in the group, unless it left by an
  event whose handler did not find it, or by switching off.
* `FailedAreTimed`: while failed devices are shown a timer runs that takes them
  away.

Bounds: two peers, interchangeable (symmetry; the run has safety properties
only), and what a discovery may say of a stranger: free, a client elsewhere, or a
group owner with clients.

Left out: clocks (the display timer may find its 30 s over at any time), the
number of lost display timers, a failing `wifi_direct_get_state`.

### WfdGadget

Every reset of the launcher loads one more gadget with data of its own
(`UG_MODULE_INIT`), while `wifi_direct_initialize`, the vconf callback and the
main loop are the process's. `client` and `wifi_cb` say whose data the callbacks
were registered with, `sources` with whose data timeouts are armed, `popups` what
warnings are on a gadget's screen and `warn_popup` which of them the one pointer
is to: OK removes that one, not the one answered. What callbacks do otherwise is
in the other modules; here a gadget on the screen may arm, warn and register at
any time.

* `SourcesAreAlive`: while the loop runs no timeout has the data of a gadget that
  is gone. `on_destroy` removes none; what saves it is that `_ug_destroy_cb` quits
  the loop, and that a gadget destroyed without it (`on_create` failed) armed none.
* `NoneLeftBehind`: no registered callback outlives the data it is given, unless
  taking it back failed.
* `KeepsClient`: a gadget that initialised the client has it as long as it is on
  the screen, although any other gadget's end takes down whatever client there is.
* `UnusableAsksToEnd`: a gadget that came up without the client shows the warning
  that ends it, whatever warnings are added and answered.

External: libug destroys gadgets without a parent one by one and calls the
launcher's destroy callback for `ug_destroy_me`; after `elm_exit` no callback runs
but those of a gadget's end; libwifi-direct refuses to be initialised twice in a
process and forgets its callbacks when it is deinitialised.

Bounds: two gadgets, two warnings of a type on each screen: enough for one to come
and go beside the other and for the pointer to lose a warning of the same type.
Deadlock is not checked: an ended process stops.

## Fairness

`WfdMultiConnect!FairSpec` assumes that a due timeout is dispatched (GLib) and
that the daemon answers each attempt it took, which its connection timeout does.
`WfdSwitch!FairSpec` assumes that waiting callbacks are dispatched, that the
daemon completes a switch it took, and that Wi-Fi goes off when the network
client's request was accepted. `WfdPopupApp!FairSpec` assumes that the daemon
ends every connection it makes; nothing of a request that waits for the user.
Nothing is assumed of the user, of other
applications or of other devices. All fairness is weak.

## Proofs

Each proof module extends its specification and `TLAPS`. The argument is the
same in all: a lemma that `Next` keeps the types, one step per action; then the
inductive invariant, one lemma per family of actions; then the properties.
Assumptions are only the named ones on the constants.

* `WfdMultiConnect_proofs`: `OneAtATime` is not inductive, because a device can
  be given another status while its attempt is unanswered, and a queued timeout
  can put a session in progress again. `OneActive` counts unanswered attempts on
  selected devices as well. `IInv` is `TypeOK`, `OneActive`, `CompletedHasReset`
  and `ResetIsOwn`, which says that a reset queued in an undisturbed session finds
  it over with nobody waiting; `EndsByItself` rests on that. `KeepsDriven` follows
  from `TypeOK` by cases on the step.
* `WfdSession_proofs`: `Spec => ImplementsSession`. Under the mapping an initial
  state is initial, and by `TypeOK` every callback is a step of the session or a
  stutter; one lemma says that asking a device tries those before it and nobody
  else, and one lemma for each callback that touches a session builds on it.
  `TriedOnce` needs no more than that: it is a property of the session's steps,
  carried to the engine through the mapping. `Spec => ImplementsSelection` has a
  lemma for each kind of step (`StartSelects`, `TurnSelects`, `AnswerSelects`,
  `ReopenSelects`), and two on how a change of one entry looks through the mapping.
* `WfdMultiSelect_proofs`: what the counts can reach is never known, so the
  invariant speaks of all slots of the array: pointers are to the listed items
  also after the view is gone (`PointersAreListed`), each tick in any slot was
  made by the user (`TicksAreMade`), and a fresh list is the raw one
  (`FreshIsRaw`).
* `WfdSwitch_proofs`: `OnOffAgrees` speaks of an empty queue; `LastTells` says of
  any queue that its last switch event tells the daemon's state, and `OnWasTold`
  that a check that is on was set from it. `HeadResolves` is inductive with
  them.
* `WfdPeers_proofs`: `ListedTwice` and `NoGhost` relate what is on the screen to
  the raw lists of some earlier time; `FreeIsUnfetched` and `ConnIsKnown` say how
  far these may be from the group, and a lemma on `UpdatePeers` carries it over.
* `WfdGadget_proofs`: `Layouts` says that a gadget with a layout is on the screen,
  or leaves with the loop quit; `Owners` that timeouts and registrations belong to
  gadgets with a layout; `Pointers` that `warn_popup` refers to a warning there
  is, and that a gadget without the client that shows a plain warning, with the
  pointer to one that ends it, shows two of the latter: an OK takes one and
  leaves one.
* `WfdAutoOff_proofs`: `OfferedIsStale`, that the handle of the timer that made the
  offer stays stale until a switch to the transmit timer, gives `OffersOnce`;
  `OneHandle` from `TypeOK`; `OffersInTime` from
  `IdleIsQuiet`, which relates the age the monitor timer sees (`idle`) to the
  true age of the link state (`quiet`), for a state it has seen and for one it
  has not.
* `WfdPopupApp_proofs`: the conjunction of the checked invariants is inductive;
  the peers must be finitely many for the notification to count them. `AcceptsLive`
  follows from `PopupOpen` once only an answer of the user can move a request on,
  for which the invariant says as well that no peer is asking and connecting at
  once (`OneStage`).

All safety invariants of the passing runs, their action properties and both
refinements are proved. Only model-checked: the liveness properties (`SessionEnds`,
`HeadSettles`, `ProgressGoes`), which are out of TLAPS's reach, and of course the violations.

## Not modelled

* Item rendering, the about view, logging, translations and resources: no state
  that decides anything. Texts matter only where they decide what a button does or
  are quoted by a finding.
* The order and place of the items in the main view and the seconds of its timers;
  the popup application's layout and its progress bar's count.
* Memory errors as such (array bounds, the progress bar of a destroyed popup, reads
  through `global_ugd` after a second gadget failed): they have no next state in
  the program. `WfdGadget` and `WfdMultiSelect` state where pointers may be stale.
* What Elementary does with an item of a destroyed list, and the two toolbar items
  that outlive the multi-connect view.
* Crashes and restarts: nothing is persisted. `WfdSwitch` begins with the daemon in
  any state, as after a restart; the other modules begin with no connection.

## What could follow

* A composition of the view with the peer lists: they meet in `raw_discovered_peers`
  and `gl_available_peer_cnt`, which `WfdMultiSelect` takes from small sets of its
  own. The engine and the peer lists already meet in `WfdSelection`.
* The turn-off popup with the requests it replaces, as one module; today each
  application module has the other's popup as one that comes and goes.
* An abstract specification of the switch as the user sees it.
