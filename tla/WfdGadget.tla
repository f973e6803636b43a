------------------------------- MODULE WfdGadget -------------------------------
(***************************************************************************)
(* The life cycle of the gadget (ug-wifidirect) in its launcher            *)
(* (ugapp-wifidirect).                                                     *)
(*                                                                         *)
(* Every reset of the launcher, that is every launch while it runs, loads  *)
(* another gadget with data of its own.  The process has one client of the *)
(* daemon: who initialises it first has its callbacks, and whoever is      *)
(* destroyed takes it down.  A gadget's data is freed when it is           *)
(* destroyed, and nothing removes the timeouts armed with that data.  What *)
(* keeps all this together is when the main loop ends.                     *)
(*                                                                         *)
(*   life      of each gadget, in the order they are loaded                *)
(*   base      gadgets with a layout, ugd->base                            *)
(*   ready     gadgets whose init_wfd_client succeeded                     *)
(*   client    whose data the callbacks of libwifi-direct are given        *)
(*   wifi_cb   whose data _wifi_state_cb is registered with                *)
(*   sources   timeouts armed with a gadget's data                         *)
(*   popups    warnings of each gadget on the screen, by type              *)
(*   warn_popup   the type of the one ugd->warn_popup points to            *)
(*   loop      the main loop: "running", "quit" by elm_exit, "ended"       *)
(*   failed    history: taking a registration back failed                  *)
(*                                                                         *)
(* What the callbacks of a shown gadget do is in the other modules; here   *)
(* they may arm and warn at any time.  Gadgets have no parent and are      *)
(* destroyed one by one.  No callback runs after the loop was quit but     *)
(* those of a gadget's end.                                                *)
(***************************************************************************)
EXTENDS Naturals

CONSTANTS
    MaxLoads,    \* bound: gadgets loaded in one run of the launcher
    MaxPopups    \* bound: warnings of a type on a gadget's screen

ASSUME MaxLoadsAssumption == MaxLoads \in Nat
ASSUME MaxPopupsAssumption == MaxPopups \in Nat

Ug == 1..MaxLoads
NoUg == 0

VARIABLES life, base, ready, client, wifi_cb, sources, popups, warn_popup, loop, failed

registered == <<client, wifi_cb, failed>>
warnings == <<popups, warn_popup>>
vars == <<life, base, ready, registered, sources, warnings, loop>>

\* The engine's two timeouts and the display timer
Source == {"next", "reset", "display"}
Warning == {"plain", "terminate"}

TypeOK ==
    /\ life \in [Ug -> {"none", "loaded", "shown", "leaving", "gone"}]
    /\ base \subseteq Ug /\ ready \subseteq base
    /\ client \in Ug \cup {NoUg}
    /\ wifi_cb \subseteq Ug
    /\ sources \subseteq Ug \X Source
    /\ popups \in [Ug -> [Warning -> 0..MaxPopups]]
    /\ warn_popup \in [Ug -> Warning \cup {"null"}]
    /\ loop \in {"running", "quit", "ended"}
    /\ failed \in BOOLEAN

Shown(g) == loop = "running" /\ life[g] = "shown"

-----------------------------------------------------------------------------
(* Warnings.                                                               *)

\* Mutation of WarnPopup: the warning that was up is removed first.
WarnPopupInstead(g, type) ==
    /\ popups' = [popups EXCEPT ![g] =
                    [t \in Warning |-> IF t = type THEN 1
                                       ELSE IF t = warn_popup[g] THEN 0 ELSE popups[g][t]]]
    /\ warn_popup' = [warn_popup EXCEPT ![g] = type]

\* wfd_ug_warn_popup
WarnPopup(g, type) ==
    /\ popups[g][type] < MaxPopups
    /\ popups' = [popups EXCEPT ![g][type] = @ + 1]
    /\ warn_popup' = [warn_popup EXCEPT ![g] = type]

\* Mutation of Dismiss: the pointer stays.
DismissKept(g) ==
    /\ popups' = IF warn_popup[g] = "null" THEN popups
                 ELSE [popups EXCEPT ![g][warn_popup[g]] = @ - 1]
    /\ UNCHANGED warn_popup

\* What OK does first: it deletes the popup the pointer is to, which need not be the
\* one that was answered.
Dismiss(g) ==
    /\ popups' = IF warn_popup[g] = "null" THEN popups
                 ELSE [popups EXCEPT ![g][warn_popup[g]] = @ - 1]
    /\ warn_popup' = [warn_popup EXCEPT ![g] = "null"]

\* _wfd_ug_warn_popup_cb
WarnOk(g) ==
    /\ Shown(g)
    /\ popups[g]["plain"] > 0
    /\ Dismiss(g)
    /\ UNCHANGED <<life, base, ready, registered, sources, loop>>

-----------------------------------------------------------------------------
(* The beginning of a gadget.                                              *)

\* _app_reset and load_wifi_direct_ug, up to UG_MODULE_INIT.
AppReset(g) ==
    /\ loop = "running"
    /\ life[g] = "none"
    /\ \A h \in Ug : h < g => life[h] # "none"
    /\ life' = [life EXCEPT ![g] = "loaded"]
    /\ UNCHANGED <<base, ready, registered, sources, warnings, loop>>

\* init_wfd_client: libwifi-direct refuses to be initialised twice.
InitClient(g) ==
    /\ client = NoUg
    /\ client' = g
    /\ ready' = ready \cup {g}

\* on_create without a window or a layout returns NULL, and _ug_layout_cb destroys
\* the gadget.
CreateFails(g) ==
    /\ loop = "running"
    /\ life[g] = "loaded"
    /\ life' = [life EXCEPT ![g] = "leaving"]
    /\ UNCHANGED <<base, ready, registered, sources, warnings, loop>>

\* on_create, _ug_layout_cb and on_start: without the client, or not on arm, the
\* gadget comes up with a warning; without both it has two.
Create(g) ==
    /\ loop = "running"
    /\ life[g] = "loaded"
    /\ life' = [life EXCEPT ![g] = "shown"]
    /\ base' = base \cup {g}
    /\ \/ InitClient(g) /\ UNCHANGED warnings
       \/ InitClient(g) /\ WarnPopup(g, "terminate")
       \/ UNCHANGED <<client, ready>> /\ WarnPopup(g, "terminate")
       \/ /\ UNCHANGED <<client, ready>>
          /\ MaxPopups >= 2
          /\ popups' = [popups EXCEPT ![g]["terminate"] = 2]
          /\ warn_popup' = [warn_popup EXCEPT ![g] = "terminate"]
    /\ UNCHANGED <<wifi_cb, failed, sources, loop>>

-----------------------------------------------------------------------------
(* What the callbacks of a gadget on the screen do here.                   *)

\* The engine's timeouts are armed by _connection_cb and wfd_stop_multi_connect, the
\* display timer by wfd_ug_view_update_peers.
Arm(g, s) ==
    /\ Shown(g)
    /\ sources' = sources \cup {<<g, s>>}
    /\ UNCHANGED <<life, base, ready, registered, warnings, loop>>

\* A timeout ends or is armed again.
Fire(g, s) ==
    /\ loop = "running"
    /\ <<g, s>> \in sources
    /\ sources' = sources \ {<<g, s>>}
    /\ UNCHANGED <<life, base, ready, registered, warnings, loop>>

\* The switch, the lists and the events that fail
Warn(g, type) ==
    /\ Shown(g)
    /\ WarnPopup(g, type)
    /\ UNCHANGED <<life, base, ready, registered, sources, loop>>

\* wfd_wifi_off
WifiOff(g) ==
    /\ Shown(g)
    /\ wifi_cb' = wifi_cb \cup {g}
    /\ UNCHANGED <<life, base, ready, client, failed, sources, warnings, loop>>

\* _activation_cb takes back the callback on the Wi-Fi state, whosever it is.
Activated ==
    /\ loop = "running" /\ client # NoUg
    /\ wifi_cb' = {}
    /\ UNCHANGED <<life, base, ready, client, failed, sources, warnings, loop>>

-----------------------------------------------------------------------------
(* The end.                                                                *)

\* Mutation of UgDestroyCb: the launcher goes on for another gadget.
UgDestroyCbStays(g) ==
    /\ life' = [life EXCEPT ![g] = "leaving"]
    /\ UNCHANGED loop

\* ug_destroy_me calls the launcher's _ug_destroy_cb.
UgDestroyCb(g) ==
    /\ life' = [life EXCEPT ![g] = "leaving"]
    /\ loop' = "quit"

\* _back_btn_cb
BackBtn(g) ==
    /\ Shown(g)
    /\ UgDestroyCb(g)
    /\ UNCHANGED <<base, ready, registered, sources, warnings>>

\* _wfd_ug_terminate_popup_cb
TerminateOk(g) ==
    /\ Shown(g)
    /\ popups[g]["terminate"] > 0
    /\ Dismiss(g)
    /\ UgDestroyCb(g)
    /\ UNCHANGED <<base, ready, registered, sources>>

\* _win_del
WinDel ==
    /\ loop = "running"
    /\ loop' = "quit"
    /\ UNCHANGED <<life, base, ready, registered, sources, warnings>>

\* deinit_wfd_client: what it takes back is the process's, and it may fail.
DeinitClient ==
    \/ client' = NoUg /\ wifi_cb' = {} /\ UNCHANGED failed
    \/ client' \in {client, NoUg} /\ wifi_cb' \in {wifi_cb, {}} /\ failed' = TRUE

\* UG_MODULE_EXIT frees the data; the popups went with the layout.
Free(g) ==
    /\ life' = [life EXCEPT ![g] = "gone"]
    /\ base' = base \ {g} /\ ready' = ready \ {g}
    /\ popups' = [popups EXCEPT ![g] = [t \in Warning |-> 0]]
    /\ warn_popup' = [warn_popup EXCEPT ![g] = "null"]

\* Mutations of OnDestroy: a gadget that never had a layout takes the client down;
\* the client is left alone.
OnDestroyAlways(g) ==
    /\ loop # "ended"
    /\ life[g] = "leaving" \/ (loop = "quit" /\ life[g] = "shown")
    /\ DeinitClient
    /\ Free(g)
    /\ UNCHANGED <<sources, loop>>
OnDestroyRegistered(g) ==
    /\ loop # "ended"
    /\ life[g] = "leaving" \/ (loop = "quit" /\ life[g] = "shown")
    /\ Free(g)
    /\ UNCHANGED <<registered, sources, loop>>

\* on_destroy, which returns at once without a layout, and UG_MODULE_EXIT.  A gadget
\* whose window is closed is destroyed as well, if the process lasts.
OnDestroy(g) ==
    /\ loop # "ended"
    /\ life[g] = "leaving" \/ (loop = "quit" /\ life[g] = "shown")
    /\ IF g \in base THEN DeinitClient ELSE UNCHANGED registered
    /\ Free(g)
    /\ UNCHANGED <<sources, loop>>

\* _app_terminate deletes the window and the process ends.
AppTerminate ==
    /\ loop = "quit"
    /\ loop' = "ended"
    /\ UNCHANGED <<life, base, ready, registered, sources, warnings>>

-----------------------------------------------------------------------------

\* After _app_create
Init ==
    /\ life = [g \in Ug |-> "none"]
    /\ base = {} /\ ready = {}
    /\ client = NoUg /\ wifi_cb = {} /\ failed = FALSE
    /\ sources = {}
    /\ popups = [g \in Ug |-> [t \in Warning |-> 0]]
    /\ warn_popup = [g \in Ug |-> "null"]
    /\ loop = "running"

Next ==
    \/ \E g \in Ug :
         \/ AppReset(g) \/ CreateFails(g) \/ Create(g)
         \/ \E s \in Source : Arm(g, s) \/ Fire(g, s)
         \/ \E type \in Warning : Warn(g, type)
         \/ WarnOk(g) \/ WifiOff(g)
         \/ BackBtn(g) \/ TerminateOk(g) \/ OnDestroy(g)
    \/ Activated \/ WinDel \/ AppTerminate

Spec == Init /\ [][Next]_vars

-----------------------------------------------------------------------------

\* While the main loop runs no timeout is armed with the data of a gadget that is
\* gone.  Nothing removes the timeouts: it holds since the launcher quits with its
\* gadget, and since the gadgets it destroys without quitting never armed one.
SourcesAreAlive ==
    loop = "running" => \A g \in Ug, s \in Source : <<g, s>> \in sources => life[g] # "gone"

\* The callbacks of libwifi-direct and vconf outlive no gadget's data, unless taking
\* them back failed: whose they were, the gadget that goes takes them all back.
NoneLeftBehind ==
    ~failed => \A g \in Ug : g = client \/ g \in wifi_cb => life[g] # "gone"

\* A gadget that initialised the client gets the daemon's events as long as it is on
\* the screen: another gadget may come and go beside it, but takes the client down
\* only when the loop is quit.
KeepsClient == \A g \in ready : Shown(g) => client = g

\* A gadget without the client, to which no event comes, asks the user to end it, as
\* long as it is on the screen and whatever warnings follow and are dismissed.
UnusableAsksToEnd ==
    \A g \in Ug : Shown(g) /\ g \notin ready => popups[g]["terminate"] > 0

\* What makes them inductive: a gadget on the screen has a layout, and one that has it
\* leaves only after the loop was quit; timeouts and registrations are of gadgets that
\* have one; and a plain warning is never the reason why the only other one goes.
Layouts ==
    /\ \A g \in Ug : life[g] = "shown" => g \in base
    /\ \A g \in base : life[g] = "shown" \/ (life[g] = "leaving" /\ loop # "running")

Owners ==
    /\ loop = "running" => ~failed /\ \A g \in Ug, s \in Source : <<g, s>> \in sources => g \in base
    /\ ~failed => client \in base \cup {NoUg} /\ wifi_cb \subseteq base

Pointers ==
    \A g \in Ug :
        /\ warn_popup[g] # "null" => popups[g][warn_popup[g]] > 0
        /\ g \notin base => popups[g]["plain"] = 0
        /\ Shown(g) /\ g \notin ready /\ popups[g]["plain"] > 0 /\ warn_popup[g] = "terminate"
              => popups[g]["terminate"] > 1

IInv ==
    /\ TypeOK /\ Layouts /\ Owners /\ Pointers
    /\ KeepsClient /\ UnusableAsksToEnd
=============================================================================
