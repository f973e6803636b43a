-------------------------------- MODULE WfdPeers --------------------------------
(***************************************************************************)
(* The peers in the main view of the gadget (ug-wifidirect).               *)
(*                                                                         *)
(* The gadget keeps raw lists, copied from the daemon when an event makes  *)
(* it ask, and from them wfd_ug_view_update_peers fills the lists on the   *)
(* screen.  The raw lists are not copied together, and the handlers change *)
(* the connection status in them by themselves, so they drift apart.       *)
(*                                                                         *)
(*   disc    raw_discovered_peers: a function on the peers in the list     *)
(*   conn    raw_connected_peers                                           *)
(*   sel     conn_status in raw_multi_selected_peers, as in WfdMultiConnect*)
(*   gl      the lists on the screen, gl_*_peers                           *)
(*   timed   a display timer is running.  wfd_ug_view_free_peers takes the *)
(*           pointer to the timer for a genlist item: it forgets the timer *)
(*           and does not stop it, so there may be several.                *)
(* Arrays have room for all peers: the daemon lists at most MAX_PEER_NUM.  *)
(* Time is left open: a display timer may find its 30 s over at any moment *)
(* and the timeouts of the multi-connect engine, which WfdMultiConnect     *)
(* counts, are always due: what may happen to mode and sel is the          *)
(* interface WfdSelection, which WfdMultiConnect implements.  Values that  *)
(* no list tells apart are one: an entry that is connecting or connected   *)
(* is ENGAGED, a selected one that is not connected is OPEN.               *)
(* wifi_direct_get_state works: WfdSwitch has a copy of the link state     *)
(* that is out of date.                                                    *)
(***************************************************************************)
EXTENDS Naturals, FiniteSets

CONSTANTS
    Peer,
    Strangers   \* bound: what a discovery may say of a peer outside our group

ASSUME PeerAssumption == IsFiniteSet(Peer)

NONE == "NONE"
IN_PROGRESS == "IN_PROGRESS"
COMPLETED == "COMPLETED"

Status == {"DISCONNECTED", "ENGAGED", "FAILED"}   \* conn_status
\* is_group_owner; if not, is_connected; neither
Kind == {"owner", "client", "alone"}
Info == [kind : Kind, status : Status]

\* _wfd_discoverd_peer_cb: connected devices are ENGAGED; a group owner may have no
\* clients.
Entry(kind, connected) ==
    [kind |-> kind, status |-> IF connected THEN "ENGAGED" ELSE "DISCONNECTED"]
Entries == {Entry("alone", FALSE), Entry("client", TRUE)} \cup
           {Entry("owner", connected) : connected \in BOOLEAN}

ASSUME StrangersAssumption == Strangers \subseteq Entries

VARIABLES
    disc, conn, mode, sel,
    gl,          \* the lists on the screen
    timed,
    power, group, role,  \* the daemon: on, its group, whether it owns it
    unfetched,   \* history: joined, its entry in disc not marked nor copied since
    missed       \* history: left, conn not copied since

raw == <<disc, conn>>
session == <<mode, sel>>
screen == <<gl, timed>>
daemon == <<power, group, role>>
history == <<unfetched, missed>>
vars == <<raw, session, screen, daemon, history>>

Lists == [connected : SUBSET Peer, available : SUBSET Peer, busy : SUBSET Peer,
          failed : SUBSET Peer, multi : SUBSET Peer]
NoLists == [connected |-> {}, available |-> {}, busy |-> {}, failed |-> {},
            multi |-> {}]

TypeOK ==
    /\ DOMAIN disc \subseteq Peer /\ \A p \in DOMAIN disc : disc[p] \in Info
    /\ conn \subseteq Peer
    /\ mode \in {NONE, IN_PROGRESS, COMPLETED}
    /\ sel \in [Peer -> {"OUT", "OPEN", "CONNECTED"}]
    /\ gl \in Lists /\ (gl.connected = {} \/ gl.busy = {})
    /\ timed \in BOOLEAN
    /\ power \in BOOLEAN /\ group \subseteq Peer /\ role \in BOOLEAN
    /\ unfetched \subseteq Peer /\ missed \subseteq Peer

\* The steps of the multi-connect session
Session == INSTANCE WfdSelection

-----------------------------------------------------------------------------
(* wfd_ug_view_update_peers                                                *)

\* __wfd_is_device_busy of an entry: o is I_am_group_owner, cn the connected peers
Busy(o, dc, cn, p) ==
    /\ p \notin cn
    /\ dc[p].kind \in (IF o THEN {"owner", "client"} ELSE {"client"})

BusyIn(o, dc, cn) == {p \in DOMAIN dc : Busy(o, dc, cn, p)}

\* The entries that are not busy and have this status
FreeIn(o, dc, cn, status) ==
    {p \in DOMAIN dc \ BusyIn(o, dc, cn) : dc[p].status = status}

\* Mutation of Shown: busy devices are shown to a connected user too.
ShownWithBusy(o, dc, cn, md, sl) ==
    IF md = NONE
    THEN [connected |-> cn, available |-> FreeIn(o, dc, cn, "DISCONNECTED"),
          failed |-> FreeIn(o, dc, cn, "FAILED"), multi |-> {}, busy |-> BusyIn(o, dc, cn)]
    ELSE [NoLists EXCEPT !.connected = cn, !.multi = {p \in Peer : sl[p] = "OPEN"}]

\* What the screen shows of these raw lists.
Shown(o, dc, cn, md, sl) ==
    LET available == FreeIn(o, dc, cn, "DISCONNECTED")
        failed == FreeIn(o, dc, cn, "FAILED")
        busy == BusyIn(o, dc, cn)
        none == cn \cup available \cup failed \cup busy = {}
    IN
    IF none THEN NoLists
    ELSE IF md = NONE
    THEN [connected |-> cn, available |-> available, failed |-> failed, multi |-> {},
          busy |-> IF cn = {} THEN busy ELSE {}]
    ELSE [NoLists EXCEPT !.connected = cn, !.multi = {p \in Peer : sl[p] = "OPEN"}]

\* With the raw lists and the session given, while a display timer is left running
\* or not.  A failed peer on the screen gets a timer.  wifi_direct_is_group_owner may
\* fail.
UpdatePeers(dc, cn, md, sl, left) ==
    /\ IF ~power'
       THEN gl' = NoLists
       ELSE \E owner \in {role', FALSE} : gl' = Shown(owner, dc, cn, md, sl)
    /\ timed' = (left \/ gl'.failed # {})

-----------------------------------------------------------------------------
(* Asking the daemon.                                                      *)

\* The lists the daemon may give: any part of the peers around.  A member of our
\* group is connected, and owns it if we do not.
Reports ==
    LET member == Entry(IF role' THEN "client" ELSE "owner", TRUE)
        of(p) == IF p \in group' THEN {member} ELSE Strangers
    IN {f \in UNION {[S -> Strangers \cup {member}] : S \in SUBSET Peer} :
           \A p \in DOMAIN f : f[p] \in of(p)}

\* Mutation of GetDiscovered: the entries the gadget knows keep their status.
GetDiscoveredKeeps ==
    /\ \E f \in Reports :
         disc' = [p \in DOMAIN f |-> IF p \in DOMAIN disc THEN disc[p] ELSE f[p]]
    /\ unfetched' = {}

\* wfd_ug_get_discovered_peers: whatever the daemon saw around last; nobody if it
\* fails.
GetDiscovered ==
    /\ disc' \in Reports
    /\ unfetched' = {}

\* Mutation of GetConnected: the new peers are added to the old ones.
GetConnectedAdds == conn' = conn \cup group' /\ missed' = {}

\* wfd_ug_get_connected_peers
GetConnected == conn' \in {group', {}} /\ missed' = {}

\* _discover_cb
DiscoverCb ==
    /\ power
    /\ UNCHANGED <<session, daemon>>
    /\ GetDiscovered /\ GetConnected
    /\ UpdatePeers(disc', conn', mode, sel, timed)

-----------------------------------------------------------------------------
(* _connection_cb: it looks the peer up among the selected ones while a     *)
(* session runs or has completed, else among the discovered ones.          *)

Listed(p) == mode = NONE /\ p \in DOMAIN disc
Found(p) == Listed(p) \/ Session!Finds(p)

\* The event of a peer it does not find, which joined or left by it.
NotFoundEvent(p, joined, left) ==
    /\ ~Found(p)
    /\ missed' = missed \cup left
    /\ unfetched' = unfetched \cup joined
    /\ UNCHANGED <<raw, session, screen>>

\* A session in progress: an event that leaves the selected entry alone copies conn.
SessionEvent(p) ==
    /\ Session!Finds(p) /\ mode = IN_PROGRESS
    /\ GetConnected
    /\ UpdatePeers(disc, conn', mode, sel, timed)
    /\ UNCHANGED <<disc, session, unfetched>>

Joins(p) ==
    /\ power
    /\ p \notin group
    /\ group = {} \/ role
    /\ group' = group \cup {p}
    /\ role' \in IF group = {} THEN BOOLEAN ELSE {role}

WithStatus(p, status) == [disc EXCEPT ![p].status = status]

ConnectionRsp(p, ok) ==
    /\ UNCHANGED power
    /\ IF ok THEN Joins(p) ELSE p \notin group /\ UNCHANGED <<group, role>>
    /\ \/ NotFoundEvent(p, IF ok THEN {p} ELSE {}, {})
       \/ /\ Session!Answered(p, ok)
          /\ UNCHANGED disc
          /\ unfetched' = IF ok THEN unfetched \cup {p} ELSE unfetched
          /\ GetConnected
          /\ UpdatePeers(disc, conn', mode, sel', timed)
       \/ /\ Listed(p)
          /\ disc' = WithStatus(p, IF ok THEN "ENGAGED" ELSE "FAILED")
          /\ UNCHANGED <<session, unfetched>>
          /\ GetConnected
          /\ UpdatePeers(disc', conn', mode, sel, timed)

\* DISCONNECTION_RSP, _IND and DISASSOCIATION_IND; one with an error returns at
\* once.  The status it sets in disc is overwritten by the copy.
DisconnectionEvent(p) ==
    /\ p \in group
    /\ group' = group \ {p}
    /\ role' = (role /\ group' # {})
    /\ UNCHANGED power
    /\ \/ NotFoundEvent(p, {}, {p})
       \/ SessionEvent(p)
       \/ /\ Session!Reopened(p) \/ (Listed(p) /\ UNCHANGED session)
          /\ GetDiscovered /\ GetConnected
          /\ UpdatePeers(disc', conn', mode, sel', timed)

\* WIFI_DIRECT_CONNECTION_IN_PROGRESS: the item on the screen is not refreshed,
\* since gl_item of a raw entry is never set.  CONNECTION_REQ and WPS_REQ change
\* no entry, but they too copy conn in a session.
ProgressEvent(p) ==
    /\ power /\ p \notin group
    /\ UNCHANGED daemon
    /\ \/ NotFoundEvent(p, {}, {})
       \/ SessionEvent(p)
       \/ /\ \/ Found(p) /\ mode # IN_PROGRESS /\ UNCHANGED <<disc, session>>
             \/ Listed(p) /\ disc' = WithStatus(p, "ENGAGED") /\ UNCHANGED session
             \/ Session!Reopened(p) /\ UNCHANGED disc
          /\ UNCHANGED <<conn, screen, history>>

-----------------------------------------------------------------------------
(* The other callbacks.                                                    *)

\* _activation_cb: the raw lists stay, and switching on updates nothing.
Deactivated ==
    /\ power
    /\ power' = FALSE /\ group' = {} /\ role' = FALSE
    /\ UpdatePeers(disc, conn, mode, sel, timed)
    /\ missed' = missed \cup group
    /\ UNCHANGED <<raw, session, unfetched>>

Activated ==
    /\ ~power
    /\ power' = TRUE
    /\ UNCHANGED <<raw, session, screen, group, role, history>>

\* Mutation of TimerFires: the lists are copied and not shown.
TimerFiresUnshown ==
    /\ timed
    /\ timed' \in BOOLEAN
    /\ UNCHANGED <<session, daemon, gl>>
    /\ GetDiscovered /\ GetConnected

\* _connect_failed_peers_display_cb after 30 s: it starts a discovery,
\* copies the lists, which forgets who failed, and ends.
TimerFires ==
    /\ timed
    /\ UNCHANGED <<session, daemon>>
    /\ GetDiscovered /\ GetConnected
    /\ \E left \in BOOLEAN : UpdatePeers(disc', conn', mode, sel, left)

-----------------------------------------------------------------------------
(* The multi-connect engine.                                               *)

\* _connect_btn_cb, in a view whose devices may be those of an earlier list; only a
\* start that succeeds updates the main view.
ConnectBtn(S) ==
    /\ Session!Start(S)
    /\ UNCHANGED <<raw, daemon, history>>
    /\ \/ S # {} /\ UpdatePeers(disc, conn, mode', sel', timed)
       \/ UNCHANGED screen

\* wfd_multi_connect_next_cb
NextCb == Session!Turn /\ UNCHANGED <<raw, screen, daemon, history>>

\* __wfd_multi_connect_reset_cb
ResetCb ==
    /\ Session!Reset
    /\ UNCHANGED <<raw, daemon, history>>
    /\ UpdatePeers(disc, conn, mode', sel', timed)

\* The multi button during a session, and the OK of its popup
Cancel == Session!Cancel /\ UNCHANGED <<raw, screen, daemon, history>>

-----------------------------------------------------------------------------

\* on_create before the daemon told of anybody.
Init ==
    /\ power \in BOOLEAN
    /\ disc = [p \in {} |-> {}] /\ conn = {}
    /\ mode = NONE /\ sel = [p \in Peer |-> "OUT"]
    /\ gl = NoLists
    /\ timed = FALSE
    /\ group = {} /\ role = FALSE
    /\ unfetched = {} /\ missed = {}

Next ==
    \/ DiscoverCb
    \/ \E p \in Peer :
         \/ \E ok \in BOOLEAN : ConnectionRsp(p, ok)
         \/ DisconnectionEvent(p)
         \/ ProgressEvent(p)
    \/ Deactivated \/ Activated
    \/ TimerFires
    \/ \E S \in SUBSET Peer : ConnectBtn(S)
    \/ NextCb \/ ResetCb \/ Cancel

Spec == Init /\ [][Next]_vars

-----------------------------------------------------------------------------

\* A device is listed as available and as connected at once only after it joined
\* while a multi-connect session was on: _connection_cb then looks at the selected
\* entries alone, and the discovered one keeps its status until the next copy.
ListedTwice == gl.available \cap gl.connected \subseteq unfetched

\* A device listed as connected is in the group, unless it left by an event whose
\* handler did not find it or by switching off, which keeps the raw lists.
NoGhost == gl.connected \subseteq group \cup missed

\* Failed devices never stay for good: while some are on the screen a display
\* timer runs that will take them away, though the gadget lost track of it.
FailedAreTimed == gl.failed # {} => timed

\* What makes them inductive: of the peers in the group and the raw list of connected
\* ones, an entry that looks free in the other raw list is out of date, and a peer
\* that is no more in the group left unnoticed.
FreeIsUnfetched ==
    \A p \in DOMAIN disc :
        p \in conn \cup group /\ disc[p].status = "DISCONNECTED" => p \in unfetched
ConnIsKnown == conn \subseteq group \cup missed

IInv ==
    /\ TypeOK /\ FreeIsUnfetched /\ ConnIsKnown
    /\ ListedTwice /\ NoGhost /\ FailedAreTimed
=============================================================================
