--------------------------- MODULE WfdPeers_proofs ---------------------------
(***************************************************************************)
(* Proofs about WfdPeers, for every finite set of peers and whatever a     *)
(* discovery says of strangers.  The properties speak of the lists on the  *)
(* screen, which are made from the raw lists now and then; the invariant   *)
(* adds what holds of the raw lists all the time (FreeIsUnfetched,         *)
(* ConnIsKnown).  ScreenKeeps shows once that an update of the screen      *)
(* from such lists has the properties; each action then has to keep the    *)
(* raw lists right, or leave the screen alone.                             *)
(***************************************************************************)
EXTENDS WfdPeers, TLAPS

Modes == {NONE, IN_PROGRESS, COMPLETED}
Selection == [Peer -> {"OUT", "OPEN", "CONNECTED"}]

\* What holds of the raw lists, the session and the daemon
RawOK ==
    /\ DOMAIN disc \subseteq Peer /\ \A p \in DOMAIN disc : disc[p] \in Info
    /\ conn \subseteq Peer
    /\ mode \in Modes /\ sel \in Selection
    /\ power \in BOOLEAN /\ group \subseteq Peer /\ role \in BOOLEAN
    /\ unfetched \subseteq Peer /\ missed \subseteq Peer
    /\ FreeIsUnfetched /\ ConnIsKnown

\* ... and of the screen
ScreenOK ==
    /\ gl \in Lists /\ (gl.connected = {} \/ gl.busy = {})
    /\ timed \in BOOLEAN
    /\ ListedTwice /\ NoGhost /\ FailedAreTimed

LEMMA Parts ==
    /\ IInv <=> RawOK /\ ScreenOK
    /\ IInv' <=> RawOK' /\ ScreenOK'
BY DEF IInv, TypeOK, RawOK, ScreenOK, Modes, Selection

-----------------------------------------------------------------------------
(* The screen.                                                             *)

LEMMA ShownType ==
    ASSUME NEW o \in BOOLEAN, NEW dc, DOMAIN dc \subseteq Peer,
           NEW cn \in SUBSET Peer, NEW md, NEW sl
    PROVE  LET s == Shown(o, dc, cn, md, sl) IN
           /\ s \in Lists
           /\ s.connected \subseteq cn
           /\ s.available \subseteq FreeIn(o, dc, cn, "DISCONNECTED")
           /\ s.connected = {} \/ s.busy = {}
<1> DEFINE s == Shown(o, dc, cn, md, sl)
<1> DEFINE available == FreeIn(o, dc, cn, "DISCONNECTED")
<1> DEFINE failed == FreeIn(o, dc, cn, "FAILED")
<1> DEFINE busy == BusyIn(o, dc, cn)
<1> DEFINE multi == {p \in Peer : sl[p] = "OPEN"}
<1>1. /\ available \subseteq Peer /\ failed \subseteq Peer /\ busy \subseteq Peer
      /\ multi \subseteq Peer
  BY DEF FreeIn, BusyIn
<1>2. \/ s = NoLists
      \/ s = [connected |-> cn, available |-> available, failed |-> failed, multi |-> {},
              busy |-> IF cn = {} THEN busy ELSE {}]
      \/ s = [NoLists EXCEPT !.connected = cn, !.multi = multi]
  BY DEF Shown
<1> HIDE DEF available, failed, busy, multi, s
<1>3. NoLists \in Lists /\ NoLists.available = {} /\ NoLists.busy = {}
  BY DEF NoLists, Lists
<1>4. /\ s \in Lists /\ s.connected \subseteq cn /\ s.available \subseteq available
      /\ s.connected = {} \/ s.busy = {}
  <2>1. CASE s = NoLists
    BY <2>1 DEF NoLists, Lists
  <2>2. CASE s = [connected |-> cn, available |-> available, failed |-> failed,
                  multi |-> {}, busy |-> IF cn = {} THEN busy ELSE {}]
    BY <1>1, <2>2 DEF Lists
  <2>3. CASE s = [NoLists EXCEPT !.connected = cn, !.multi = multi]
    <3>1. s \in Lists
      BY <1>1, <1>3, <2>3 DEF Lists
    <3>2. s.connected = cn /\ s.available = {} /\ s.busy = {}
      BY <1>3, <2>3 DEF Lists
    <3>3. QED
      BY <3>1, <3>2
  <2>4. QED
    BY <1>2, <1>3, <2>1, <2>2, <2>3
<1>5. QED
  BY <1>4 DEF s, available

\* An update of the screen from raw lists that are right.
LEMMA ScreenKeeps ==
    ASSUME RawOK', timed \in BOOLEAN, NEW left \in BOOLEAN,
           UpdatePeers(disc', conn', mode', sel', left)
    PROVE  ScreenOK'
<1>1. \/ gl' = NoLists
      \/ \E o \in {role', FALSE} : gl' = Shown(o, disc', conn', mode', sel')
  BY DEF UpdatePeers
<1>2. timed' = (left \/ gl'.failed # {})
  BY DEF UpdatePeers
<1>3. /\ gl' \in Lists
      /\ gl'.connected \subseteq conn'
      /\ \A p \in gl'.available : p \in DOMAIN disc' /\ disc'[p].status = "DISCONNECTED"
      /\ gl'.connected = {} \/ gl'.busy = {}
  <2>1. CASE gl' = NoLists
    BY <2>1 DEF NoLists, Lists
  <2>2. CASE \E o \in {role', FALSE} : gl' = Shown(o, disc', conn', mode', sel')
    <3>1. PICK o \in BOOLEAN : gl' = Shown(o, disc', conn', mode', sel')
      BY <2>2 DEF RawOK
    <3>2. DOMAIN disc' \subseteq Peer /\ conn' \in SUBSET Peer
      BY DEF RawOK
    <3>3. /\ gl' \in Lists
          /\ gl'.connected \subseteq conn'
          /\ gl'.available \subseteq FreeIn(o, disc', conn', "DISCONNECTED")
          /\ gl'.connected = {} \/ gl'.busy = {}
      BY <3>1, <3>2, ShownType
    <3>4. QED
      BY <3>3 DEF FreeIn
  <2>3. QED
    BY <1>1, <2>1, <2>2
<1>4. ListedTwice'
  BY <1>3 DEF ListedTwice, RawOK, FreeIsUnfetched
<1>5. NoGhost'
  BY <1>3 DEF NoGhost, RawOK, ConnIsKnown
<1>6. FailedAreTimed' /\ timed' \in BOOLEAN
  BY <1>2 DEF FailedAreTimed
<1>7. QED
  BY <1>3, <1>4, <1>5, <1>6 DEF ScreenOK

COROLLARY ScreenUpdates ==
    ASSUME RawOK', ScreenOK, UpdatePeers(disc', conn', mode', sel', timed)
    PROVE  ScreenOK'
<1>1. timed \in BOOLEAN
  BY DEF ScreenOK
<1>2. QED
  BY <1>1, ScreenKeeps

\* A step that leaves the screen alone, and forgets of no peer that it is out of date.
LEMMA UnchangedScreenKeeps ==
    ASSUME ScreenOK, UNCHANGED screen, unfetched \subseteq unfetched',
           group \cup missed \subseteq group' \cup missed'
    PROVE  ScreenOK'
BY DEF ScreenOK, screen, ListedTwice, NoGhost, FailedAreTimed

-----------------------------------------------------------------------------
(* The raw lists.                                                          *)

\* A copy of both lists is right, whatever they held before.
LEMMA CopyKeeps ==
    ASSUME GetDiscovered, GetConnected, group' \subseteq Peer, role' \in BOOLEAN
    PROVE  /\ DOMAIN disc' \subseteq Peer /\ \A p \in DOMAIN disc' : disc'[p] \in Info
           /\ conn' \subseteq Peer /\ unfetched' = {} /\ missed' = {}
           /\ FreeIsUnfetched' /\ ConnIsKnown'
<1> DEFINE member == Entry(IF role' THEN "client" ELSE "owner", TRUE)
<1>1. member \in Info /\ member.status = "ENGAGED"
  BY DEF Entry, Info, Kind, Status
<1>2. Strangers \subseteq Info
  BY StrangersAssumption DEF Entries, Entry, Info, Kind, Status
<1>3. /\ disc' \in UNION {[S -> Strangers \cup {member}] : S \in SUBSET Peer}
      /\ \A p \in DOMAIN disc' :
            disc'[p] \in IF p \in group' THEN {member} ELSE Strangers
  BY DEF GetDiscovered, Reports
<1> HIDE DEF member
<1>4. DOMAIN disc' \subseteq Peer /\ \A p \in DOMAIN disc' : disc'[p] \in Info
  BY <1>1, <1>2, <1>3
<1>5. \A p \in DOMAIN disc' : p \in group' => disc'[p].status = "ENGAGED"
  BY <1>1, <1>3
<1>6. conn' \subseteq group' /\ missed' = {} /\ unfetched' = {}
  BY DEF GetConnected, GetDiscovered
<1>7. QED
  BY <1>4, <1>5, <1>6 DEF FreeIsUnfetched, ConnIsKnown

\* A copy of the connected list alone: the discovered ones have to be right for the
\* new group.
LEMMA ConnectedKeeps ==
    ASSUME GetConnected, group' \subseteq Peer,
           \A p \in DOMAIN disc' :
               p \in group' /\ disc'[p].status = "DISCONNECTED" => p \in unfetched'
    PROVE  conn' \subseteq Peer /\ missed' = {} /\ FreeIsUnfetched' /\ ConnIsKnown'
BY DEF GetConnected, FreeIsUnfetched, ConnIsKnown

\* An entry whose status is set
LEMMA StatusKeeps ==
    ASSUME NEW p \in DOMAIN disc, NEW status \in Status,
           \A q \in DOMAIN disc : disc[q] \in Info,
           disc' = WithStatus(p, status)
    PROVE  /\ DOMAIN disc' = DOMAIN disc
           /\ \A q \in DOMAIN disc : disc'[q] \in Info
           /\ disc'[p].status = status
           /\ \A q \in DOMAIN disc : q # p => disc'[q] = disc[q]
BY DEF WithStatus, Info

-----------------------------------------------------------------------------
(* The session.                                                            *)

\* Every step of the interface leaves a mode and a selection.
LEMMA SessionType ==
    ASSUME mode \in Modes, sel \in Selection,
           \/ \E S \in SUBSET Peer : Session!Start(S)
           \/ Session!Turn \/ Session!Reset \/ Session!Cancel
           \/ \E p \in Peer : Session!Reopened(p) \/ \E ok \in BOOLEAN : Session!Answered(p, ok)
           \/ UNCHANGED session
    PROVE  mode' \in Modes /\ sel' \in Selection
<1> USE DEF Modes, Selection, NONE, IN_PROGRESS, COMPLETED
<1>1. ASSUME NEW S \in SUBSET Peer, Session!Start(S) PROVE mode' \in Modes /\ sel' \in Selection
  BY <1>1 DEF Session!Start
<1>2. CASE Session!Turn \/ Session!Reset \/ Session!Cancel
  BY <1>2 DEF Session!Turn, Session!Reset, Session!Cancel
<1>3. ASSUME NEW p \in Peer, NEW st \in {"OPEN", "CONNECTED"}, sel' = [sel EXCEPT ![p] = st]
      PROVE  sel' \in Selection
  BY <1>3
<1>4. ASSUME NEW p \in Peer, Session!Reopened(p)
      PROVE  mode' \in Modes /\ sel' \in Selection
  BY <1>3, <1>4 DEF Session!Reopened
<1>5. ASSUME NEW p \in Peer, NEW ok \in BOOLEAN, Session!Answered(p, ok)
      PROVE  mode' \in Modes /\ sel' \in Selection
  BY <1>3, <1>5 DEF Session!Answered
<1>6. CASE UNCHANGED session
  BY <1>6 DEF session
<1>7. QED
  BY <1>1, <1>2, <1>4, <1>5, <1>6

-----------------------------------------------------------------------------
(* The events of the daemon.                                               *)

LEMMA DiscoverCbKeeps ==
    ASSUME IInv, DiscoverCb PROVE IInv'
<1>1. RawOK /\ ScreenOK
  BY Parts
<1>2. /\ UNCHANGED <<mode, sel, power, group, role>>
      /\ GetDiscovered /\ GetConnected
      /\ UpdatePeers(disc', conn', mode', sel', timed)
  BY DEF DiscoverCb, session, daemon
<1>3. RawOK'
  BY <1>1, <1>2, CopyKeeps DEF RawOK
<1>4. ScreenOK'
  BY <1>1, <1>2, <1>3, ScreenUpdates
<1>5. QED
  BY <1>3, <1>4, Parts

\* An event of a selected peer that a session in progress leaves alone
LEMMA SessionEventKeeps ==
    ASSUME IInv, NEW p \in Peer, SessionEvent(p),
           power' \in BOOLEAN, group' \subseteq group, role' \in BOOLEAN
    PROVE  IInv'
<1>1. RawOK /\ ScreenOK
  BY Parts
<1>2. /\ UNCHANGED <<disc, mode, sel, unfetched>>
      /\ GetConnected /\ UpdatePeers(disc', conn', mode', sel', timed)
  BY DEF SessionEvent, session
<1>3. \A q \in DOMAIN disc' :
          q \in group' /\ disc'[q].status = "DISCONNECTED" => q \in unfetched'
  BY <1>1, <1>2 DEF RawOK, FreeIsUnfetched
<1>4. RawOK'
  BY <1>1, <1>2, <1>3, ConnectedKeeps DEF RawOK
<1>5. ScreenOK'
  BY <1>1, <1>2, <1>4, ScreenUpdates
<1>6. QED
  BY <1>4, <1>5, Parts

\* An event of a peer that is not found
LEMMA NotFoundKeeps ==
    ASSUME IInv, NEW p \in Peer, NEW joined \in SUBSET Peer, NEW gone \in SUBSET Peer,
           NotFoundEvent(p, joined, gone),
           power' \in BOOLEAN, group' \subseteq Peer, role' \in BOOLEAN,
           group' \subseteq group \cup joined, group \subseteq group' \cup gone
    PROVE  IInv'
<1>1. RawOK /\ ScreenOK
  BY Parts
<1>2. /\ UNCHANGED <<disc, conn, mode, sel, screen>>
      /\ missed' = missed \cup gone /\ unfetched' = unfetched \cup joined
  BY DEF NotFoundEvent, raw, session
<1>3. RawOK'
  BY <1>1, <1>2 DEF RawOK, FreeIsUnfetched, ConnIsKnown
<1>4. ScreenOK'
  BY <1>1, <1>2, UnchangedScreenKeeps
<1>5. QED
  BY <1>3, <1>4, Parts

LEMMA ConnectionRspKeeps ==
    ASSUME IInv, NEW p \in Peer, NEW ok \in BOOLEAN, ConnectionRsp(p, ok)
    PROVE  IInv'
<1>1. RawOK /\ ScreenOK
  BY Parts
<1>2. /\ power' \in BOOLEAN /\ role' \in BOOLEAN
      /\ group' = IF ok THEN group \cup {p} ELSE group
      /\ group' \subseteq Peer
  BY <1>1 DEF ConnectionRsp, Joins, RawOK
<1>3. CASE NotFoundEvent(p, IF ok THEN {p} ELSE {}, {})
  BY <1>2, <1>3, NotFoundKeeps
<1>4. ASSUME mode' \in Modes, sel' \in Selection,
             DOMAIN disc' \subseteq Peer, \A q \in DOMAIN disc' : disc'[q] \in Info,
             \A q \in DOMAIN disc' :
                 q \in group' /\ disc'[q].status = "DISCONNECTED" => q \in unfetched',
             unfetched' \subseteq Peer,
             GetConnected, UpdatePeers(disc', conn', mode', sel', timed)
      PROVE  IInv'
  <2>1. RawOK'
    BY <1>1, <1>2, <1>4, ConnectedKeeps DEF RawOK
  <2>2. ScreenOK'
    BY <1>1, <1>4, <2>1, ScreenUpdates
  <2>3. QED
    BY <2>1, <2>2, Parts
<1>5. CASE /\ Session!Answered(p, ok)
           /\ UNCHANGED disc
           /\ unfetched' = IF ok THEN unfetched \cup {p} ELSE unfetched
           /\ GetConnected
           /\ UpdatePeers(disc, conn', mode, sel', timed)
  <2>1. mode' \in Modes /\ sel' \in Selection /\ mode' = mode
    BY <1>1, <1>5, SessionType DEF RawOK, Session!Answered
  <2>2. \A q \in DOMAIN disc' :
            q \in group' /\ disc'[q].status = "DISCONNECTED" => q \in unfetched'
    BY <1>1, <1>2, <1>5 DEF RawOK, FreeIsUnfetched
  <2>3. QED
    BY <1>1, <1>4, <1>5, <2>1, <2>2 DEF RawOK
<1>6. CASE /\ Listed(p)
           /\ disc' = WithStatus(p, IF ok THEN "ENGAGED" ELSE "FAILED")
           /\ UNCHANGED <<session, unfetched>>
           /\ GetConnected
           /\ UpdatePeers(disc', conn', mode, sel, timed)
  <2>1. /\ DOMAIN disc' = DOMAIN disc
        /\ \A q \in DOMAIN disc : disc'[q] \in Info
        /\ disc'[p].status # "DISCONNECTED"
        /\ \A q \in DOMAIN disc : q # p => disc'[q] = disc[q]
    BY <1>1, <1>6, StatusKeeps DEF Listed, RawOK, Status
  <2>2. \A q \in DOMAIN disc' :
            q \in group' /\ disc'[q].status = "DISCONNECTED" => q \in unfetched'
    BY <1>1, <1>2, <1>6, <2>1 DEF RawOK, FreeIsUnfetched
  <2>3. QED
    BY <1>1, <1>4, <1>6, <2>1, <2>2 DEF RawOK, session
<1>7. QED
  BY <1>3, <1>5, <1>6 DEF ConnectionRsp

LEMMA DisconnectionKeeps ==
    ASSUME IInv, NEW p \in Peer, DisconnectionEvent(p)
    PROVE  IInv'
<1>1. RawOK /\ ScreenOK
  BY Parts
<1>2. /\ power' \in BOOLEAN /\ role' \in BOOLEAN
      /\ group' = group \ {p} /\ group' \subseteq Peer
  BY <1>1 DEF DisconnectionEvent, RawOK
<1>3. CASE NotFoundEvent(p, {}, {p})
  BY <1>2, <1>3, NotFoundKeeps
<1>4. CASE SessionEvent(p)
  BY <1>2, <1>4, SessionEventKeeps
<1>5. CASE /\ Session!Reopened(p) \/ (Listed(p) /\ UNCHANGED session)
           /\ GetDiscovered /\ GetConnected
           /\ UpdatePeers(disc', conn', mode, sel', timed)
  <2>1. mode' \in Modes /\ sel' \in Selection /\ mode' = mode
    BY <1>1, <1>5, SessionType DEF RawOK, session, Session!Reopened
  <2>2. RawOK'
    BY <1>1, <1>2, <1>5, <2>1, CopyKeeps DEF RawOK
  <2>3. ScreenOK'
    BY <1>1, <1>5, <2>1, <2>2, ScreenUpdates
  <2>4. QED
    BY <2>2, <2>3, Parts
<1>6. QED
  BY <1>3, <1>4, <1>5 DEF DisconnectionEvent

LEMMA ProgressKeeps ==
    ASSUME IInv, NEW p \in Peer, ProgressEvent(p)
    PROVE  IInv'
<1>1. RawOK /\ ScreenOK
  BY Parts
<1>2. UNCHANGED <<power, group, role>>
  BY DEF ProgressEvent, daemon
<1>3. CASE NotFoundEvent(p, {}, {})
  BY <1>1, <1>2, <1>3, NotFoundKeeps DEF RawOK
<1>4. CASE SessionEvent(p)
  BY <1>1, <1>2, <1>4, SessionEventKeeps DEF RawOK
<1>5. CASE /\ \/ Found(p) /\ mode # IN_PROGRESS /\ UNCHANGED <<disc, session>>
              \/ Listed(p) /\ disc' = WithStatus(p, "ENGAGED") /\ UNCHANGED session
              \/ Session!Reopened(p) /\ UNCHANGED disc
           /\ UNCHANGED <<conn, screen, history>>
  <2>1. mode' \in Modes /\ sel' \in Selection
    BY <1>1, <1>5, SessionType DEF RawOK
  <2>2. /\ DOMAIN disc' \subseteq Peer /\ \A q \in DOMAIN disc' : disc'[q] \in Info
        /\ \A q \in DOMAIN disc' : disc'[q].status = "DISCONNECTED"
              => q \in DOMAIN disc /\ disc[q].status = "DISCONNECTED"
    <3>1. CASE UNCHANGED disc
      BY <1>1, <3>1 DEF RawOK
    <3>2. CASE Listed(p) /\ disc' = WithStatus(p, "ENGAGED")
      BY <1>1, <3>2, StatusKeeps DEF Listed, RawOK, Status
    <3>3. QED
      BY <1>5, <3>1, <3>2
  <2>3. RawOK'
    BY <1>1, <1>2, <1>5, <2>1, <2>2 DEF RawOK, FreeIsUnfetched, ConnIsKnown, history
  <2>4. ScreenOK'
    BY <1>1, <1>2, <1>5, UnchangedScreenKeeps DEF history
  <2>5. QED
    BY <2>3, <2>4, Parts
<1>6. QED
  BY <1>3, <1>4, <1>5 DEF ProgressEvent

LEMMA PowerKeeps ==
    ASSUME IInv, Deactivated \/ Activated
    PROVE  IInv'
<1>1. RawOK /\ ScreenOK
  BY Parts
<1>2. UNCHANGED <<disc, conn, mode, sel, unfetched>>
  BY DEF Deactivated, Activated, raw, session, history
<1>3. CASE Deactivated
  <2>1. /\ power' = FALSE /\ group' = {} /\ role' = FALSE
        /\ missed' = missed \cup group
        /\ UpdatePeers(disc', conn', mode', sel', timed)
    BY <1>2, <1>3 DEF Deactivated
  <2>2. RawOK'
    BY <1>1, <1>2, <2>1 DEF RawOK, FreeIsUnfetched, ConnIsKnown
  <2>3. ScreenOK'
    BY <1>1, <2>1, <2>2, ScreenUpdates
  <2>4. QED
    BY <2>2, <2>3, Parts
<1>4. CASE Activated
  <2>1. power' = TRUE /\ UNCHANGED <<screen, group, role, missed>>
    BY <1>4 DEF Activated, history
  <2>2. RawOK'
    BY <1>1, <1>2, <2>1 DEF RawOK, FreeIsUnfetched, ConnIsKnown
  <2>3. ScreenOK'
    BY <1>1, <1>2, <2>1, UnchangedScreenKeeps
  <2>4. QED
    BY <2>2, <2>3, Parts
<1>5. QED
  BY <1>3, <1>4

-----------------------------------------------------------------------------
(* The timers and the multi-connect engine.                                *)

LEMMA TimerFiresKeeps ==
    ASSUME IInv, TimerFires PROVE IInv'
<1>1. RawOK /\ ScreenOK
  BY Parts
<1>2. /\ UNCHANGED <<mode, sel, power, group, role>>
      /\ GetDiscovered /\ GetConnected
  BY DEF TimerFires, session, daemon
<1>3. PICK left \in BOOLEAN : UpdatePeers(disc', conn', mode', sel', left)
  BY <1>2 DEF TimerFires
<1>4. RawOK'
  BY <1>1, <1>2, CopyKeeps DEF RawOK
<1>5. timed \in BOOLEAN
  BY <1>1 DEF ScreenOK
<1>6. ScreenOK'
  BY <1>3, <1>4, <1>5, ScreenKeeps
<1>7. QED
  BY <1>4, <1>6, Parts

\* The engine changes its session and at most makes the screen anew.
LEMMA EngineKeeps ==
    ASSUME IInv, UNCHANGED <<raw, daemon, history>>,
           mode' \in Modes, sel' \in Selection,
           UpdatePeers(disc, conn, mode', sel', timed) \/ UNCHANGED screen
    PROVE  IInv'
<1>1. RawOK /\ ScreenOK
  BY Parts
<1>2. UNCHANGED <<disc, conn, power, group, role, unfetched, missed>>
  BY DEF raw, daemon, history
<1>3. RawOK'
  BY <1>1, <1>2 DEF RawOK, FreeIsUnfetched, ConnIsKnown
<1>4. CASE UpdatePeers(disc, conn, mode', sel', timed)
  <2>1. UpdatePeers(disc', conn', mode', sel', timed)
    BY <1>2, <1>4
  <2>2. QED
    BY <1>1, <1>3, <2>1, ScreenUpdates, Parts
<1>5. CASE UNCHANGED screen
  BY <1>1, <1>2, <1>3, <1>5, UnchangedScreenKeeps, Parts
<1>6. QED
  BY <1>4, <1>5

-----------------------------------------------------------------------------

LEMMA InitIInv == Init => IInv
<1> SUFFICES ASSUME Init PROVE IInv
  OBVIOUS
<1>1. DOMAIN disc = {}
  BY DEF Init
<1>2. RawOK
  BY <1>1 DEF Init, RawOK, FreeIsUnfetched, ConnIsKnown, Modes, Selection
<1>3. ScreenOK
  BY DEF Init, ScreenOK, NoLists, Lists, ListedTwice, NoGhost, FailedAreTimed
<1>4. QED
  BY <1>2, <1>3, Parts

LEMMA StepIInv == IInv /\ [Next]_vars => IInv'
<1> SUFFICES ASSUME IInv, [Next]_vars PROVE IInv'
  OBVIOUS
<1>1. mode \in Modes /\ sel \in Selection
  BY DEF IInv, TypeOK, Modes, Selection
<1>2. CASE DiscoverCb
  BY <1>2, DiscoverCbKeeps
<1>3. CASE \E p \in Peer : \/ \E ok \in BOOLEAN : ConnectionRsp(p, ok)
                           \/ DisconnectionEvent(p) \/ ProgressEvent(p)
  BY <1>3, ConnectionRspKeeps, DisconnectionKeeps, ProgressKeeps
<1>4. CASE Deactivated \/ Activated
  BY <1>4, PowerKeeps
<1>5. CASE TimerFires
  BY <1>5, TimerFiresKeeps
<1>6. CASE \E S \in SUBSET Peer : ConnectBtn(S)
  BY <1>1, <1>6, SessionType, EngineKeeps DEF ConnectBtn
<1>7. CASE NextCb
  BY <1>1, <1>7, SessionType, EngineKeeps DEF NextCb
<1>8. CASE ResetCb
  BY <1>1, <1>8, SessionType, EngineKeeps DEF ResetCb
<1>9. CASE Cancel
  BY <1>1, <1>9, SessionType, EngineKeeps DEF Cancel
<1>10. CASE UNCHANGED vars
  BY <1>1, <1>10, EngineKeeps DEF vars, session
<1>11. QED
  BY <1>2, <1>3, <1>4, <1>5, <1>6, <1>7, <1>8, <1>9, <1>10 DEF Next

\* The inductive invariant of the peer lists: the properties of the screen, and of the
\* raw lists the screen is made from.
THEOREM InductiveInvariant == Spec => []IInv
  BY InitIInv, StepIInv, PTL DEF Spec

\* Every variable stays in its type (TypeOK); in particular busy devices are shown only
\* while nobody is connected.
THEOREM TypeCorrect == Spec => []TypeOK
<1>1. IInv => TypeOK
  BY DEF IInv
<1>2. QED
  BY InductiveInvariant, <1>1, PTL

\* A device listed as available and connected at once joined unmarked (ListedTwice;
\* _connection_cb during a session).
THEOREM TwiceIsUnmarked == Spec => []ListedTwice
<1>1. IInv => ListedTwice
  BY DEF IInv
<1>2. QED
  BY InductiveInvariant, <1>1, PTL

\* A device listed as connected is in the group or left unnoticed (NoGhost).
THEOREM GhostsLeftUnnoticed == Spec => []NoGhost
<1>1. IInv => NoGhost
  BY DEF IInv
<1>2. QED
  BY InductiveInvariant, <1>1, PTL

\* While failed devices are on the screen a display timer runs (FailedAreTimed;
\* wfd_ug_view_update_peers, _connect_failed_peers_display_cb).
THEOREM FailedHaveTimer == Spec => []FailedAreTimed
<1>1. IInv => FailedAreTimed
  BY DEF IInv
<1>2. QED
  BY InductiveInvariant, <1>1, PTL
=============================================================================
