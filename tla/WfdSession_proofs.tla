--------------------------- MODULE WfdSession_proofs ---------------------------
(***************************************************************************)
(* The multi-connect engine implements the abstract session, and the       *)
(* interface WfdPeers is built on, for every number of devices: initial    *)
(* states map to initial states, and every callback to a step of the       *)
(* abstract specification or to a stutter.                                 *)
(***************************************************************************)
EXTENDS WfdMultiConnect_proofs

\* The abstract waiting, under the mapping of WfdMultiConnect!Session.
waits == Having(WAIT)

LEMMA Waiting ==
    ASSUME TypeOK
    PROVE  waits \subseteq Peer /\ Tried \subseteq Peer /\ waits \cap Tried = {}
  BY DEF waits, Tried, Having, Selected

\* A device is waiting, tried or not selected.
LEMMA Tellings ==
    ASSUME NEW p \in Peer
    PROVE  /\ p \in waits <=> sel[p] = WAIT
           /\ p \in Tried <=> sel[p] \notin {OUT, WAIT}
  BY DEF waits, Tried, Having, Selected, OUT, WAIT

LEMMA TellingsPrime ==
    ASSUME NEW p \in Peer
    PROVE  /\ p \in waits' <=> sel'[p] = WAIT
           /\ p \in Tried' <=> sel'[p] \notin {OUT, WAIT}
  BY DEF waits, Tried, Having, Selected, OUT, WAIT

LEMMA SameSelection ==
    ASSUME sel' = sel PROVE waits' = waits /\ Tried' = Tried
  BY DEF waits, Tried, Having, Selected

\* The devices cands wait in entries, and others have been tried.
Sorted(entries, cands, others) ==
    /\ entries \in [Peer -> Status]
    /\ cands \subseteq Peer /\ others \subseteq Peer
    /\ \A q \in Peer :
         /\ q \in cands <=> entries[q] = WAIT
         /\ q \in others <=> entries[q] \notin {OUT, WAIT}

\* Asking a device tries the candidates up to it, and nobody else.
LEMMA AskTries ==
    ASSUME NEW entries, NEW cands, NEW other, NEW p \in cands,
           Sorted(entries, cands, other),
           Ask(entries, cands, p)
    PROVE  /\ waits' = cands \ Session!UpTo(cands, p)
           /\ Tried' = other \cup Session!UpTo(cands, p)
           /\ pending' = pending \cup {p}
<1> USE DEF Sorted
<1>1. sel' = [q \in Peer |-> IF q = p THEN CONNECTING
                ELSE IF q \in cands /\ q < p THEN FAILED ELSE entries[q]]
  BY DEF Ask, ConnectedTo
<1>2. cands \subseteq Peer /\ p \in Peer /\ \A q \in Peer : q \in Nat
  BY DEF Peer
<1>3. ASSUME NEW q \in Peer
      PROVE  /\ sel'[q] = WAIT <=> q \in cands /\ ~(q <= p)
             /\ sel'[q] \notin {OUT, WAIT} <=> q \in other \/ (q \in cands /\ q <= p)
  <2>1. CASE q = p
    BY <1>1, <1>2, <2>1 DEF OUT, WAIT, CONNECTING
  <2>2. CASE q # p /\ q \in cands /\ q < p
    BY <1>1, <1>2, <2>2 DEF OUT, WAIT, FAILED
  <2>3. CASE q # p /\ ~(q \in cands /\ q < p)
    <3>1. sel'[q] = entries[q]
      BY <1>1, <2>3
    <3>2. q \in cands => ~(q <= p)
      BY <1>2, <2>3
    <3>3. QED
      BY <3>1, <3>2
  <2>4. QED
    BY <2>1, <2>2, <2>3
<1>4. waits' = cands \ Session!UpTo(cands, p)
  BY <1>2, <1>3, TellingsPrime DEF waits, Having, Session!UpTo
<1>5. Tried' = other \cup Session!UpTo(cands, p)
  <2>1. Tried' \subseteq Peer /\ other \subseteq Peer
    BY DEF Tried, Selected
  <2>2. QED
    BY <1>2, <1>3, <2>1, TellingsPrime DEF Session!UpTo
<1>6. QED
  BY <1>4, <1>5 DEF Ask

\* Candidates that are all refused have been tried.
LEMMA RefusedTries ==
    ASSUME NEW entries, NEW cands, NEW other, Sorted(entries, cands, other),
           sel' = AllRefused(entries, cands)
    PROVE  waits' = {} /\ Tried' = other \cup cands
<1> USE DEF Sorted
<1>1. sel' = [q \in Peer |-> IF q \in cands THEN FAILED ELSE entries[q]]
  BY DEF AllRefused
<1>2. ASSUME NEW q \in Peer
      PROVE  /\ sel'[q] # WAIT
             /\ sel'[q] \notin {OUT, WAIT} <=> q \in other \/ q \in cands
  BY <1>1 DEF OUT, WAIT, FAILED
<1>3. Tried' \subseteq Peer /\ waits' \subseteq Peer
  BY DEF Tried, waits, Having, Selected
<1>4. QED
  BY <1>2, <1>3, TellingsPrime

LEMMA FreshEntries ==
    ASSUME NEW S \in SUBSET Peer
    PROVE  Sorted(Entries(S), S, {})
  BY EntriesType DEF Sorted, Entries, OUT, WAIT

-----------------------------------------------------------------------------

LEMMA ConnectBtnRefines ==
    ASSUME TypeOK, NEW S \in SUBSET Peer, ConnectBtn(S)
    PROVE  Session!Begin(S) \/ Session!BeginEmpty
<1> USE DEF TypeOK
<1>1. CASE StartAsks(S)
  <2>1. PICK p \in S : Ask(Entries(S), S, p)
    BY <1>1 DEF StartAsks
  <2>2. /\ waits' = S \ Session!UpTo(S, p)
        /\ Tried' = {} \cup Session!UpTo(S, p)
        /\ pending' = pending \cup {p}
    BY <2>1, FreshEntries, AskTries
  <2>3. Session!Asks(S, {}, p)
    BY <1>1, <2>2 DEF StartAsks, Session!Asks, waits, Tried, IN_PROGRESS
  <2>4. QED
    BY <1>1, <2>3 DEF StartAsks, Session!Begin
<1>2. CASE StartAllRefused(S)
  <2>1. waits' = {} /\ Tried' = {} \cup S
    BY <1>2, FreshEntries, RefusedTries DEF StartAllRefused
  <2>2. QED
    BY <1>2, <2>1 DEF StartAllRefused, Session!Begin, waits, Tried, IN_PROGRESS
<1>3. CASE StartNoIntent(S) \/ StartEmpty(S)
  <2>1. waits' = S /\ Tried' = {}
    <3>1. waits' \subseteq Peer /\ Tried' \subseteq Peer
      BY DEF waits, Tried, Having, Selected
    <3>2. sel' = Entries(S)
      BY <1>3 DEF StartNoIntent, StartEmpty
    <3>3. \A q \in Peer : sel'[q] = IF q \in S THEN WAIT ELSE OUT
      BY <3>2 DEF Entries
    <3>4. \A q \in Peer : (q \in waits' <=> q \in S) /\ q \notin Tried'
      BY <3>3, TellingsPrime DEF OUT, WAIT
    <3>5. QED
      BY <3>1, <3>4
  <2>2. QED
    BY <1>3, <2>1
    DEF StartNoIntent, StartEmpty, Session!Begin, Session!BeginEmpty, waits, Tried,
        IN_PROGRESS
<1>4. QED
  BY <1>1, <1>2, <1>3 DEF ConnectBtn

LEMMA NextCbRefines ==
    ASSUME TypeOK, NextCb
    PROVE  \/ Session!Continue \/ Session!Finish
           \/ UNCHANGED Session!vars
<1> USE DEF TypeOK
<1>1. Sorted(sel, Having(WAIT), Tried)
  BY DEF Sorted, Tried, Having, Selected, OUT, WAIT
<1>2. CASE NextAgain
  BY <1>2, SameSelection DEF NextAgain, Session!vars, waits
<1>3. CASE NextAsks
  <2>1. PICK p \in Having(WAIT) : Ask(sel, Having(WAIT), p)
    BY <1>3 DEF NextAsks
  <2>2. /\ waits' = Having(WAIT) \ Session!UpTo(Having(WAIT), p)
        /\ Tried' = Tried \cup Session!UpTo(Having(WAIT), p)
        /\ pending' = pending \cup {p}
    BY <1>1, <2>1, AskTries
  <2>3. Session!Asks(Having(WAIT), Tried, p)
    BY <1>3, <2>2 DEF NextAsks, Session!Asks, waits, Tried, IN_PROGRESS
  <2>4. QED
    BY <2>1, <2>3 DEF Session!Continue, Tried
<1>4. CASE NextStops
  <2>1. waits' = {} /\ Tried' = Tried \cup Having(WAIT)
    <3> HIDE DEF TypeOK
    <3>1. QED
      BY <1>1, <1>4, RefusedTries DEF NextStops
  <2>2. Tried # {} \/ Having(WAIT) # {}
    BY <1>4 DEF NextStops, Tried
  <2>3. QED
    BY <1>4, <2>1, <2>2
    DEF NextStops, Stop, Session!Finish, waits, Tried, COMPLETED
<1>5. QED
  BY <1>2, <1>3, <1>4 DEF NextCb

\* An entry that gets a status other than WAIT is settled.
LEMMA StatusSettles ==
    ASSUME TypeOK, NEW p \in Selected, NEW st \in Status \ {OUT, WAIT},
           sel' = [sel EXCEPT ![p] = st], mode' = mode
    PROVE  Session!Settle(p)
<1> USE DEF TypeOK
<1>1. p \in Peer /\ (p \in waits \/ p \in Tried)
  BY DEF Selected, waits, Tried
<1>2. ASSUME NEW q \in Peer
      PROVE  /\ q \in waits' <=> q \in waits /\ q # p
             /\ q \in Tried' <=> q \in Tried \/ (q = p /\ q \in waits)
  BY <1>1, <1>2, Tellings, TellingsPrime DEF OUT, WAIT
<1>3. waits' \subseteq Peer /\ Tried' \subseteq Peer
  BY DEF waits, Tried, Having, Selected
<1>4. waits' = waits \ {p} /\ Tried' = Tried \cup (waits \cap {p})
  BY <1>2, <1>3, Waiting
<1>5. QED
  BY <1>4 DEF Session!Settle, waits, Tried

LEMMA ConnectionRspRefines ==
    ASSUME TypeOK, NEW p \in Peer, NEW ok \in BOOLEAN, ConnectionRsp(p, ok)
    PROVE  Session!Answer(p)
<1>1. p \in pending /\ pending' = pending \ {p} /\ mode' = mode
  BY DEF ConnectionRsp
<1>2. CASE sel' = sel
  BY <1>1, <1>2, SameSelection DEF Session!Answer, waits, Tried
<1>3. CASE sel' = [sel EXCEPT ![p] = Answered(ok)] /\ p \in Selected
  <2>1. Answered(ok) \in Status \ {OUT, WAIT}
    BY DEF Answered, Status, OUT, WAIT, CONNECTED, FAILED
  <2>2. Session!Settle(p)
    BY <1>1, <1>3, <2>1, StatusSettles
  <2>3. QED
    BY <1>1, <2>2 DEF Session!Answer
<1>4. QED
  BY <1>2, <1>3 DEF ConnectionRsp, Found, NONE, IN_PROGRESS, COMPLETED

LEMMA DisconnectionRefines ==
    ASSUME TypeOK, NEW p \in Peer, NEW ok \in BOOLEAN, DisconnectionEvent(p, ok)
    PROVE  Session!News(p) \/ UNCHANGED Session!vars
<1>1. pending' = pending /\ mode' = mode
  BY DEF DisconnectionEvent
<1>2. CASE sel' = sel
  BY <1>1, <1>2, SameSelection DEF Session!vars, waits, Tried
<1>3. CASE mode = COMPLETED /\ p \in Selected /\ sel' = [sel EXCEPT ![p] = DISCONNECTED]
  <2>1. DISCONNECTED \in Status \ {OUT, WAIT}
    BY DEF Status, OUT, WAIT, DISCONNECTED
  <2>2. Session!Settle(p)
    BY <1>1, <1>3, <2>1, StatusSettles
  <2>3. QED
    BY <1>1, <1>3, <2>2 DEF Session!News, COMPLETED
<1>4. QED
  BY <1>2, <1>3 DEF DisconnectionEvent, Found, NONE, COMPLETED

LEMMA ProgressRefines ==
    ASSUME TypeOK, NEW p \in Peer, NEW inProgress \in BOOLEAN,
           ProgressEvent(p, inProgress)
    PROVE  Session!News(p) \/ UNCHANGED Session!vars
<1>1. pending' = pending /\ mode' = mode
  BY DEF ProgressEvent, daemon
<1>2. CASE sel' = sel
  BY <1>1, <1>2, SameSelection DEF Session!vars, waits, Tried
<1>3. CASE mode = COMPLETED /\ p \in Selected /\ sel' = [sel EXCEPT ![p] = CONNECTING]
  <2>1. CONNECTING \in Status \ {OUT, WAIT}
    BY DEF Status, OUT, WAIT, CONNECTING
  <2>2. Session!Settle(p)
    BY <1>1, <1>3, <2>1, StatusSettles
  <2>3. QED
    BY <1>1, <1>3, <2>2 DEF Session!News, COMPLETED
<1>4. QED
  BY <1>2, <1>3 DEF ProgressEvent, Found, NONE, COMPLETED

\* Every callback of the engine is a step of the session or none.
LEMMA StepRefines == TypeOK /\ [Next]_vars => [Session!Next]_(Session!vars)
<1> SUFFICES ASSUME TypeOK, [Next]_vars PROVE [Session!Next]_(Session!vars)
  OBVIOUS
<1> USE DEF TypeOK
<1>1. ASSUME sel' = sel, mode' = mode, pending' = pending
      PROVE  UNCHANGED Session!vars
  BY <1>1, SameSelection DEF Session!vars, waits, Tried
<1>2. CASE NextCb
  BY <1>2, NextCbRefines DEF Session!Next
<1>3. CASE ResetCb
  <2>1. Having(WAIT)' = {} /\ Selected' = {}
    BY <1>3 DEF ResetCb, Having, Selected, OUT, WAIT
  <2>2. Session!Forget
    BY <1>3, <2>1 DEF ResetCb, daemon, Session!Forget, Tried, NONE
  <2>3. QED
    BY <2>2 DEF Session!Next
<1>4. ASSUME NEW S \in SUBSET Peer, ConnectBtn(S) PROVE Session!Next
  BY <1>4, ConnectBtnRefines DEF Session!Next
<1>5. CASE MultiButton \/ PopupOk
  <2>1. sel' = sel /\ pending' = pending
    BY <1>5 DEF MultiButton, PopupOk, daemon
  <2>2. mode' = mode \/ (mode = IN_PROGRESS /\ mode' \in {NONE, COMPLETED})
    BY <1>5 DEF MultiButton, PopupOk, Stop
  <2>3. CASE mode' = mode
    BY <1>1, <2>1, <2>3
  <2>4. CASE mode = IN_PROGRESS /\ mode' \in {NONE, COMPLETED}
    <3>1. Session!Halt
      BY <2>1, <2>4, SameSelection
      DEF Session!Halt, waits, Tried, NONE, IN_PROGRESS, COMPLETED
    <3>2. QED
      BY <3>1 DEF Session!Next
  <2>5. QED
    BY <2>2, <2>3, <2>4
<1>6. ASSUME NEW p \in Peer, NEW ok \in BOOLEAN, ConnectionRsp(p, ok)
      PROVE  Session!Next
  BY <1>6, ConnectionRspRefines DEF Session!Next
<1>7. ASSUME NEW p \in Peer, NEW ok \in BOOLEAN, DisconnectionEvent(p, ok)
      PROVE  [Session!Next]_(Session!vars)
  BY <1>7, DisconnectionRefines DEF Session!Next
<1>8. ASSUME NEW p \in Peer, NEW inProgress \in BOOLEAN,
             ProgressEvent(p, inProgress)
      PROVE  [Session!Next]_(Session!vars)
  BY <1>8, ProgressRefines DEF Session!Next
<1>9. ASSUME NEW p \in Peer, OtherConnect(p) PROVE Session!Next
  <2>1. Session!OtherAttempt(p)
    BY <1>9, SameSelection DEF OtherConnect, Session!OtherAttempt, waits, Tried
  <2>2. QED
    BY <2>1 DEF Session!Next
<1>10. CASE Deactivated
  <2>1. Session!DaemonDown
    BY <1>10, SameSelection DEF Deactivated, Session!DaemonDown, waits, Tried
  <2>2. QED
    BY <2>1 DEF Session!Next
<1>11. CASE \/ RealizeButton \/ BackBtn \/ ScanBtn \/ PopupCancel \/ DiscoverCb
            \/ Activated \/ UNCHANGED vars
  BY <1>1, <1>11
  DEF RealizeButton, BackBtn, ScanBtn, PopupCancel, DiscoverCb, Activated, daemon,
      vars
<1>12. QED
  BY <1>2, <1>3, <1>4, <1>5, <1>6, <1>7, <1>8, <1>9, <1>10, <1>11
  DEF Next, Timer, User, Daemon, Answer

\* The engine implements the abstract session: whatever stale timeouts, popups and
\* other attempts interleave, a device of a selection is tried once and in order,
\* and a session ends by itself only when nobody waits (wfd_start_multi_connect,
\* wfd_multi_connect_next_cb, wfd_stop_multi_connect, _connection_cb).
THEOREM EngineImplementsSession == Spec => ImplementsSession
<1>1. Init => Session!Init
  BY DEF Init, Session!Init, Tried, Having, Selected, NONE, OUT, WAIT
<1>2. QED
  BY <1>1, StepRefines, TypeCorrect, PTL DEF Spec, ImplementsSession, Session!Spec
-----------------------------------------------------------------------------

\* A device of a selection is tried once (TriedOnce): but for a new start, no step lets
\* a device wait again, and only the reset takes one from those that were tried.  So
\* a late answer, a stale "next" or a session taken up again never asks twice.
THEOREM TriedOnlyOnce == Spec => TriedOnce
<1> DEFINE Once == view' = view => /\ Having(WAIT)' \subseteq Having(WAIT)
                                   /\ Tried \subseteq Tried' \/ Selected' = {}
<1>1. TypeOK /\ [Next]_vars => [Once]_vars
  <2> SUFFICES ASSUME TypeOK, Next, view' = view
               PROVE  /\ Having(WAIT)' \subseteq Having(WAIT)
                      /\ Tried \subseteq Tried' \/ Selected' = {}
    OBVIOUS
  <2>1. \A S \in SUBSET Peer : ~ConnectBtn(S)
    BY DEF ConnectBtn
  <2>2. CASE NextCb
    BY <2>2, NextCbRefines
    DEF Session!Continue, Session!Asks, Session!Finish, Session!vars
  <2>3. CASE ResetCb
    BY <2>3 DEF ResetCb, Selected, Having, OUT, WAIT
  <2>4. ASSUME NEW p \in Peer, NEW ok \in BOOLEAN, ConnectionRsp(p, ok)
        PROVE  Tried \subseteq Tried'
    BY <2>4, ConnectionRspRefines DEF Session!Answer, Session!Settle
  <2>5. ASSUME NEW p \in Peer, NEW ok \in BOOLEAN, DisconnectionEvent(p, ok)
        PROVE  Tried \subseteq Tried'
    BY <2>5, DisconnectionRefines DEF Session!News, Session!Settle, Session!vars
  <2>6. ASSUME NEW p \in Peer, NEW inProgress \in BOOLEAN,
               ProgressEvent(p, inProgress)
        PROVE  Tried \subseteq Tried'
    BY <2>6, ProgressRefines DEF Session!News, Session!Settle, Session!vars
  <2>7. ASSUME sel' = sel PROVE Tried \subseteq Tried'
    BY <2>7, SameSelection
  <2>8. QED
    BY <2>1, <2>2, <2>3, <2>4, <2>5, <2>6, <2>7, WaitingShrinks
    DEF Next, Timer, User, Daemon, Answer, RealizeButton, MultiButton, BackBtn,
        ScanBtn, PopupOk, PopupCancel, OtherConnect, DiscoverCb, Deactivated, Activated
<1>2. QED
  BY TypeCorrect, <1>1, PTL DEF Spec, TriedOnce
-----------------------------------------------------------------------------

\* The abstract sel, under the mapping of WfdMultiConnect!Selection.
seenSel == [p \in Peer |-> Seen(sel[p])]

LEMMA SeenSelected == Selection!Selected = Selected
  BY DEF Selection!Selected, Selected, Seen, OUT, CONNECTED

\* An entry that gets another status, which may look the same.
LEMMA SeenChange ==
    ASSUME TypeOK, NEW p \in Peer, NEW st, sel' = [sel EXCEPT ![p] = st]
    PROVE  seenSel' = [seenSel EXCEPT ![p] = Seen(st)]
<1>1. \A q \in Peer : sel'[q] = IF q = p THEN st ELSE sel[q]
  BY DEF TypeOK
<1>2. \A q \in Peer : Seen(sel'[q]) = IF q = p THEN Seen(st) ELSE Seen(sel[q])
  BY <1>1
<1>3. QED
  BY <1>2 DEF seenSel

\* A start: whoever is selected is open, as far as the loop may have come.
LEMMA StartSelects ==
    ASSUME NEW S \in SUBSET Peer, ConnectBtn(S)
    PROVE  Selection!Start(S)
<1>1. mode' = IF S = {} THEN mode ELSE "IN_PROGRESS"
  BY DEF ConnectBtn, StartAsks, StartAllRefused, StartNoIntent, StartEmpty, IN_PROGRESS
<1>2. \A q \in Peer : IF q \in S THEN sel'[q] \in {WAIT, CONNECTING, FAILED}
                                 ELSE sel'[q] = OUT
  BY DEF ConnectBtn, StartAsks, StartAllRefused, StartNoIntent, StartEmpty, Ask,
         ConnectedTo, AllRefused, Entries
<1>3. \A q \in Peer : Seen(sel'[q]) = IF q \in S THEN "OPEN" ELSE "OUT"
  BY <1>2 DEF Seen, OUT, WAIT, CONNECTING, CONNECTED, FAILED
<1>4. QED
  BY <1>1, <1>3 DEF Selection!Start

\* A turn: those who waited are asked or refused, and look as before.
LEMMA TurnSelects ==
    ASSUME TypeOK, NextCb
    PROVE  Selection!Turn \/ UNCHANGED Selection!vars
<1>1. CASE NextAgain
  BY <1>1 DEF NextAgain, Selection!vars
<1>2. CASE NextAsks \/ NextStops
  <2>1. \A q \in Peer :
            sel'[q] = sel[q] \/ (sel[q] = WAIT /\ sel'[q] \in {CONNECTING, FAILED})
    BY <1>2 DEF NextAsks, NextStops, Ask, ConnectedTo, AllRefused, Having, TypeOK
  <2>2. \A q \in Peer : Seen(sel'[q]) = Seen(sel[q])
    BY <2>1 DEF Seen, OUT, WAIT, CONNECTING, CONNECTED, FAILED
  <2>3. Selected # {} /\ mode' \in {"IN_PROGRESS", "COMPLETED"}
    BY <1>2 DEF NextAsks, NextStops, Stop, IN_PROGRESS, COMPLETED
  <2>4. QED
    BY <2>2, <2>3, SeenSelected DEF Selection!Turn
<1>3. QED
  BY <1>1, <1>2 DEF NextCb

LEMMA AnswerSelects ==
    ASSUME TypeOK, NEW p \in Peer, NEW ok \in BOOLEAN, ConnectionRsp(p, ok)
    PROVE  Selection!Answered(p, ok) \/ UNCHANGED Selection!vars
<1>1. mode' = mode
  BY DEF ConnectionRsp
<1>2. CASE sel' = sel
  BY <1>1, <1>2 DEF Selection!vars
<1>3. CASE sel' = [sel EXCEPT ![p] = Answered(ok)] /\ mode # NONE /\ p \in Selected
  <2>1. Seen(Answered(ok)) = IF ok THEN "CONNECTED" ELSE "OPEN"
    BY DEF Answered, Seen, OUT, CONNECTED, FAILED
  <2>2. seenSel' = [seenSel EXCEPT ![p] = IF ok THEN "CONNECTED" ELSE "OPEN"]
    BY <1>3, <2>1, SeenChange
  <2>3. QED
    BY <1>1, <1>3, <2>2, SeenSelected
    DEF Selection!Answered, Selection!Finds, seenSel, NONE
<1>4. QED
  BY <1>2, <1>3 DEF ConnectionRsp, Found, NONE, IN_PROGRESS, COMPLETED

\* A disconnection or the beginning of an attempt opens the entry of a session that is
\* not in progress.
LEMMA ReopenSelects ==
    ASSUME TypeOK, NEW p \in Peer, NEW st \in {CONNECTING, DISCONNECTED},
           sel' = [sel EXCEPT ![p] = st], mode' = mode, mode = COMPLETED, p \in Selected
    PROVE  Selection!Reopened(p)
<1>1. seenSel' = [seenSel EXCEPT ![p] = "OPEN"]
  BY SeenChange DEF Seen, OUT, CONNECTING, CONNECTED, DISCONNECTED
<1>2. QED
  BY <1>1, SeenSelected DEF Selection!Reopened, Selection!Finds, seenSel, COMPLETED

\* Every callback of the engine is a step of the interface or none.
LEMMA StepSelects == TypeOK /\ [Next]_vars => [Selection!Next]_(Selection!vars)
<1> SUFFICES ASSUME TypeOK, [Next]_vars PROVE [Selection!Next]_(Selection!vars)
  OBVIOUS
<1>1. ASSUME sel' = sel, mode' = mode PROVE UNCHANGED Selection!vars
  BY <1>1 DEF Selection!vars
<1>2. ASSUME NEW S \in SUBSET Peer, ConnectBtn(S) PROVE Selection!Next
  BY <1>2, StartSelects DEF Selection!Next
<1>3. CASE NextCb
  BY <1>3, TurnSelects DEF Selection!Next
<1>4. CASE ResetCb
  <2>1. Selection!Reset
    BY <1>4 DEF ResetCb, Selection!Reset, Seen, NONE, OUT, CONNECTED
  <2>2. QED
    BY <2>1 DEF Selection!Next
<1>5. CASE MultiButton \/ PopupOk
  <2>1. sel' = sel
    BY <1>5 DEF MultiButton, PopupOk
  <2>2. mode' = mode \/ (mode = IN_PROGRESS /\ mode' \in {NONE, COMPLETED})
    BY <1>5 DEF MultiButton, PopupOk, Stop
  <2>3. CASE mode' = mode
    BY <1>1, <2>1, <2>3
  <2>4. CASE mode = IN_PROGRESS /\ mode' \in {NONE, COMPLETED}
    <3>1. Selection!Cancel
      BY <2>1, <2>4 DEF Selection!Cancel, NONE, IN_PROGRESS, COMPLETED
    <3>2. QED
      BY <3>1 DEF Selection!Next
  <2>5. QED
    BY <2>2, <2>3, <2>4
<1>6. ASSUME NEW p \in Peer, NEW ok \in BOOLEAN, ConnectionRsp(p, ok)
      PROVE  [Selection!Next]_(Selection!vars)
  BY <1>6, AnswerSelects DEF Selection!Next
<1>7. ASSUME NEW p \in Peer, NEW ok \in BOOLEAN, DisconnectionEvent(p, ok)
      PROVE  [Selection!Next]_(Selection!vars)
  <2>1. \/ sel' = sel /\ mode' = mode
        \/ Selection!Reopened(p)
    BY <1>7, ReopenSelects DEF DisconnectionEvent, Found, NONE, COMPLETED
  <2>2. QED
    BY <1>1, <2>1 DEF Selection!Next
<1>8. ASSUME NEW p \in Peer, NEW inProgress \in BOOLEAN, ProgressEvent(p, inProgress)
      PROVE  [Selection!Next]_(Selection!vars)
  <2>1. \/ sel' = sel /\ mode' = mode
        \/ Selection!Reopened(p)
    BY <1>8, ReopenSelects DEF ProgressEvent, Found, NONE, COMPLETED
  <2>2. QED
    BY <1>1, <2>1 DEF Selection!Next
<1>9. CASE \/ RealizeButton \/ BackBtn \/ ScanBtn \/ PopupCancel \/ DiscoverCb
           \/ Deactivated \/ Activated \/ UNCHANGED vars
           \/ \E p \in Peer : OtherConnect(p)
  BY <1>1, <1>9
  DEF RealizeButton, BackBtn, ScanBtn, PopupCancel, DiscoverCb, Deactivated, Activated,
      OtherConnect, vars
<1>10. QED
  BY <1>2, <1>3, <1>4, <1>5, <1>6, <1>7, <1>8, <1>9
  DEF Next, Timer, User, Daemon, Answer

\* The engine implements the interface WfdPeers is built on: a start in any mode, turns,
\* resets, cancels and what the daemon's events do to an entry are all that happens to
\* the session, for every number of devices.
THEOREM EngineImplementsSelection == Spec => ImplementsSelection
<1>1. Init => Selection!Init
  BY DEF Init, Selection!Init, Seen, NONE, OUT
<1>2. QED
  BY <1>1, StepSelects, TypeCorrect, PTL DEF Spec, ImplementsSelection, Selection!Spec
=============================================================================
