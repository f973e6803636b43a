----------------------------- MODULE WfdSelection -----------------------------
(***************************************************************************)
(* The session of the multi-connect engine as the rest of the gadget sees  *)
(* it: multi_connect_mode, and the selected devices as far as the lists on *)
(* the screen tell them apart, OUT if not selected, CONNECTED, or OPEN     *)
(* whatever else they are.                                                 *)
(*                                                                         *)
(* It is the interface between two models.  WfdPeers, which has no queue   *)
(* and no popups, builds its steps of the session from these actions;      *)
(* WfdMultiConnect, which has them, is shown to take no others.  So        *)
(* nothing the engine does to the lists is missing from WfdPeers.          *)
(***************************************************************************)
CONSTANT Peer

VARIABLES mode, sel

vars == <<mode, sel>>

Selected == {p \in Peer : sel[p] # "OUT"}

\* _connect_btn_cb, in any mode: a timeout may have put a session in progress while
\* the view was open.  A discovery may have unticked everybody since.
Start(S) ==
    /\ mode' = IF S = {} THEN mode ELSE "IN_PROGRESS"
    /\ sel' = [p \in Peer |-> IF p \in S THEN "OPEN" ELSE "OUT"]

\* wfd_multi_connect_next_cb: it asks one more, or stops when all were asked.
Turn ==
    /\ Selected # {}
    /\ mode' \in {"IN_PROGRESS", "COMPLETED"}
    /\ UNCHANGED sel

\* __wfd_multi_connect_reset_cb
Reset ==
    /\ mode' = "NONE"
    /\ sel' = [p \in Peer |-> "OUT"]

\* The multi button during a session, and the OK of its popup
Cancel ==
    /\ mode = "IN_PROGRESS"
    /\ mode' \in {"NONE", "COMPLETED"}
    /\ UNCHANGED sel

\* _connection_cb finds p among the selected peers.
Finds(p) == mode # "NONE" /\ p \in Selected

\* WIFI_DIRECT_CONNECTION_RSP
Answered(p, ok) ==
    /\ Finds(p)
    /\ sel' = [sel EXCEPT ![p] = IF ok THEN "CONNECTED" ELSE "OPEN"]
    /\ UNCHANGED mode

\* A disconnection or the beginning of an attempt: while the session is in progress
\* it leaves the entry alone.
Reopened(p) ==
    /\ Finds(p) /\ mode # "IN_PROGRESS"
    /\ sel' = [sel EXCEPT ![p] = "OPEN"]
    /\ UNCHANGED mode

Init ==
    /\ mode = "NONE"
    /\ sel = [p \in Peer |-> "OUT"]

Next ==
    \/ \E S \in SUBSET Peer : Start(S)
    \/ Turn \/ Reset \/ Cancel
    \/ \E p \in Peer : Reopened(p) \/ \E ok \in BOOLEAN : Answered(p, ok)

Spec == Init /\ [][Next]_vars
=============================================================================
