------------------------- MODULE WfdPopupApp_proofs -------------------------
(***************************************************************************)
(* Proofs about WfdPopupApp: its invariants for every set of peers, every  *)
(* length of their names and any number of progress timers left running.   *)
(* The invariant is the conjunction of the properties; each action is      *)
(* shown to keep, one after the other, the types, the popup's object       *)
(* (PopupOpen), the count and the handle of the progress timer.            *)
(***************************************************************************)
EXTENDS WfdPopupApp, FiniteSetTheorems, TLAPS

-----------------------------------------------------------------------------
(* The helpers keep the types.                                             *)

LEMMA NoPopupType ==
    NoName \in Name /\ NoPopup \in [type : Approval \cup Progress \cup {"none", "turn_off"},
                                    name : Name, peer : Peer \cup {NoPeer}]
BY DEF NoName, NoPopup, Name

\* A group has at most all peers, and the count of it is a number.
LEMMA GroupCount ==
    ASSUME NEW S \in SUBSET Peer
    PROVE  Cardinality(S) \in 0..Cardinality(Peer)
<1>1. IsFiniteSet(S) /\ Cardinality(S) <= Cardinality(Peer)
  BY PeerAssumption, FS_Subset
<1>2. Cardinality(S) \in Nat /\ Cardinality(Peer) \in Nat
  BY <1>1, PeerAssumption, FS_CardinalityType
<1>3. QED
  BY <1>1, <1>2

LEMMA NotificationType ==
    ASSUME NEW S \in SUBSET Peer, AddNotification(S)
    PROVE  noti' \subseteq 0..Cardinality(Peer)
<1>1. Cardinality(S) \in 0..Cardinality(Peer) /\ 0 \in 0..Cardinality(Peer)
  BY GroupCount
<1>2. QED
  BY <1>1 DEF AddNotification

LEMMA NamePeerType ==
    ASSUME TypeOK, NEW p \in Peer, NamePeer(p)
    PROVE  peer_mac' \in Peer /\ peer_name' \in Name
<1>1. peer_name \in Name /\ NameLen[p] \in Nat /\ MacLen \in Nat
  BY NameLenAssumption, MacLenAssumption DEF TypeOK
<1>2. \A text \in {"ssid", "mac"}, len \in Nat : Overwrite(peer_name, p, text, len) \in Name
  BY <1>1 DEF Overwrite, Name
<1>3. QED
  BY <1>1, <1>2 DEF NamePeer

LEMMA PreparePopupType ==
    ASSUME TypeOK, NEW type \in Approval \cup Progress \cup {"none", "turn_off"},
           NEW name \in Name, NEW p \in Peer \cup {NoPeer}, PreparePopup(type, name, p)
    PROVE  /\ popup' \in [type : Approval \cup Progress \cup {"none", "turn_off"},
                          name : Name, peer : Peer \cup {NoPeer}]
           /\ pb_timer' \in {"null", "live", "stale"}
           /\ leaked' \in 0..MaxLeaked
           /\ popup'.type = type /\ popup'.peer = p
           /\ type = "display" => pb_timer' = "live"
<1>1. /\ popup' = [type |-> type, name |-> name, peer |-> p]
      /\ \/ type # "display" /\ UNCHANGED <<pb_timer, leaked>>
         \/ pb_timer' = "live" /\ leaked' = leaked
         \/ pb_timer' = "live" /\ leaked < MaxLeaked /\ leaked' = leaked + 1
  BY DEF PreparePopup
<1>2. leaked' \in 0..MaxLeaked
  BY <1>1, MaxLeakedAssumption DEF TypeOK
<1>3. QED
  BY <1>1, <1>2 DEF TypeOK

-----------------------------------------------------------------------------
(* The events of the daemon.                                               *)

\* What an event must keep of the invariant but for OneStage, shown for all at once.
PopupInv == TypeOK /\ PopupOpen /\ CountsConnected /\ ProgressHasHandle

LEMMA ConnectionRspKeeps ==
    ASSUME IInv, NEW p \in Peer, NEW ok \in BOOLEAN, ConnectionRsp(p, ok)
    PROVE  PopupInv'
<1> USE DEF IInv, PopupInv
<1>1. peer_mac' \in Peer /\ peer_name' \in Name
  BY NamePeerType DEF ConnectionRsp
<1>2. popup' = NoPopup /\ UNCHANGED <<pb_timer, leaked, app, discovered, pin, auto>>
  BY DEF ConnectionRsp, DestroyPopup, KeepProgress
<1>3. asking' \subseteq Peer /\ linking' \subseteq Peer /\ joined' \subseteq Peer
  BY DEF ConnectionRsp, TypeOK
<1>4. noti' \subseteq 0..Cardinality(Peer)
  BY <1>3, NotificationType DEF ConnectionRsp, TypeOK
<1>5. missed' \in BOOLEAN
  BY DEF ConnectionRsp
<1>6. TypeOK'
  BY <1>1, <1>2, <1>3, <1>4, <1>5, NoPopupType DEF TypeOK
<1>7. PopupOpen' /\ ProgressHasHandle'
  BY <1>2 DEF PopupOpen, ProgressHasHandle, NoPopup, Approval, Progress
<1>8. CountsConnected'
  <2>1. CASE ok
    BY <2>1 DEF ConnectionRsp, AddNotification, CountsConnected
  <2>2. CASE ~ok
    BY <2>2 DEF ConnectionRsp, CountsConnected, TypeOK
  <2>3. QED
    BY <2>1, <2>2
<1>9. QED
  BY <1>6, <1>7, <1>8

LEMMA WpsReqKeeps ==
    ASSUME IInv, NEW p \in Peer, WpsReq(p)
    PROVE  PopupInv'
<1> USE DEF IInv, PopupInv
<1>1. /\ UNCHANGED <<discovered, noti, app, asking, linking, joined, auto, missed>>
      /\ p \in linking
  BY DEF WpsReq, daemon
<1>2. peer_mac' \in Peer /\ peer_name' \in Name
  BY NamePeerType DEF WpsReq
<1>3. CASE UNCHANGED <<popup, pin, pb_timer, leaked>>
  <2>1. TypeOK'
    BY <1>1, <1>2, <1>3 DEF TypeOK
  <2>2. QED
    BY <1>1, <1>3, <2>1 DEF PopupOpen, CountsConnected, ProgressHasHandle
<1>4. CASE /\ pin' \in [len : {"short", "legal"}, typed : BOOLEAN]
           /\ \E type \in Progress : PreparePopup(type, peer_name', p)
  <2>1. PICK type \in Progress : PreparePopup(type, peer_name', p)
    BY <1>4
  <2>2. /\ popup' \in [type : Approval \cup Progress \cup {"none", "turn_off"},
                       name : Name, peer : Peer \cup {NoPeer}]
        /\ pb_timer' \in {"null", "live", "stale"}
        /\ leaked' \in 0..MaxLeaked
        /\ popup'.type = type /\ popup'.peer = p
    BY <1>2, <2>1, PreparePopupType
  <2>3. TypeOK'
    BY <1>1, <1>2, <1>4, <2>2 DEF TypeOK
  <2>4. QED
    BY <1>1, <2>2, <2>3
    DEF PopupOpen, CountsConnected, ProgressHasHandle, Approval, Progress
<1>5. pin.len \in {"short", "legal"}
  BY DEF TypeOK
<1>6. [pin EXCEPT !.typed = FALSE] \in [len : {"short", "legal"}, typed : BOOLEAN]
  BY <1>5 DEF TypeOK
<1>7. \/ UNCHANGED <<popup, pin, pb_timer, leaked>>
      \/ /\ pin' \in {[len |-> "legal", typed |-> FALSE], [pin EXCEPT !.typed = FALSE]}
         /\ PreparePopup("with_pin", peer_name', p)
            \/ PreparePopup("with_keypad", peer_name', p)
  BY DEF WpsReq
<1>8. [len |-> "legal", typed |-> FALSE] \in [len : {"short", "legal"}, typed : BOOLEAN]
  OBVIOUS
<1>9. QED
  BY <1>3, <1>4, <1>6, <1>7, <1>8 DEF Progress

LEMMA ConnectionReqKeeps ==
    ASSUME IInv, NEW p \in Peer, ConnectionReq(p)
    PROVE  PopupInv'
<1> USE DEF IInv, PopupInv
<1>1. UNCHANGED <<discovered, noti, app, joined, auto, missed>>
  BY DEF ConnectionReq
<1>2. peer_mac' \in Peer /\ peer_name' \in Name
  BY NamePeerType DEF ConnectionReq
<1>3. CountsConnected'
  BY <1>1 DEF CountsConnected
<1>4. CASE auto
  <2>1. /\ UNCHANGED <<popup, pin, pb_timer, leaked>>
        /\ asking \subseteq asking' /\ linking \subseteq linking'
        /\ asking' \subseteq Peer /\ linking' \subseteq Peer
    BY <1>4 DEF ConnectionReq, TypeOK
  <2>2. TypeOK'
    BY <1>1, <1>2, <2>1 DEF TypeOK
  <2>3. QED
    BY <1>1, <1>3, <2>1, <2>2 DEF PopupOpen, ProgressHasHandle
<1>5. CASE ~auto /\ UNCHANGED <<popup, pin, pb_timer, leaked>>
  <2>1. asking' = asking \cup {p} /\ linking' = linking
    BY <1>5 DEF ConnectionReq
  <2>2. TypeOK'
    BY <1>1, <1>2, <1>5, <2>1 DEF TypeOK
  <2>3. QED
    BY <1>1, <1>3, <1>5, <2>1, <2>2 DEF PopupOpen, ProgressHasHandle
<1>6. CASE /\ ~auto
           /\ pin' = [pin EXCEPT !.typed = FALSE]
           /\ \E type \in Approval : PreparePopup(type, peer_name', p)
  <2>1. PICK type \in Approval : PreparePopup(type, peer_name', p)
    BY <1>6
  <2>2. /\ popup' \in [type : Approval \cup Progress \cup {"none", "turn_off"},
                       name : Name, peer : Peer \cup {NoPeer}]
        /\ pb_timer' \in {"null", "live", "stale"}
        /\ leaked' \in 0..MaxLeaked
        /\ popup'.type = type /\ popup'.peer = p
        /\ type = "display" => pb_timer' = "live"
    BY <1>2, <2>1, PreparePopupType
  <2>3. /\ asking' = asking \cup {p} /\ linking' = linking
        /\ pin' \in [len : {"short", "legal"}, typed : BOOLEAN]
    BY <1>6 DEF ConnectionReq, TypeOK
  <2>4. TypeOK'
    BY <1>1, <1>2, <2>2, <2>3 DEF TypeOK
  <2>5. QED
    BY <1>1, <1>3, <2>2, <2>3, <2>4
    DEF PopupOpen, ProgressHasHandle, Approval, Progress
<1>7. QED
  BY <1>4, <1>5, <1>6 DEF ConnectionReq

LEMMA DisconnectionKeeps ==
    ASSUME IInv, NEW p \in Peer, DisconnectionInd(p) \/ DisconnectionRsp(p)
    PROVE  PopupInv'
<1> USE DEF IInv, PopupInv
<1>1. peer_mac' \in Peer /\ peer_name' \in Name
  BY NamePeerType DEF DisconnectionInd, DisconnectionRsp
<1>2. /\ UNCHANGED <<discovered, pin, pb_timer, leaked, app>>
      /\ asking' \subseteq Peer /\ linking' \subseteq Peer /\ joined' \subseteq Peer
      /\ noti' \subseteq noti /\ auto' \in BOOLEAN
      /\ missed' = (missed \/ noti' # {})
  BY DEF DisconnectionInd, DisconnectionRsp, KeepProgress, DeleteNotification, AutoOff,
         TypeOK
<1>3. \/ popup' = NoPopup
      \/ UNCHANGED <<popup, asking, linking>>
  BY DEF DisconnectionInd, DisconnectionRsp, DestroyPopup
<1>4. TypeOK'
  BY <1>1, <1>2, <1>3, NoPopupType DEF TypeOK
<1>5. PopupOpen' /\ ProgressHasHandle'
  BY <1>2, <1>3 DEF PopupOpen, ProgressHasHandle, NoPopup, Approval, Progress
<1>6. CountsConnected'
  BY <1>2 DEF CountsConnected
<1>7. QED
  BY <1>4, <1>5, <1>6

\* The two events that change no more than the daemon's sets, and the rest of the
\* callbacks that leave popup and notification alone.
LEMMA BystanderKeeps ==
    ASSUME IInv,
           \/ \E p \in Peer : Disassociation(p) \/ InProgress(p)
           \/ CbDiscover \/ TypePin \/ SetAuto
    PROVE  PopupInv'
<1> USE DEF IInv, PopupInv
<1>1. /\ UNCHANGED <<popup, leaked, noti, app, pb_timer>>
      /\ asking' = asking /\ linking \subseteq linking' /\ linking' \subseteq Peer
      /\ missed' \in BOOLEAN /\ (~missed' => ~missed /\ joined' = joined)
      /\ joined' \subseteq Peer
  BY DEF Disassociation, InProgress, CbDiscover, TypePin, SetAuto, daemon, TypeOK
<1>2. /\ discovered' \subseteq Peer /\ auto' \in BOOLEAN
      /\ pin' \in [len : {"short", "legal"}, typed : BOOLEAN]
  BY DEF Disassociation, InProgress, CbDiscover, TypePin, SetAuto, TypeOK
<1>3. peer_mac' \in Peer \cup {NoPeer} /\ peer_name' \in Name
  BY NamePeerType DEF Disassociation, InProgress, CbDiscover, TypePin, SetAuto, TypeOK
<1>4. TypeOK'
  BY <1>1, <1>2, <1>3 DEF TypeOK
<1>5. QED
  BY <1>1, <1>4 DEF PopupOpen, CountsConnected, ProgressHasHandle

-----------------------------------------------------------------------------
(* The end of the application, its timers and the user's answers.          *)

LEMMA EndKeeps ==
    ASSUME IInv, CbDeactivated \/ WinDel \/ AppTerminate
    PROVE  PopupInv'
<1> USE DEF IInv, PopupInv
<1>1. /\ UNCHANGED <<peer_mac, peer_name, pin, pb_timer, leaked, auto, missed>>
      /\ app' \in {"exiting", "down"}
      /\ popup' \in {popup, NoPopup} /\ discovered' \in {discovered, {}}
      /\ noti' \subseteq noti
      /\ asking' \subseteq Peer /\ linking' \subseteq Peer /\ joined' \subseteq Peer
  BY DEF CbDeactivated, WinDel, AppTerminate, DestroyPopup, DeleteNotification, daemon, TypeOK
<1>2. TypeOK'
  BY <1>1, NoPopupType DEF TypeOK
<1>3. PopupOpen' /\ CountsConnected'
  BY <1>1 DEF PopupOpen, CountsConnected
<1>4. ProgressHasHandle'
  BY <1>1 DEF ProgressHasHandle, NoPopup
<1>5. QED
  BY <1>2, <1>3, <1>4

LEMMA TimerKeeps ==
    ASSUME IInv, TurnOffOffer \/ ProgressEnds
    PROVE  PopupInv'
<1> USE DEF IInv, PopupInv
<1>1. /\ UNCHANGED <<peer_mac, peer_name, discovered, pin, noti, app, asking, linking,
                     joined, auto, missed>>
  BY DEF TurnOffOffer, ProgressEnds, daemon
<1>2. CASE ProgressEnds
  <2>1. pb_timer' = "stale" /\ UNCHANGED <<popup, leaked>>
    BY <1>2 DEF ProgressEnds
  <2>2. TypeOK'
    BY <1>1, <2>1 DEF TypeOK
  <2>3. QED
    BY <1>1, <2>1, <2>2 DEF PopupOpen, CountsConnected, ProgressHasHandle
<1>3. CASE TurnOffOffer
  <2>1. PreparePopup("turn_off", NoName, NoPeer)
    BY <1>3 DEF TurnOffOffer
  <2>2. /\ popup' \in [type : Approval \cup Progress \cup {"none", "turn_off"},
                       name : Name, peer : Peer \cup {NoPeer}]
        /\ pb_timer' \in {"null", "live", "stale"}
        /\ leaked' \in 0..MaxLeaked
        /\ popup'.type = "turn_off"
    BY <2>1, NoPopupType, PreparePopupType
  <2>3. TypeOK'
    BY <1>1, <2>2 DEF TypeOK
  <2>4. QED
    BY <1>1, <2>2, <2>3
    DEF PopupOpen, CountsConnected, ProgressHasHandle, Approval, Progress
<1>4. QED
  BY <1>2, <1>3

\* What an answer may do to the popup: it goes, it stays with a daemon untouched, the
\* keypad is drawn again, or it becomes the progress popup of the accepted peer.
LEMMA RespondKeeps ==
    ASSUME IInv, Respond
    PROVE  PopupInv'
<1> USE DEF IInv, PopupInv
<1>1. UNCHANGED <<peer_mac, peer_name, discovered, noti, app, auto, missed>>
  BY DEF Respond
<1>2. /\ asking' \subseteq Peer /\ linking' \subseteq Peer /\ joined' = joined
  <2>1. Accept => asking' \subseteq Peer /\ linking' \subseteq Peer /\ joined' = joined
    BY DEF Accept, Accepted, daemon, TypeOK
  <2>2. Accepted => Accept
    BY DEF Accept
  <2>3. Disconnect => asking' \subseteq Peer /\ linking' \subseteq Peer /\ joined' = joined
    BY DEF Disconnect, TypeOK
  <2>4. UNCHANGED daemon => Accept
    BY DEF Accept
  <2>5. QED
    BY <2>1, <2>2, <2>3, <2>4
    DEF Respond, PushButtonYes, DisplayYes, KeypadOk, No, ProgressCancel, TurnOffOk
<1>3. CountsConnected'
  BY <1>1, <1>2 DEF CountsConnected
<1>4. pin' \in [len : {"short", "legal"}, typed : BOOLEAN]
  <2>1. [pin EXCEPT !.typed = FALSE] \in [len : {"short", "legal"}, typed : BOOLEAN]
    BY DEF TypeOK
  <2>2. [len |-> "legal", typed |-> FALSE] \in [len : {"short", "legal"}, typed : BOOLEAN]
    OBVIOUS
  <2>3. pin' \in {pin, [pin EXCEPT !.typed = FALSE], [len |-> "legal", typed |-> FALSE]}
    BY DEF Respond, PushButtonYes, DisplayYes, KeypadOk, No, ProgressCancel, TurnOffOk
  <2>4. QED
    BY <2>1, <2>2, <2>3 DEF TypeOK
<1>5. CASE popup' = NoPopup /\ pb_timer' \in {pb_timer, "null"} /\ leaked' = leaked
  <2>1. TypeOK'
    BY <1>1, <1>2, <1>4, <1>5, NoPopupType DEF TypeOK
  <2>2. QED
    BY <1>3, <1>5, <2>1
    DEF PopupOpen, ProgressHasHandle, NoPopup, Approval, Progress
<1>6. CASE UNCHANGED <<popup, pb_timer, leaked, daemon>>
  <2>1. TypeOK'
    BY <1>1, <1>4, <1>6 DEF TypeOK, daemon
  <2>2. QED
    BY <1>1, <1>3, <1>6, <2>1 DEF PopupOpen, ProgressHasHandle, daemon
<1>7. CASE /\ popup.type \in {"keypad", "with_keypad"}
           /\ PreparePopup(popup.type, peer_name, popup.peer)
           /\ UNCHANGED daemon
  <2>1. popup.type \in Approval \cup Progress /\ popup.peer \in Peer \cup {NoPeer}
    BY <1>7 DEF Approval, Progress, TypeOK
  <2>2. peer_name \in Name
    BY DEF TypeOK
  <2>3. /\ popup' \in [type : Approval \cup Progress \cup {"none", "turn_off"},
                       name : Name, peer : Peer \cup {NoPeer}]
        /\ pb_timer' \in {"null", "live", "stale"}
        /\ leaked' \in 0..MaxLeaked
        /\ popup'.type = popup.type /\ popup'.peer = popup.peer
    BY <1>7, <2>1, <2>2, PreparePopupType
  <2>4. TypeOK'
    BY <1>1, <1>4, <1>7, <2>3 DEF TypeOK, daemon
  <2>5. QED
    BY <1>1, <1>3, <1>7, <2>3, <2>4 DEF PopupOpen, ProgressHasHandle, daemon
<1>8. CASE /\ popup' = [type |-> "with_pin", name |-> peer_name, peer |-> peer_mac]
           /\ StopProgress /\ Accepted
  <2>1. popup' \in [type : Approval \cup Progress \cup {"none", "turn_off"},
                    name : Name, peer : Peer \cup {NoPeer}]
    BY <1>8 DEF Progress, TypeOK
  <2>2. TypeOK'
    BY <1>1, <1>2, <1>4, <1>8, <2>1 DEF TypeOK, StopProgress
  <2>3. popup'.type = "with_pin" /\ popup'.peer = peer_mac /\ peer_mac \in linking'
    BY <1>8 DEF Accepted
  <2>4. QED
    BY <1>3, <2>2, <2>3 DEF PopupOpen, ProgressHasHandle, Approval, Progress
<1>9. QED
  BY <1>5, <1>6, <1>7, <1>8
  DEF Respond, PushButtonYes, DisplayYes, KeypadOk, No, ProgressCancel, TurnOffOk,
      DestroyPopup, StopProgress, KeepProgress

-----------------------------------------------------------------------------

LEMMA InitIInv == Init => IInv
<1> SUFFICES ASSUME Init PROVE IInv
  OBVIOUS
<1>1. Cardinality({}) = 0 /\ 0 \in 0..MaxLeaked
  BY FS_EmptySet, MaxLeakedAssumption
<1>2. TypeOK
  BY <1>1, NoPopupType DEF Init, TypeOK
<1>3. QED
  BY <1>2
  DEF Init, IInv, PopupOpen, CountsConnected, ProgressHasHandle, OneStage, NoPopup,
      Approval, Progress

LEMMA OneStageStep ==
    ASSUME OneStage, [Next]_vars PROVE OneStage'
<1> USE DEF OneStage
<1>1. ASSUME NEW p \in Peer,
             \/ \E ok \in BOOLEAN : ConnectionRsp(p, ok)
             \/ DisconnectionRsp(p)
      PROVE  OneStage'
  BY <1>1 DEF ConnectionRsp, DisconnectionRsp
<1>2. ASSUME NEW p \in Peer, ConnectionReq(p) PROVE OneStage'
  BY <1>2 DEF ConnectionReq
<1>3. ASSUME NEW p \in Peer, InProgress(p) PROVE OneStage'
  BY <1>3 DEF InProgress
<1>4. CASE CbDeactivated
  BY <1>4 DEF CbDeactivated
<1>5. CASE Respond
  <2>1. CASE Accepted
    BY <2>1 DEF Accepted
  <2>2. CASE UNCHANGED daemon
    BY <2>2 DEF daemon
  <2>3. CASE Disconnect
    BY <2>3 DEF Disconnect
  <2>4. QED
    BY <1>5, <2>1, <2>2, <2>3
    DEF Respond, PushButtonYes, DisplayYes, KeypadOk, No, ProgressCancel, TurnOffOk,
        Accept
<1>6. ASSUME UNCHANGED <<asking, linking>> PROVE OneStage'
  BY <1>6
<1>7. QED
  BY <1>1, <1>2, <1>3, <1>4, <1>5, <1>6
  DEF Next, WpsReq, DisconnectionInd, Disassociation, CbDiscover, AppTerminate,
      WinDel, TurnOffOffer, ProgressEnds, TypePin, SetAuto, daemon, vars

LEMMA StepIInv == IInv /\ [Next]_vars => IInv'
<1> SUFFICES ASSUME IInv, [Next]_vars PROVE PopupInv'
  BY OneStageStep DEF IInv, PopupInv
<1>1. CASE \E p \in Peer : \/ \E ok \in BOOLEAN : ConnectionRsp(p, ok)
                           \/ WpsReq(p) \/ ConnectionReq(p)
                           \/ DisconnectionInd(p) \/ DisconnectionRsp(p)
                           \/ Disassociation(p) \/ InProgress(p)
  BY <1>1, ConnectionRspKeeps, WpsReqKeeps, ConnectionReqKeeps, DisconnectionKeeps,
     BystanderKeeps
<1>2. CASE CbDiscover \/ TypePin \/ SetAuto
  BY <1>2, BystanderKeeps
<1>3. CASE CbDeactivated \/ WinDel \/ AppTerminate
  BY <1>3, EndKeeps
<1>4. CASE TurnOffOffer \/ ProgressEnds
  BY <1>4, TimerKeeps
<1>5. CASE Respond
  BY <1>5, RespondKeeps
<1>6. CASE UNCHANGED vars
  BY <1>6
  DEF vars, daemon, IInv, PopupInv, TypeOK, PopupOpen, CountsConnected,
      ProgressHasHandle
<1>7. QED
  BY <1>1, <1>2, <1>3, <1>4, <1>5, <1>6 DEF Next

\* The invariants of the popup application are inductive together.
THEOREM InductiveInvariant == Spec => []IInv
  BY InitIInv, StepIInv, PTL DEF Spec

\* Every variable stays in its type (TypeOK); in particular the notification never
\* counts more peers than there are.
THEOREM TypeCorrect == Spec => []TypeOK
<1>1. IInv => TypeOK
  BY DEF IInv
<1>2. QED
  BY InductiveInvariant, <1>1, PTL

\* No popup outlives the request or the connection it is about (PopupOpen), whatever
\* events of other peers destroy, replace or answer it (_cb_connection,
\* __popup_resp_cb).
THEOREM PopupsAreOpen == Spec => []PopupOpen
<1>1. IInv => PopupOpen
  BY DEF IInv
<1>2. QED
  BY InductiveInvariant, <1>1, PTL

\* The notification counts the peers in the group (CountsConnected;
\* _add_wfd_peers_connected_notification).
THEOREM NotificationCounts == Spec => []CountsConnected
<1>1. IInv => CountsConnected
  BY DEF IInv
<1>2. QED
  BY InductiveInvariant, <1>1, PTL

\* The progress bar's popup keeps the handle of a progress timer (ProgressHasHandle;
\* wfd_draw_pop_type_display).
THEOREM ProgressIsHandled == Spec => []ProgressHasHandle
<1>1. IInv => ProgressHasHandle
  BY DEF IInv
<1>2. QED
  BY InductiveInvariant, <1>1, PTL

\* Only an answer of the user makes a waiting request a connection.
LEMMA AcceptIsResponse ==
    ASSUME Next, OneStage, NEW p \in asking, p \in linking'
    PROVE  Respond /\ (PushButtonYes \/ DisplayYes \/ KeypadOk)
<1>1. p \notin linking
  BY DEF OneStage
<1>2. Respond
  BY <1>1 DEF Next, ConnectionRsp, WpsReq, ConnectionReq, DisconnectionInd, DisconnectionRsp,
         Disassociation, InProgress, CbDiscover, CbDeactivated, AppTerminate,
         WinDel, TurnOffOffer, ProgressEnds, TypePin, SetAuto, daemon
<1>3. QED
  BY <1>1, <1>2 DEF Respond, No, ProgressCancel, TurnOffOk, Disconnect, daemon

\* A request is accepted only by a press on a popup that is about a request still
\* waiting or a connection still being made (AcceptsLive; __popup_resp_cb,
\* wifi_direct_accept_connection).
THEOREM AcceptedLive == Spec => AcceptsLive
<1> DEFINE Live == \A p \in Peer : p \in asking /\ p \in linking'
                      => popup.peer \in asking \cup linking
<1>1. IInv /\ [Next]_vars => [Live]_vars
  <2> SUFFICES ASSUME IInv, Next, NEW p \in Peer, p \in asking, p \in linking'
               PROVE  popup.peer \in asking \cup linking
    OBVIOUS
  <2>1. Respond /\ (PushButtonYes \/ DisplayYes \/ KeypadOk)
    BY AcceptIsResponse DEF IInv
  <2>2. app = "up" /\ popup.type \in Approval \cup Progress
    BY <2>1 DEF Respond, PushButtonYes, DisplayYes, KeypadOk, Approval, Progress
  <2>3. QED
    BY <2>2 DEF IInv, PopupOpen
<1>2. QED
  BY InductiveInvariant, <1>1, PTL DEF Spec, AcceptsLive
=============================================================================
