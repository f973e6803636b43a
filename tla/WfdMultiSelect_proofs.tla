------------------------ MODULE WfdMultiSelect_proofs ------------------------
(***************************************************************************)
(* Proofs about WfdMultiSelect, for every set of peers and any number of   *)
(* slots.                                                                  *)
(***************************************************************************)
EXTENDS WfdMultiSelect, TLAPS

\* What the daemon lists fits into the array.
LEMMA ReportsType ==
    ASSUME NEW r \in Reports
    PROVE  r \in Seq(Peer) /\ Len(r) \in 0..MaxPeers
<1>1. PICK n \in 0..MaxPeers : r \in [1..n -> Peer]
  BY DEF Reports
<1>2. n \in Nat /\ r \in Seq(Peer) /\ Len(r) = n
  BY <1>1, MaxPeersAssumption
<1>3. QED
  BY <1>1, <1>2

\* A recount leaves everything but the count of the main view.
LEMMA RecountType ==
    ASSUME NEW r \in Seq(Peer), UpdatePeers(r) PROVE available' \in 0..Len(r)
  BY DEF UpdatePeers

\* Ticks, boxes and the button as one: what ticking may disturb.
Marks == TicksAreMade /\ TickedCanConnect /\ ScreenTells

-----------------------------------------------------------------------------

\* Filling an open view, with the list r of at most as many devices as there are
\* slots, establishes everything about the array and its items.
LEMMA FillKeeps ==
    ASSUME IInv, NEW r \in Seq(Peer), Len(r) \in 0..MaxPeers, Fill(r),
           open' = TRUE, raw' = r, available' \in 0..Len(r), connect' \in BOOLEAN,
           ticked' = ticked, open => connect' = connect
    PROVE  IInv'
<1> USE DEF IInv, TypeOK
<1>1. /\ cnt' = Len(r) /\ Listed' = 1..Len(r) /\ Listed' \subseteq Slot
      /\ \A i \in Slot : i \in Listed' <=> i <= Len(r)
  BY MaxPeersAssumption DEF Fill, Listed, Slot
<1>2. \A i \in Listed' : dev'[i] = r[i] /\ r[i] \in Peer /\ sel'[i] = FALSE
  BY <1>1 DEF Fill, Unticked
<1>3. \A i \in Slot \ Listed' : dev'[i] = dev[i] /\ sel'[i] = sel[i]
  BY <1>1 DEF Fill, Unticked
<1>4. \A i \in Slot : item'[i] = IF i \in Listed' THEN "live" ELSE "null"
  BY <1>1 DEF Fill, Freed, PointersAreListed
<1>5. /\ all' \in {"null", "live"} /\ allBox' = "none" /\ fresh' = TRUE
      /\ box' = [i \in Slot |-> "none"]
  BY DEF Fill
<1>6. TypeOK'
  <2>1. dev' \in [Slot -> Peer \cup {NoPeer}] /\ sel' \in [Slot -> BOOLEAN]
    BY <1>1, <1>2, <1>3 DEF Fill, Unticked
  <2>2. item' \in [Slot -> Pointer] /\ box' \in [Slot -> Box]
    BY <1>4, <1>5 DEF Fill, Pointer, Box
  <2>3. QED
    BY <1>1, <1>5, <2>1, <2>2 DEF Pointer, Box
<1>7. ListedAreDevices'
  BY <1>2 DEF ListedAreDevices
<1>8. PointersAreListed'
  BY <1>4 DEF PointersAreListed
<1>9. TicksAreMade'
  BY <1>1, <1>2, <1>3 DEF TicksAreMade
<1>10. FreshIsRaw'
  BY <1>1, <1>2 DEF FreshIsRaw
<1>11. TickedCanConnect' /\ ScreenTells'
  BY <1>1, <1>2, <1>5 DEF TickedCanConnect, ScreenTells
<1>12. QED
  BY <1>6, <1>7, <1>8, <1>9, <1>10, <1>11

\* Leaving the view makes exactly the pointers to its items stale.
LEMMA PopKeeps ==
    ASSUME IInv, open, PopView, UNCHANGED <<raw, array, ticked, fresh>>,
           available' \in 0..Len(raw)
    PROVE  IInv'
<1> USE DEF IInv, TypeOK
<1>1. Listed' = Listed /\ Listed \subseteq Slot
  BY MaxPeersAssumption DEF array, Listed, Slot
<1>2. TypeOK'
  BY DEF PopView, array, Pointer, Box
<1>3. PointersAreListed'
  BY <1>1 DEF PopView, PointersAreListed
<1>4. ListedAreDevices' /\ TicksAreMade'
  BY <1>1 DEF array, ListedAreDevices, TicksAreMade
<1>5. FreshIsRaw' /\ TickedCanConnect' /\ ScreenTells'
  BY <1>1 DEF PopView, FreshIsRaw, TickedCanConnect, ScreenTells
<1>6. QED
  BY <1>2, <1>3, <1>4, <1>5

\* Ticking moves neither devices nor items.
LEMMA TickKeeps ==
    ASSUME IInv, UNCHANGED <<lists, open, cnt, dev, items, fresh>>,
           sel' \in [Slot -> BOOLEAN], box' \in [Slot -> Box], allBox' \in Box,
           connect' \in BOOLEAN, ticked' \subseteq Peer, Marks'
    PROVE  IInv'
<1> USE DEF IInv, TypeOK
<1>1. Listed' = Listed
  BY DEF Listed
<1>2. TypeOK'
  BY DEF lists, items
<1>3. ListedAreDevices' /\ PointersAreListed' /\ FreshIsRaw'
  BY <1>1 DEF lists, items, ListedAreDevices, PointersAreListed, FreshIsRaw
<1>4. QED
  BY <1>2, <1>3 DEF Marks

LEMMA SetType ==
    ASSUME NEW b \in Box, NEW on \in BOOLEAN
    PROVE  /\ Set(b, on) \in Box /\ Toggled(b) \in Box
           /\ Set(b, on) = "on" => on
           /\ Toggled(b) = "on" <=> b # "on"
  BY DEF Set, Toggled, Box

LEMMA TapDeviceKeeps ==
    ASSUME IInv, NEW i \in Slot, TapDevice(i) PROVE IInv'
<1> USE DEF IInv, TypeOK
<1>1. /\ i \in Listed /\ Listed' = Listed /\ Listed \subseteq Slot
      /\ dev' = dev /\ open' = open
  BY MaxPeersAssumption DEF TapDevice, Listed, Slot
<1>2. /\ box' = [box EXCEPT ![i] = Toggled(box[i])]
      /\ sel' = [sel EXCEPT ![i] = (Toggled(box[i]) = "on")]
  BY DEF TapDevice
<1>3. sel' \in [Slot -> BOOLEAN] /\ box' \in [Slot -> Box]
  BY <1>2, SetType
<1>4. /\ allBox' = Set(allBox, \A j \in Listed : sel'[j])
      /\ connect' = \E j \in Listed : sel'[j]
  BY DEF TapDevice, Sums
<1>5. allBox' \in Box /\ connect' \in BOOLEAN
  BY <1>4, SetType
<1>6. ticked' = IF sel'[i] THEN ticked \cup {dev[i]} ELSE ticked
  BY DEF TapDevice
<1>7. ticked' \subseteq Peer
  BY <1>1, <1>6 DEF ListedAreDevices
<1>8. TicksAreMade'
  BY <1>1, <1>2, <1>6 DEF TicksAreMade
<1>9. TickedCanConnect'
  BY <1>1, <1>4 DEF TickedCanConnect
<1>10. ScreenTells'
  <2>1. \A j \in Listed : box'[j] = "on" => sel'[j]
    BY <1>1, <1>2 DEF ScreenTells
  <2>2. allBox' = "on" => \A j \in Listed : sel'[j]
    BY <1>4, SetType
  <2>3. QED
    BY <1>1, <2>1, <2>2 DEF ScreenTells
<1>11. QED
  BY <1>3, <1>5, <1>7, <1>8, <1>9, <1>10, TickKeeps DEF TapDevice, Marks

LEMMA SelectAllKeeps ==
    ASSUME IInv, SelectAll PROVE IInv'
<1> USE DEF IInv, TypeOK
<1>1. Listed' = Listed /\ Listed \subseteq Slot /\ dev' = dev /\ open' = open
  BY MaxPeersAssumption DEF SelectAll, Listed, Slot
<1> DEFINE on == allBox' = "on"
<1>2. /\ allBox' = Toggled(allBox)
      /\ sel' = [i \in Slot |-> IF i \in Listed THEN on ELSE sel[i]]
      /\ box' = [i \in Slot |-> IF i \in Listed THEN Set(box[i], on) ELSE box[i]]
      /\ connect' = on
      /\ ticked' = IF on THEN ticked \cup {dev[i] : i \in Listed} ELSE ticked
  BY DEF SelectAll
<1> HIDE DEF on
<1>3. on \in BOOLEAN /\ (allBox' = "on" <=> on)
  BY DEF on
<1>4. /\ sel' \in [Slot -> BOOLEAN] /\ box' \in [Slot -> Box] /\ allBox' \in Box
      /\ connect' \in BOOLEAN
  BY <1>2, <1>3, SetType
<1>5. ticked' \subseteq Peer
  BY <1>1, <1>2 DEF ListedAreDevices
<1>6. TicksAreMade'
  BY <1>1, <1>2, <1>3 DEF TicksAreMade
<1>7. TickedCanConnect'
  BY <1>1, <1>2, <1>3 DEF TickedCanConnect
<1>8. ScreenTells'
  BY <1>1, <1>2, <1>3, SetType DEF ScreenTells
<1>9. QED
  BY <1>4, <1>5, <1>6, <1>7, <1>8, TickKeeps DEF SelectAll, Marks

LEMMA ScrollKeeps ==
    ASSUME IInv, Scroll PROVE IInv'
<1> USE DEF IInv, TypeOK
<1>1. Listed' = Listed /\ Listed \subseteq Slot /\ UNCHANGED <<dev, sel, open, ticked, connect>>
  BY MaxPeersAssumption DEF Scroll, Listed, Slot, array
<1>2. box' \in [Slot -> Box] /\ allBox' \in Box
  BY DEF Scroll, Box
<1>3. /\ \A i \in Slot : box'[i] = "on" => box[i] = "on"
      /\ allBox' = "on" => allBox = "on"
  BY <1>1 DEF Scroll
<1>4. Marks'
  BY <1>1, <1>3 DEF Marks, TicksAreMade, TickedCanConnect, ScreenTells
<1>5. QED
  BY <1>2, <1>4, <1>1, TickKeeps DEF Scroll, array

\* A new raw list beside an unchanged view, which is not fresh any more.
LEMMA CopyKeeps ==
    ASSUME IInv, GetDiscovered, UNCHANGED <<open, array, items, screen, ticked>>,
           fresh' = FALSE
    PROVE  IInv'
<1> USE DEF IInv, TypeOK
<1>1. raw' \in Seq(Peer) /\ Len(raw') \in 0..MaxPeers /\ available' \in 0..Len(raw')
  BY ReportsType DEF GetDiscovered, UpdatePeers
<1>2. Listed' = Listed
  BY DEF array, Listed
<1>3. Len(raw') <= MaxPeers
  BY <1>1, MaxPeersAssumption
<1>4. UNCHANGED <<open, cnt, dev, sel, item, all, box, allBox, connect, ticked>>
  BY DEF array, items, screen
<1>5. TypeOK'
  BY <1>1, <1>3, <1>4
<1>6. QED
  BY <1>2, <1>5
  DEF array, items, screen, ListedAreDevices, PointersAreListed, TicksAreMade,
      FreshIsRaw, TickedCanConnect, ScreenTells

\* A step that changes no more than the main view's count
LEMMA RecountKeeps ==
    ASSUME IInv, available' \in 0..Len(raw),
           UNCHANGED <<raw, open, array, items, screen, ticked, fresh>>
    PROVE  IInv'
<1> USE DEF IInv, TypeOK
<1>1. Listed' = Listed
  BY DEF array, Listed
<1>2. QED
  BY <1>1
  DEF array, items, screen, ListedAreDevices, PointersAreListed, TicksAreMade,
      FreshIsRaw, TickedCanConnect, ScreenTells

-----------------------------------------------------------------------------

LEMMA InitIInv == Init => IInv
<1> SUFFICES ASSUME Init PROVE IInv
  OBVIOUS
<1>1. Listed = {}
  BY DEF Init, Listed
<1>2. raw \in Seq(Peer) /\ Len(raw) = 0
  BY DEF Init
<1>3. /\ dev \in [Slot -> Peer \cup {NoPeer}] /\ sel \in [Slot -> BOOLEAN]
      /\ item \in [Slot -> Pointer] /\ box \in [Slot -> Box]
  BY DEF Init, Pointer, Box
<1>4. Len(raw) <= MaxPeers /\ available \in 0..Len(raw) /\ cnt \in 0..MaxPeers
  BY <1>2, MaxPeersAssumption DEF Init
<1>5. TypeOK
  BY <1>2, <1>3, <1>4 DEF Init, TypeOK, Pointer, Box
<1>6. QED
  BY <1>1, <1>5
  DEF Init, IInv, ListedAreDevices, PointersAreListed, TicksAreMade, FreshIsRaw,
      TickedCanConnect, ScreenTells

LEMMA StepIInv == IInv /\ [Next]_vars => IInv'
<1> SUFFICES ASSUME IInv, [Next]_vars PROVE IInv'
  OBVIOUS
<1>0. /\ raw \in Seq(Peer) /\ Len(raw) \in 0..MaxPeers /\ available \in 0..Len(raw)
      /\ connect \in BOOLEAN
  BY MaxPeersAssumption DEF IInv, TypeOK
<1>1. CASE OpenView
  BY <1>0, <1>1, FillKeeps DEF OpenView, lists
<1>2. CASE BackBtn
  BY <1>0, <1>2, PopKeeps DEF BackBtn, lists
<1>3. CASE ConnectBtn
  BY <1>0, <1>3, PopKeeps DEF ConnectBtn, UpdatePeers
<1>4. CASE \E i \in Slot : TapDevice(i)
  BY <1>4, TapDeviceKeeps
<1>5. CASE SelectAll
  BY <1>5, SelectAllKeeps
<1>6. CASE Scroll
  BY <1>6, ScrollKeeps
<1>7. CASE DiscoverCb
  <2>1. CASE open /\ Fill(raw')
    BY <1>0, <1>7, <2>1, FillKeeps, ReportsType DEF DiscoverCb, GetDiscovered, UpdatePeers, IInv, TypeOK
  <2>2. CASE ~open /\ fresh' = FALSE /\ UNCHANGED <<array, items, box, allBox>>
    BY <1>7, <2>2, CopyKeeps DEF DiscoverCb, screen
  <2>3. QED
    BY <1>7, <2>1, <2>2 DEF DiscoverCb
<1>8. CASE CopyPeers
  BY <1>8, CopyKeeps DEF CopyPeers
<1>9. CASE Recount
  BY <1>9, RecountKeeps DEF Recount, UpdatePeers
<1>10. CASE UNCHANGED vars
  BY <1>0, <1>10, RecountKeeps DEF vars, lists
<1>11. QED
  BY <1>1, <1>2, <1>3, <1>4, <1>5, <1>6, <1>7, <1>8, <1>9, <1>10 DEF Next

\* The inductive invariant of the view: types, listed devices, pointers, ticks and
\* the screen.
THEOREM InductiveInvariant == Spec => []IInv
  BY InitIInv, StepIInv, PTL DEF Spec

\* Every variable stays in its type (TypeOK); in particular the main view never
\* counts more devices than the raw list has.
THEOREM TypeCorrect == Spec => []TypeOK
<1>1. IInv => TypeOK
  BY DEF IInv
<1>2. QED
  BY InductiveInvariant, <1>1, PTL

\* While the view is open it holds no pointer to an item of a view that is gone
\* (ItemsAreFresh; _wfd_free_multiconnect_device before every fill).
THEOREM NoStaleItem == Spec => []ItemsAreFresh
<1>1. IInv => ItemsAreFresh
  BY DEF IInv, PointersAreListed, ItemsAreFresh
<1>2. QED
  BY InductiveInvariant, <1>1, PTL

\* A tick enables the Connect button (TickedCanConnect).
THEOREM TickEnables == Spec => []TickedCanConnect
<1>1. IInv => TickedCanConnect
  BY DEF IInv
<1>2. QED
  BY InductiveInvariant, <1>1, PTL

\* The screen shows no tick that the array does not have (ScreenTells).
THEOREM ScreenIsTrue == Spec => []ScreenTells
<1>1. IInv => ScreenTells
  BY DEF IInv
<1>2. QED
  BY InductiveInvariant, <1>1, PTL

\* Connect asks no device the user never ticked (AsksOnlyTicked; _connect_btn_cb).
THEOREM NobodyUnticked == Spec => []AsksOnlyTicked
<1>1. IInv => AsksOnlyTicked
  BY DEF IInv, TicksAreMade, AsksOnlyTicked, ToAsk
<1>2. QED
  BY InductiveInvariant, <1>1, PTL

\* Connect asks exactly the devices ticked on the screen while the view shows the raw
\* list and the main view counts all of it (AsksSelected).
THEOREM SelectionIsAsked == Spec => []AsksSelected
<1>1. IInv => AsksSelected
  BY MaxPeersAssumption
  DEF IInv, TypeOK, FreshIsRaw, AsksSelected, ToAsk, Listed, Slot
<1>2. QED
  BY InductiveInvariant, <1>1, PTL
=============================================================================
