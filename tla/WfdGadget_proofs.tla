--------------------------- MODULE WfdGadget_proofs ---------------------------
(***************************************************************************)
(* Proofs about WfdGadget, for any number of launches and of warnings on   *)
(* the screen.  The invariant follows the layouts: a gadget that has one   *)
(* has not been freed, only such a gadget owns timeouts and registrations, *)
(* and while the main loop runs it does not lose it.                       *)
(***************************************************************************)
EXTENDS WfdGadget, TLAPS

LEMMA NoUgIsNone == NoUg \notin Ug
BY MaxLoadsAssumption DEF NoUg, Ug

-----------------------------------------------------------------------------
(* The warnings of one gadget.                                             *)

LEMMA WarnPopupType ==
    ASSUME TypeOK, NEW g \in Ug, NEW type \in Warning, WarnPopup(g, type)
    PROVE  /\ popups' \in [Ug -> [Warning -> 0..MaxPopups]]
           /\ warn_popup' \in [Ug -> Warning \cup {"null"}]
           /\ popups'[g][type] = popups[g][type] + 1
           /\ \A t \in Warning : t # type => popups'[g][t] = popups[g][t]
           /\ warn_popup'[g] = type
           /\ \A h \in Ug : h # g => popups'[h] = popups[h] /\ warn_popup'[h] = warn_popup[h]
<1>1. /\ popups[g] \in [Warning -> 0..MaxPopups]
      /\ popups[g][type] \in 0..MaxPopups /\ popups[g][type] < MaxPopups
  BY DEF TypeOK, WarnPopup
<1>2. popups[g][type] + 1 \in 0..MaxPopups
  BY <1>1, MaxPopupsAssumption
<1>3. popups' = [popups EXCEPT ![g] = [popups[g] EXCEPT ![type] = popups[g][type] + 1]]
  BY DEF WarnPopup
<1>4. [popups[g] EXCEPT ![type] = popups[g][type] + 1] \in [Warning -> 0..MaxPopups]
  BY <1>1, <1>2
<1>5. QED
  BY <1>1, <1>3, <1>4 DEF TypeOK, WarnPopup

LEMMA DismissType ==
    ASSUME TypeOK, Pointers, NEW g \in Ug, Dismiss(g)
    PROVE  /\ popups' \in [Ug -> [Warning -> 0..MaxPopups]]
           /\ warn_popup' \in [Ug -> Warning \cup {"null"}]
           /\ warn_popup'[g] = "null"
           /\ \A t \in Warning : popups'[g][t] = IF t = warn_popup[g] THEN popups[g][t] - 1
                                                 ELSE popups[g][t]
           /\ \A h \in Ug : h # g => popups'[h] = popups[h] /\ warn_popup'[h] = warn_popup[h]
<1>1. warn_popup' \in [Ug -> Warning \cup {"null"}] /\ warn_popup'[g] = "null"
      /\ \A h \in Ug : h # g => warn_popup'[h] = warn_popup[h]
  BY DEF Dismiss, TypeOK
<1>2. CASE warn_popup[g] = "null"
  <2>1. popups' = popups
    BY <1>2 DEF Dismiss
  <2>2. QED
    BY <1>1, <1>2, <2>1 DEF TypeOK, Warning
<1>3. CASE warn_popup[g] # "null"
  <2> DEFINE w == warn_popup[g]
  <2>1. w \in Warning /\ popups[g] \in [Warning -> 0..MaxPopups]
    BY <1>3 DEF TypeOK
  <2>2. popups[g][w] \in 0..MaxPopups /\ popups[g][w] > 0
    BY <1>3, <2>1 DEF Pointers
  <2>3. popups[g][w] - 1 \in 0..MaxPopups
    BY <2>2, MaxPopupsAssumption
  <2>4. popups' = [popups EXCEPT ![g] = [popups[g] EXCEPT ![w] = popups[g][w] - 1]]
    BY <1>3 DEF Dismiss
  <2> HIDE DEF w
  <2>5. [popups[g] EXCEPT ![w] = popups[g][w] - 1] \in [Warning -> 0..MaxPopups]
    BY <2>1, <2>3
  <2>6. /\ popups' \in [Ug -> [Warning -> 0..MaxPopups]]
        /\ \A t \in Warning : popups'[g][t] = IF t = w THEN popups[g][t] - 1
                                              ELSE popups[g][t]
        /\ \A h \in Ug : h # g => popups'[h] = popups[h]
    BY <2>1, <2>4, <2>5 DEF TypeOK
  <2>7. QED
    BY <1>1, <2>6 DEF w
<1>4. QED
  BY <1>2, <1>3

\* A step that keeps the gadgets and their warnings.
LEMMA WarningsKeep ==
    ASSUME Pointers, UnusableAsksToEnd, UNCHANGED <<life, ready, base, warnings>>,
           loop' = "running" => loop = "running"
    PROVE  Pointers' /\ UnusableAsksToEnd'
BY DEF Pointers, UnusableAsksToEnd, warnings, Shown

-----------------------------------------------------------------------------
(* The steps.                                                              *)

\* Loading and a gadget that does not come up: no layout comes or goes.
LEMMA LoadKeeps ==
    ASSUME IInv, NEW g \in Ug, AppReset(g) \/ CreateFails(g)
    PROVE  IInv'
<1> USE DEF IInv
<1>1. /\ UNCHANGED <<base, ready, client, wifi_cb, failed, sources, popups, warn_popup, loop>>
      /\ life[g] \in {"none", "loaded"} /\ life'[g] \in {"loaded", "leaving"}
      /\ life' \in [Ug -> {"none", "loaded", "shown", "leaving", "gone"}]
      /\ \A h \in Ug : h # g => life'[h] = life[h]
  BY DEF AppReset, CreateFails, registered, warnings, TypeOK
<1>2. g \notin base
  BY <1>1 DEF Layouts
<1>3. TypeOK' /\ Layouts' /\ Owners'
  BY <1>1, <1>2 DEF TypeOK, Layouts, Owners
<1>4. \A h \in Ug : Shown(h)' => Shown(h)
  BY <1>1 DEF Shown
<1>5. Pointers' /\ KeepsClient' /\ UnusableAsksToEnd'
  BY <1>1, <1>4 DEF Pointers, KeepsClient, UnusableAsksToEnd, TypeOK
<1>6. QED
  BY <1>3, <1>5

\* The timeouts, the callback on the Wi-Fi state and the end of the loop
LEMMA SourcesKeep ==
    ASSUME IInv,
           \/ \E g \in Ug, s \in Source : Arm(g, s) \/ Fire(g, s)
           \/ \E g \in Ug : WifiOff(g)
           \/ Activated \/ WinDel \/ AppTerminate
    PROVE  IInv'
<1> USE DEF IInv
<1>1. /\ UNCHANGED <<life, base, ready, client, failed, popups, warn_popup>>
      /\ loop' = "running" => loop = "running"
      /\ loop' \in {"running", "quit", "ended"}
  BY DEF Arm, Fire, WifiOff, Activated, WinDel, AppTerminate, registered, warnings, TypeOK
<1>2. /\ sources' \subseteq Ug \X Source
      /\ \A h \in Ug, t \in Source : <<h, t>> \in sources' => <<h, t>> \in sources \/ h \in base
  <2>1. \A h \in Ug : Shown(h) => h \in base
    BY DEF Layouts, Shown
  <2>2. CASE \E g \in Ug, s \in Source : Arm(g, s)
    <3>1. PICK g \in Ug, s \in Source : Arm(g, s)
      BY <2>2
    <3>2. QED
      BY <2>1, <3>1 DEF Arm, TypeOK
  <2>3. CASE UNCHANGED sources
    BY <2>3 DEF TypeOK
  <2>4. CASE \E g \in Ug, s \in Source : Fire(g, s)
    BY <2>4 DEF Fire, TypeOK
  <2>5. QED
    BY <2>2, <2>3, <2>4 DEF WifiOff, Activated, WinDel, AppTerminate
<1>3. wifi_cb' \subseteq Ug /\ (wifi_cb \subseteq base => wifi_cb' \subseteq base)
  BY DEF Arm, Fire, WifiOff, Activated, WinDel, AppTerminate, registered, Shown, Layouts, TypeOK
<1>4. TypeOK'
  BY <1>1, <1>2, <1>3 DEF TypeOK
<1>5. Layouts'
  BY <1>1 DEF Layouts, TypeOK
<1>6. Owners'
  BY <1>1, <1>2, <1>3 DEF Owners
<1>7. KeepsClient'
  BY <1>1 DEF KeepsClient, Shown, TypeOK
<1>8. Pointers' /\ UnusableAsksToEnd'
  BY <1>1, WarningsKeep DEF warnings
<1>9. QED
  BY <1>4, <1>5, <1>6, <1>7, <1>8

LEMMA WarnKeeps ==
    ASSUME IInv, NEW g \in Ug, WarnOk(g) \/ \E type \in Warning : Warn(g, type)
    PROVE  IInv'
<1> USE DEF IInv
<1>1. /\ UNCHANGED <<life, base, ready, client, wifi_cb, failed, sources, loop>>
      /\ Shown(g) /\ g \in base
  BY DEF WarnOk, Warn, registered, Shown, Layouts
<1>2. /\ popups' \in [Ug -> [Warning -> 0..MaxPopups]]
      /\ warn_popup' \in [Ug -> Warning \cup {"null"}]
  BY WarnPopupType, DismissType DEF WarnOk, Warn
<1>3. TypeOK' /\ Layouts' /\ Owners' /\ KeepsClient'
  BY <1>1, <1>2 DEF TypeOK, Layouts, Owners, KeepsClient, Shown
<1>4. \A h \in Ug : h # g => popups'[h] = popups[h] /\ warn_popup'[h] = warn_popup[h]
  BY WarnPopupType, DismissType DEF WarnOk, Warn
<1>5. /\ popups[g]["plain"] \in Nat /\ popups[g]["terminate"] \in Nat
      /\ g \notin ready => popups[g]["terminate"] > 0
  BY <1>1, MaxPopupsAssumption DEF TypeOK, Warning, UnusableAsksToEnd
<1>6. /\ warn_popup'[g] # "null" => popups'[g][warn_popup'[g]] > 0
      /\ g \notin ready => popups'[g]["terminate"] > 0
      /\ g \notin ready /\ popups'[g]["plain"] > 0 /\ warn_popup'[g] = "terminate"
            => popups'[g]["terminate"] > 1
  <2>1. CASE WarnOk(g)
    <3>1. /\ warn_popup'[g] = "null"
          /\ popups'[g]["terminate"] = IF warn_popup[g] = "terminate"
                                       THEN popups[g]["terminate"] - 1
                                       ELSE popups[g]["terminate"]
      BY <2>1, DismissType DEF WarnOk, Warning
    <3>2. popups[g]["plain"] > 0
      BY <2>1 DEF WarnOk
    <3>3. QED
      BY <1>1, <1>5, <3>1, <3>2 DEF Pointers
  <2>2. CASE Warn(g, "plain")
    <3>1. WarnPopup(g, "plain")
      BY <2>2 DEF Warn
    <3>2. /\ popups'[g]["plain"] = popups[g]["plain"] + 1
          /\ popups'[g]["terminate"] = popups[g]["terminate"]
          /\ warn_popup'[g] = "plain"
      BY <3>1, WarnPopupType DEF Warning
    <3>3. QED
      BY <1>5, <3>2
  <2>3. CASE Warn(g, "terminate")
    <3>1. WarnPopup(g, "terminate")
      BY <2>3 DEF Warn
    <3>2. /\ popups'[g]["terminate"] = popups[g]["terminate"] + 1
          /\ warn_popup'[g] = "terminate"
      BY <3>1, WarnPopupType DEF Warning
    <3>3. QED
      BY <1>5, <3>2
  <2>4. QED
    BY <2>1, <2>2, <2>3 DEF Warning
<1>7. Pointers'
  BY <1>1, <1>4, <1>6 DEF Pointers, Shown
<1>8. UnusableAsksToEnd'
  BY <1>1, <1>4, <1>6 DEF UnusableAsksToEnd, Shown
<1>9. QED
  BY <1>3, <1>7, <1>8

\* A gadget comes up: with the client if nobody has it, else with a warning.
LEMMA CreateKeeps ==
    ASSUME IInv, NEW g \in Ug, Create(g)
    PROVE  IInv'
<1> USE DEF IInv
<1>1. /\ UNCHANGED <<wifi_cb, failed, sources, loop>>
      /\ loop = "running" /\ life[g] = "loaded" /\ life'[g] = "shown"
      /\ life' \in [Ug -> {"none", "loaded", "shown", "leaving", "gone"}]
      /\ \A h \in Ug : h # g => life'[h] = life[h]
      /\ base' = base \cup {g}
  BY DEF Create, TypeOK
<1>2. g \notin base /\ g \notin ready
  BY <1>1 DEF Layouts, TypeOK
<1>3. \/ client = NoUg /\ client' = g /\ ready' = ready \cup {g}
      \/ UNCHANGED <<client, ready>>
  BY DEF Create, InitClient
<1>4. \/ UNCHANGED warnings
      \/ WarnPopup(g, "terminate")
      \/ /\ MaxPopups >= 2
         /\ popups' = [popups EXCEPT ![g] = [popups[g] EXCEPT !["terminate"] = 2]]
         /\ warn_popup' = [warn_popup EXCEPT ![g] = "terminate"]
  BY DEF Create
<1>5. popups[g] \in [Warning -> 0..MaxPopups] /\ popups[g]["plain"] = 0
  BY <1>2 DEF TypeOK, Pointers
<1>6. /\ popups' \in [Ug -> [Warning -> 0..MaxPopups]]
      /\ warn_popup' \in [Ug -> Warning \cup {"null"}]
      /\ \A h \in Ug : h # g => popups'[h] = popups[h] /\ warn_popup'[h] = warn_popup[h]
      /\ popups'[g]["plain"] = 0
      /\ warn_popup'[g] # "null" => popups'[g][warn_popup'[g]] > 0
  <2>1. CASE UNCHANGED warnings
    BY <1>5, <2>1 DEF warnings, TypeOK, Pointers
  <2>2. CASE WarnPopup(g, "terminate")
    <3>1. /\ popups'[g]["terminate"] = popups[g]["terminate"] + 1
          /\ popups'[g]["plain"] = popups[g]["plain"]
          /\ warn_popup'[g] = "terminate"
      BY <2>2, WarnPopupType DEF Warning
    <3>2. popups[g]["terminate"] \in Nat
      BY <1>5, MaxPopupsAssumption DEF Warning
    <3>3. popups'[g]["plain"] = 0 /\ popups'[g]["terminate"] > 0
      BY <1>5, <3>1, <3>2
    <3>4. QED
      BY <2>2, <3>1, <3>3, WarnPopupType DEF Warning
  <2>3. CASE /\ MaxPopups >= 2
             /\ popups' = [popups EXCEPT ![g] = [popups[g] EXCEPT !["terminate"] = 2]]
             /\ warn_popup' = [warn_popup EXCEPT ![g] = "terminate"]
    <3>1. [popups[g] EXCEPT !["terminate"] = 2] \in [Warning -> 0..MaxPopups]
      BY <1>5, <2>3, MaxPopupsAssumption DEF Warning
    <3>2. /\ popups' \in [Ug -> [Warning -> 0..MaxPopups]]
          /\ popups'[g] = [popups[g] EXCEPT !["terminate"] = 2]
          /\ \A h \in Ug : h # g => popups'[h] = popups[h]
      BY <2>3, <3>1 DEF TypeOK
    <3>3. popups'[g]["terminate"] = 2 /\ popups'[g]["plain"] = 0
      BY <1>5, <3>2 DEF Warning
    <3>4. /\ warn_popup' \in [Ug -> Warning \cup {"null"}] /\ warn_popup'[g] = "terminate"
          /\ \A h \in Ug : h # g => warn_popup'[h] = warn_popup[h]
      BY <2>3 DEF TypeOK, Warning
    <3>5. QED
      BY <3>2, <3>3, <3>4
  <2>4. QED
    BY <1>4, <2>1, <2>2, <2>3
<1>7. g \notin ready' => popups'[g]["terminate"] > 0
  <2>1. CASE InitClient(g)
    BY <2>1 DEF InitClient
  <2>2. CASE WarnPopup(g, "terminate")
    <3>1. /\ popups'[g]["terminate"] = popups[g]["terminate"] + 1
          /\ popups[g]["terminate"] \in Nat
      BY <1>5, <2>2, WarnPopupType, MaxPopupsAssumption DEF Warning
    <3>2. QED
      BY <3>1
  <2>3. CASE popups' = [popups EXCEPT ![g]["terminate"] = 2]
    BY <1>5, <2>3 DEF TypeOK, Warning
  <2>4. QED
    BY <2>1, <2>2, <2>3 DEF Create
<1>8. TypeOK'
  BY <1>1, <1>3, <1>6 DEF TypeOK
<1>9. Layouts'
  BY <1>1, <1>2 DEF Layouts, TypeOK
<1>10. Owners'
  BY <1>1, <1>3 DEF Owners
<1>11. KeepsClient'
  <2>1. \A h \in ready : client = h
    BY <1>1 DEF KeepsClient, Shown, Layouts, TypeOK
  <2>2. client = NoUg => ready = {}
    BY <2>1, NoUgIsNone DEF TypeOK
  <2>3. QED
    BY <1>3, <2>1, <2>2 DEF KeepsClient
<1>12. \A h \in Ug : h # g => (Shown(h)' <=> Shown(h)) /\ (h \in ready' <=> h \in ready)
  BY <1>1, <1>3 DEF Shown
<1>13. Pointers'
  BY <1>1, <1>6, <1>12 DEF Pointers
<1>14. UnusableAsksToEnd'
  BY <1>6, <1>7, <1>12 DEF UnusableAsksToEnd
<1>15. QED
  BY <1>8, <1>9, <1>10, <1>11, <1>13, <1>14

LEMMA LeaveKeeps ==
    ASSUME IInv, NEW g \in Ug, BackBtn(g) \/ TerminateOk(g)
    PROVE  IInv'
<1> USE DEF IInv
<1>1. /\ UNCHANGED <<base, ready, client, wifi_cb, failed, sources>>
      /\ life[g] = "shown" /\ life'[g] = "leaving" /\ loop' = "quit"
      /\ life' \in [Ug -> {"none", "loaded", "shown", "leaving", "gone"}]
      /\ \A h \in Ug : h # g => life'[h] = life[h]
  BY DEF BackBtn, TerminateOk, UgDestroyCb, Shown, registered, TypeOK
<1>2. g \in base
  BY <1>1 DEF Layouts
<1>3. /\ popups' \in [Ug -> [Warning -> 0..MaxPopups]]
      /\ warn_popup' \in [Ug -> Warning \cup {"null"}]
      /\ \A h \in Ug : h # g => popups'[h] = popups[h] /\ warn_popup'[h] = warn_popup[h]
      /\ warn_popup'[g] # "null" => popups'[g][warn_popup'[g]] > 0
  <2>1. CASE UNCHANGED warnings
    BY <2>1 DEF warnings, TypeOK, Pointers
  <2>2. CASE Dismiss(g)
    BY <2>2, DismissType
  <2>3. QED
    BY <2>1, <2>2 DEF BackBtn, TerminateOk
<1>4. TypeOK' /\ Layouts' /\ Owners'
  BY <1>1, <1>2, <1>3 DEF TypeOK, Layouts, Owners
<1>5. \A h \in Ug : ~Shown(h)'
  BY <1>1 DEF Shown
<1>6. Pointers'
  BY <1>1, <1>2, <1>3, <1>5 DEF Pointers
<1>7. KeepsClient' /\ UnusableAsksToEnd'
  BY <1>4, <1>5 DEF KeepsClient, UnusableAsksToEnd, TypeOK
<1>8. QED
  BY <1>4, <1>6, <1>7

LEMMA OnDestroyKeeps ==
    ASSUME IInv, NEW g \in Ug, OnDestroy(g)
    PROVE  IInv'
<1> USE DEF IInv
<1>1. /\ UNCHANGED <<sources, loop>>
      /\ life[g] \in {"leaving", "shown"} /\ life'[g] = "gone"
      /\ life' \in [Ug -> {"none", "loaded", "shown", "leaving", "gone"}]
      /\ \A h \in Ug : h # g => life'[h] = life[h]
      /\ base' = base \ {g} /\ ready' = ready \ {g}
  BY DEF OnDestroy, Free, TypeOK
<1>2. /\ popups' \in [Ug -> [Warning -> 0..MaxPopups]]
      /\ warn_popup' \in [Ug -> Warning \cup {"null"}]
      /\ \A h \in Ug : h # g => popups'[h] = popups[h] /\ warn_popup'[h] = warn_popup[h]
      /\ warn_popup'[g] = "null" /\ popups'[g]["plain"] = 0
  <2>1. [t \in Warning |-> 0] \in [Warning -> 0..MaxPopups]
    BY MaxPopupsAssumption
  <2>2. QED
    BY <2>1 DEF OnDestroy, Free, TypeOK, Warning
<1>3. g \in base => loop # "running"
  BY DEF OnDestroy, Layouts, TypeOK
<1>4. /\ client' \in Ug \cup {NoUg} /\ wifi_cb' \subseteq Ug /\ failed' \in BOOLEAN
      /\ g \notin base => UNCHANGED <<client, wifi_cb, failed>>
      /\ g \in base /\ ~failed' => client' = NoUg /\ wifi_cb' = {}
  BY DEF OnDestroy, DeinitClient, registered, TypeOK
<1>5. TypeOK'
  BY <1>1, <1>2, <1>4 DEF TypeOK
<1>6. Layouts'
  BY <1>1 DEF Layouts, TypeOK
<1>7. Owners'
  BY <1>1, <1>3, <1>4 DEF Owners, Layouts
<1>8. \A h \in Ug : Shown(h)' => Shown(h) /\ h # g
  BY <1>1 DEF Shown
<1>9. KeepsClient'
  BY <1>1, <1>3, <1>4, <1>8 DEF KeepsClient, Shown, TypeOK
<1>10. Pointers'
  BY <1>1, <1>2, <1>8 DEF Pointers
<1>11. UnusableAsksToEnd'
  BY <1>1, <1>2, <1>8 DEF UnusableAsksToEnd
<1>12. QED
  BY <1>5, <1>6, <1>7, <1>9, <1>10, <1>11

-----------------------------------------------------------------------------

LEMMA InitIInv == Init => IInv
<1> SUFFICES ASSUME Init PROVE IInv
  OBVIOUS
<1>1. [t \in Warning |-> 0] \in [Warning -> 0..MaxPopups]
  BY MaxPopupsAssumption
<1>2. TypeOK
  BY <1>1 DEF Init, TypeOK
<1>3. Pointers
  BY DEF Init, Pointers, Warning, Shown
<1>4. QED
  BY <1>2, <1>3 DEF Init, IInv, Layouts, Owners, KeepsClient, UnusableAsksToEnd, Shown

LEMMA StepIInv == IInv /\ [Next]_vars => IInv'
<1> SUFFICES ASSUME IInv, [Next]_vars PROVE IInv'
  OBVIOUS
<1>1. CASE \E g \in Ug : AppReset(g) \/ CreateFails(g)
  BY <1>1, LoadKeeps
<1>2. CASE \E g \in Ug : Create(g)
  BY <1>2, CreateKeeps
<1>3. CASE \/ \E g \in Ug, s \in Source : Arm(g, s) \/ Fire(g, s)
           \/ \E g \in Ug : WifiOff(g)
           \/ Activated \/ WinDel \/ AppTerminate
  BY <1>3, SourcesKeep
<1>4. CASE \E g \in Ug : WarnOk(g) \/ \E type \in Warning : Warn(g, type)
  BY <1>4, WarnKeeps
<1>5. CASE \E g \in Ug : BackBtn(g) \/ TerminateOk(g)
  BY <1>5, LeaveKeeps
<1>6. CASE \E g \in Ug : OnDestroy(g)
  BY <1>6, OnDestroyKeeps
<1>7. CASE UNCHANGED vars
  BY <1>7
  DEF vars, registered, warnings, IInv, TypeOK, Layouts, Owners, Pointers, KeepsClient,
      UnusableAsksToEnd, Shown
<1>8. QED
  BY <1>1, <1>2, <1>3, <1>4, <1>5, <1>6, <1>7 DEF Next

\* The inductive invariant of the life cycle: types, layouts, owners, pointers.
THEOREM InductiveInvariant == Spec => []IInv
  BY InitIInv, StepIInv, PTL DEF Spec

\* Every variable stays in its type (TypeOK); in particular no warning is deleted that
\* is not on the screen.
THEOREM TypeCorrect == Spec => []TypeOK
<1>1. IInv => TypeOK
  BY DEF IInv
<1>2. QED
  BY InductiveInvariant, <1>1, PTL

\* No timeout with freed data while the main loop runs (SourcesAreAlive;
\* _ug_destroy_cb, on_destroy).
THEOREM NoDeadSource == Spec => []SourcesAreAlive
<1>1. IInv => SourcesAreAlive
  BY DEF IInv, Owners, Layouts, SourcesAreAlive
<1>2. QED
  BY InductiveInvariant, <1>1, PTL

\* No registration with freed data unless taking it back failed (NoneLeftBehind;
\* deinit_wfd_client).
THEOREM NoDeadRegistration == Spec => []NoneLeftBehind
<1>1. IInv => NoneLeftBehind
  BY NoUgIsNone DEF IInv, Owners, Layouts, NoneLeftBehind
<1>2. QED
  BY InductiveInvariant, <1>1, PTL

\* The gadget with the client keeps it while it is on the screen (KeepsClient;
\* init_wfd_client, on_destroy).
THEOREM ClientIsKept == Spec => []KeepsClient
<1>1. IInv => KeepsClient
  BY DEF IInv
<1>2. QED
  BY InductiveInvariant, <1>1, PTL

\* A gadget without the client asks to be ended (UnusableAsksToEnd; on_create,
\* wfd_ug_warn_popup).
THEOREM UnusableAsks == Spec => []UnusableAsksToEnd
<1>1. IInv => UnusableAsksToEnd
  BY DEF IInv
<1>2. QED
  BY InductiveInvariant, <1>1, PTL
=============================================================================
