------------------------------ MODULE WfdSession ------------------------------
(***************************************************************************)
(* What a multi-connect session of the gadget promises, without the        *)
(* timeouts, buttons and popups that carry it out.                         *)
(*                                                                         *)
(* A session has a selection.  Its devices are waiting until they are      *)
(* tried, in their order, each once: a request the daemon refuses counts   *)
(* as tried, the first one it takes ends the turn.  A session ends by      *)
(* itself only when nobody waits.  Neither a stopped session nor a         *)
(* cancelled one forgets its selection, and both may be taken up again     *)
(* where they were; no device is tried a second time.                      *)
(*                                                                         *)
(* Others make attempts too, and the daemon's answer for a waiting device  *)
(* settles it without the session's doing.                                 *)
(***************************************************************************)
EXTENDS Naturals

CONSTANT Peer

VARIABLES
    phase,       \* NONE, IN_PROGRESS, COMPLETED
    waiting,     \* selected and not tried yet
    tried,       \* selected and tried
    unanswered   \* attempts the daemon has not answered, whoever made them

vars == <<phase, waiting, tried, unanswered>>

TypeOK ==
    /\ phase \in {"NONE", "IN_PROGRESS", "COMPLETED"}
    /\ waiting \subseteq Peer
    /\ tried \subseteq Peer
    /\ unanswered \subseteq Peer

\* No device is both waiting and tried.
Disjoint == waiting \cap tried = {}

UpTo(S, p) == {q \in S : q <= p}

\* A turn: the devices up to p are tried and p is asked.
Asks(S, done, p) ==
    /\ p \in S
    /\ phase' = "IN_PROGRESS"
    /\ waiting' = S \ UpTo(S, p)
    /\ tried' = done \cup UpTo(S, p)
    /\ unanswered' = unanswered \cup {p}

\* A new session forgets the one before.  It may fail to get its intent, and
\* then waits for nothing, or to get any device.
Begin(S) ==
    /\ S # {}
    /\ \/ \E p \in S : Asks(S, {}, p)
       \/ /\ phase' = "IN_PROGRESS"
          /\ \/ waiting' = S /\ tried' = {}
             \/ waiting' = {} /\ tried' = S
          /\ UNCHANGED unanswered

BeginEmpty ==
    /\ waiting' = {} /\ tried' = {}
    /\ UNCHANGED <<phase, unanswered>>

Continue == \E p \in waiting : Asks(waiting, tried, p)

\* It ends by itself: whoever still waited was refused.
Finish ==
    /\ tried # {} \/ waiting # {}
    /\ phase' = "COMPLETED"
    /\ waiting' = {}
    /\ tried' = tried \cup waiting
    /\ UNCHANGED unanswered

\* The user stops it, or cancels it.
Halt ==
    /\ phase = "IN_PROGRESS"
    /\ phase' \in {"NONE", "COMPLETED"}
    /\ UNCHANGED <<waiting, tried, unanswered>>

Forget ==
    /\ phase' = "NONE"
    /\ waiting' = {} /\ tried' = {}
    /\ UNCHANGED unanswered

\* The daemon answers for p, or tells of p after the session was completed.
Settle(p) ==
    /\ waiting' = waiting \ {p}
    /\ tried' = tried \cup (waiting \cap {p})
    /\ UNCHANGED phase

Answer(p) ==
    /\ p \in unanswered
    /\ unanswered' = unanswered \ {p}
    /\ Settle(p) \/ UNCHANGED <<phase, waiting, tried>>

News(p) ==
    /\ phase = "COMPLETED"
    /\ Settle(p)
    /\ UNCHANGED unanswered

OtherAttempt(p) ==
    /\ p \notin unanswered
    /\ unanswered' = unanswered \cup {p}
    /\ UNCHANGED <<phase, waiting, tried>>

DaemonDown ==
    /\ unanswered' = {}
    /\ UNCHANGED <<phase, waiting, tried>>

Init ==
    /\ phase = "NONE"
    /\ waiting = {} /\ tried = {}
    /\ unanswered = {}

Next ==
    \/ \E S \in SUBSET Peer : Begin(S)
    \/ BeginEmpty
    \/ Continue
    \/ Finish
    \/ Halt
    \/ Forget
    \/ \E p \in Peer : Answer(p) \/ News(p) \/ OtherAttempt(p)
    \/ DaemonDown

Spec == Init /\ [][Next]_vars
=============================================================================
