------------------------------ MODULE SerialQueue ------------------------------
(*****************************************************************************)
(* What a conversation promises its users: messages are handled one at a     *)
(* time, each at most once, in the order in which they were accepted.  A     *)
(* message may be refused, and it may be withdrawn while it waits or before  *)
(* its handling has begun.                                                   *)
(*****************************************************************************)
EXTENDS Naturals, Sequences, FiniteSets

CONSTANT Message

VARIABLES
    waiting,   \* accepted messages, oldest first
    active,    \* the message that is handled, if any
    over       \* messages that are refused, withdrawn or handled

Waiting == {waiting[i] : i \in DOMAIN waiting}
Known   == Waiting \cup active \cup over

Init ==
    /\ waiting = << >>
    /\ active = {}
    /\ over = {}

(* An accepted message waits its turn, or is handled at once by an idle queue. *)
Accept(m) ==
    /\ m \notin Known
    /\ \/ waiting' = Append(waiting, m) /\ active' = active
       \/ waiting = << >> /\ active = {} /\ waiting' = waiting /\ active' = {m}
    /\ over' = over

Refuse(m) ==
    /\ m \notin Known
    /\ over' = over \cup {m}
    /\ UNCHANGED <<waiting, active>>

(* The others keep their order. *)
Withdraw(S) ==
    /\ S \subseteq Waiting \cup active
    /\ waiting' \in Seq(Message)
    /\ {waiting'[i] : i \in DOMAIN waiting'} = Waiting \ S
    /\ \A i, j \in DOMAIN waiting' : i < j =>
          \E a, b \in DOMAIN waiting : a < b /\ waiting'[i] = waiting[a] /\ waiting'[j] = waiting[b]
    /\ active' = active \ S
    /\ over' = over \cup S

(* The active message is done; the oldest one follows, or is dropped. *)
Advance ==
    /\ active # {}
    /\ \/ waiting = << >> /\ waiting' = waiting /\ active' = {}
       \/ waiting # << >> /\ waiting' = Tail(waiting) /\ active' \in {{}, {Head(waiting)}}
    /\ over' = (Known \ active') \ {waiting'[i] : i \in DOMAIN waiting'}

Next ==
    \/ \E m \in Message : Accept(m) \/ Refuse(m)
    \/ \E S \in SUBSET Message : Withdraw(S)
    \/ Advance

Spec == Init /\ [][Next]_<<waiting, active, over>>
=============================================================================
