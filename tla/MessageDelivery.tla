--------------------------- MODULE MessageDelivery ---------------------------
(***************************************************************************)
(* What an agent promises to whoever hands it messages, without queues,    *)
(* turns, tools or a model: a message is with its caller, waits, is in the *)
(* hand of the run, is delivered, or was withdrawn while it waited.  One   *)
(* run is active at a time, and it settles with empty hands.               *)
(***************************************************************************)
CONSTANT Messages

VARIABLES
  busy,    \* is a run active?
  place    \* where each message is

vars == <<busy, place>>

Places == {"caller", "waiting", "inHand", "delivered", "withdrawn"}
At(p) == {m \in Messages : place[m] = p}
Move(S, p) == place' = [m \in Messages |-> IF m \in S THEN p ELSE place[m]]

Init ==
  /\ busy = FALSE
  /\ place = [m \in Messages |-> "caller"]

Queue(m) ==      \* a message is steered or queued as a follow-up
  /\ m \in At("caller")
  /\ Move({m}, "waiting")
  /\ UNCHANGED busy

Withdraw ==      \* the queues are cleared, both of them
  /\ At("waiting") # {}
  /\ Move(At("waiting"), "withdrawn")
  /\ UNCHANGED busy

Begin(S) ==      \* a run starts with prompts, with waiting messages or without any
  /\ ~busy
  /\ S \subseteq At("caller") \/ S \subseteq At("waiting")
  /\ busy' = TRUE
  /\ Move(S, "inHand")

TakeUp(S) ==     \* the run takes waiting messages once its hands are empty
  /\ busy
  /\ At("inHand") = {}
  /\ S # {}
  /\ S \subseteq At("waiting")
  /\ Move(S, "inHand")
  /\ UNCHANGED busy

Deliver(m) ==
  /\ busy
  /\ m \in At("inHand")
  /\ Move({m}, "delivered")
  /\ UNCHANGED busy

Settle ==
  /\ busy
  /\ At("inHand") = {}
  /\ busy' = FALSE
  /\ UNCHANGED place

Next ==
  \/ \E m \in Messages : Queue(m) \/ Deliver(m)
  \/ \E S \in SUBSET Messages : Begin(S) \/ TakeUp(S)
  \/ Withdraw
  \/ Settle

Spec == Init /\ [][Next]_vars
=============================================================================
