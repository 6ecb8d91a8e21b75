------------------------------ MODULE AntiReplay ------------------------------
(***************************************************************************)
(* What a receiving counter validator promises to the session that owns    *)
(* it, with no bitmap: it remembers every counter it has accepted, accepts *)
(* a counter at most once, and accepts it only while it is no further than *)
(* Window behind the highest one accepted.                                 *)
(***************************************************************************)
EXTENDS Naturals

CONSTANTS
  Window,                \* how far back a reordered packet may still arrive
  Counters               \* the counters packets may carry

VARIABLES
  received,              \* the counters accepted so far
  next                   \* one more than the highest of them, 0 at first

vars == <<received, next>>

Init == /\ received = {}
        /\ next = 0

TooFarBack(c) == c + Window < next

Acceptable(c) == c \notin received /\ ~TooFarBack(c)

Accept(c) ==
  /\ Acceptable(c)
  /\ received' = received \cup {c}
  /\ next' = IF c < next THEN next ELSE c + 1

Next == \E c \in Counters : Accept(c)

Spec == Init /\ [][Next]_vars
===============================================================================
