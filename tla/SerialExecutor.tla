--------------------------- MODULE SerialExecutor ---------------------------
(* What action_queue promises the code that pushes to it: submitted work      *)
(* begins in submission order, one piece at a time, each piece at most once,  *)
(* and work that has not begun may be dropped as a whole.  ActionQueue is the *)
(* detailed specification that implements this one.                           *)
EXTENDS Sequences

CONSTANT Handlers       \* the pieces of work; each is submitted at most once

VARIABLES pending,      \* submitted work that has not begun, oldest first
          active,       \* the work that has begun and not ended
          submitted     \* everything that was ever submitted

vars == <<pending, active, submitted>>

Init == pending = <<>> /\ active = {} /\ submitted = {}

Submit(h) ==
  /\ h \notin submitted
  /\ submitted' = submitted \cup {h}
  /\ pending' = Append(pending, h)
  /\ UNCHANGED active

Begin ==
  /\ pending # <<>> /\ active = {}
  /\ active' = {Head(pending)}
  /\ pending' = Tail(pending)
  /\ UNCHANGED submitted

End(h) == h \in active /\ active' = active \ {h} /\ UNCHANGED <<pending, submitted>>

Discard == pending' = <<>> /\ UNCHANGED <<active, submitted>>

Next == (\E h \in Handlers : Submit(h) \/ End(h)) \/ Begin \/ Discard

Spec == Init /\ [][Next]_vars
=============================================================================
