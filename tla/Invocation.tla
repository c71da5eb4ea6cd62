----------------------------- MODULE Invocation -----------------------------
(***************************************************************************)
(* What a function runner promises for one request, whatever its mode: the *)
(* function is started at most once, the request is answered at most once, *)
(* and an answer presented as the function's output is given only when the *)
(* function has succeeded.  ForkRunner and HTTPRun implement it.           *)
(***************************************************************************)

VARIABLES
  function,  \* "none", "running", "ok" or "failed"
  answer     \* "none", "output", "error", or "void": says nothing of the outcome

Init == function = "none" /\ answer = "none"

Start ==
  /\ function = "none" /\ answer = "none"
  /\ function' = "running"
  /\ UNCHANGED answer

End ==
  /\ function = "running"
  /\ function' \in {"ok", "failed"}
  /\ UNCHANGED answer

Answer ==
  /\ answer = "none"
  /\ answer' \in {"error", "void"} \cup (IF function = "ok" THEN {"output"} ELSE {})
  /\ UNCHANGED function

Next == Start \/ End \/ Answer

Spec == Init /\ [][Next]_<<function, answer>>

=============================================================================
