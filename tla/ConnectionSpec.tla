--------------------------- MODULE ConnectionSpec ---------------------------
(***************************************************************************)
(* What a connection promises to those who use it: each request gets at     *)
(* most one result and, once the connection is down, comes back; what the   *)
(* remote device sends is handled by one call of the model after another,   *)
(* all of them over when the model is told that the connection is closed.   *)
(***************************************************************************)
CONSTANT Requesters

VARIABLES
  link,    \* "up", "down", or "told" to the model
  result,  \* "none", "open", "full" or "closed", for each request
  caller,  \* "out", "in", "answered" or "failed", for each request
  busy     \* a message of the remote device is being handled

vars == <<link, result, caller, busy>>

Init == /\ link = "up"
        /\ result = [r \in Requesters |-> "none"]
        /\ caller = [r \in Requesters |-> "out"]
        /\ busy = FALSE

Ask(r) ==
  /\ caller[r] = "out"
  /\ caller' = [caller EXCEPT ![r] = "in"]
  /\ result' = [result EXCEPT ![r] = "open"]
  /\ UNCHANGED <<link, busy>>

Answered(r) ==
  /\ caller[r] = "in"
  /\ result[r] = "full"
  /\ caller' = [caller EXCEPT ![r] = "answered"]
  /\ UNCHANGED <<link, result, busy>>

\* A caller may give up at any time.
Failed(r) ==
  /\ caller[r] = "in"
  /\ caller' = [caller EXCEPT ![r] = "failed"]
  /\ UNCHANGED <<link, result, busy>>

BeginMessage == link = "up" /\ ~busy /\ busy' = TRUE /\ UNCHANGED <<link, result, caller>>

EndMessage ==
  /\ busy
  /\ busy' = FALSE
  /\ \/ UNCHANGED result
     \/ \E r \in Requesters : result[r] = "open" /\ result' = [result EXCEPT ![r] = "full"]
  /\ UNCHANGED <<link, caller>>

\* All results that are open are closed with the connection.
GoDown ==
  /\ link = "up"
  /\ link' = "down"
  /\ result' = [r \in Requesters |-> IF result[r] = "open" THEN "closed" ELSE result[r]]
  /\ UNCHANGED <<caller, busy>>

Tell == link = "down" /\ ~busy /\ link' = "told" /\ UNCHANGED <<result, caller, busy>>

Return(r) == Answered(r) \/ Failed(r)
Next == \/ \E r \in Requesters : Ask(r) \/ Return(r)
        \/ BeginMessage \/ EndMessage \/ GoDown \/ Tell

Fairness == /\ WF_vars(Tell)
            /\ WF_vars(busy /\ link = "down" /\ EndMessage)
            /\ \A r \in Requesters : WF_vars(link # "up" /\ Return(r))
Safety == Init /\ [][Next]_vars
Spec == Safety /\ Fairness
=============================================================================
