------------------------------- MODULE Request -------------------------------
(***************************************************************************)
(* What UsbHost.tla takes a control request to be, with nothing of packets, *)
(* retries and toggles: it is asked for, the device carries it out or not,  *)
(* and it returns.  Success says that it was carried out; a failure says    *)
(* nothing of that; and after it returned nothing of it happens any more.   *)
(***************************************************************************)

VARIABLES
  status,     \* of the last control request: none, asked, succeeded, failed
  carried     \* the device has carried it out

Init == status = "none" /\ carried = FALSE

Ask ==
  /\ status # "asked" /\ status' = "asked"
  /\ carried' = FALSE

(* A device may refuse what it has done when it is told to finish again.   *)
CarryOut == status = "asked" /\ carried' \in BOOLEAN /\ UNCHANGED status

Succeed == status = "asked" /\ status' = "succeeded" /\ carried /\ UNCHANGED carried

Fail == status = "asked" /\ status' = "failed" /\ UNCHANGED carried

(* A transfer that is no control request leaves nothing of the last one.    *)
Forget ==
  /\ status # "asked" /\ status' = "none"
  /\ carried' = FALSE

Next == Ask \/ CarryOut \/ Succeed \/ Fail \/ Forget

Spec == Init /\ [][Next]_<<status, carried>>
=============================================================================
