----------------------------- MODULE UrbContract -----------------------------
(***************************************************************************)
(* What the virtual device promises the host controller about one USB      *)
(* request block (URB), whatever threads and queues produce the answers:   *)
(* a submitted URB is finished once, either completed (its RET_SUBMIT      *)
(* reached the host) or cancelled (the RET_UNLINK of an unlink naming it    *)
(* reached the host first), and what is finished stays as it is.           *)
(***************************************************************************)
EXTENDS Naturals

CONSTANT Urbs       \* the sequence numbers a URB may have

VARIABLE urb        \* urb[s]: where the URB with sequence number s stands

UrbState == {"free", "submitted", "completed", "cancelled"}

Init == urb = [s \in Urbs |-> "free"]

Submit(s) ==
    /\ urb[s] = "free"
    /\ urb' = [urb EXCEPT ![s] = "submitted"]

Complete(s) ==
    /\ urb[s] = "submitted"
    /\ urb' = [urb EXCEPT ![s] = "completed"]

Cancel(s) ==
    /\ urb[s] = "submitted"
    /\ urb' = [urb EXCEPT ![s] = "cancelled"]

Next == \E s \in Urbs : Submit(s) \/ Complete(s) \/ Cancel(s)

Safety == Init /\ [][Next]_urb

Finishes(s) == WF_urb(Complete(s) \/ Cancel(s))

Liveness == \A s \in Urbs : Finishes(s)

Spec == Safety /\ Liveness
=============================================================================
