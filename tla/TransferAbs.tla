---------------------------- MODULE TransferAbs ----------------------------
(***************************************************************************)
(* What a transfer promises its two users: each side ends once, with       *)
(* success or with an error; the receiver succeeds only with the payload,  *)
(* and the sender succeeds only after the receiver has the payload.        *)
(***************************************************************************)
VARIABLES
    payload,        \* TRUE once the receiver holds the decoded payload
    sender,         \* result of SenderSession: "busy", "ok", "error"
    receiver        \* result of ReceiverSession

vars == <<payload, sender, receiver>>

Init == payload = FALSE /\ sender = "busy" /\ receiver = "busy"

Decode ==
    /\ ~payload /\ receiver = "busy"
    /\ payload' = TRUE
    /\ UNCHANGED <<sender, receiver>>

SenderReturns(result) ==
    /\ sender = "busy" /\ (result = "ok" => payload)
    /\ sender' = result
    /\ UNCHANGED <<payload, receiver>>

ReceiverReturns(result) ==
    /\ receiver = "busy" /\ (result = "ok" => payload)
    /\ receiver' = result
    /\ UNCHANGED <<payload, sender>>

Next ==
    \/ Decode
    \/ \E result \in {"ok", "error"} : SenderReturns(result) \/ ReceiverReturns(result)

Spec == Init /\ [][Next]_vars
=============================================================================
