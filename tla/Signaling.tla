------------------------------ MODULE Signaling ------------------------------
(***************************************************************************)
(* The share-link flow of the browser demo: the room of the signalling     *)
(* service (crates/orbit-wasm/webrtc/serve.mjs, api/rooms.js) and the way  *)
(* a host and the guests that open its link exchange offer and answer      *)
(* through it (webrtc/webrtc.js, hostShare and guestShare).                *)
(*                                                                         *)
(* A session description is represented by who made it.  A PUT looks the   *)
(* room up, then awaits the body, then writes into the object it has found,*)
(* which by then may not be in the map any more.                           *)
(***************************************************************************)
EXTENDS Integers, FiniteSets

CONSTANTS
    Guests,         \* tabs that open the link
    NoGuest,        \* no answer yet
    RoomMayGo,      \* whether the room may expire, be deleted or be lost with its server
    PollMayTimeOut  \* whether a poll may reach its deadline

ASSUME SignalingAssumption ==
    NoGuest \notin Guests /\ RoomMayGo \in BOOLEAN /\ PollMayTimeOut \in BOOLEAN

VARIABLES
    room,           \* the room: "none", "open", "gone" from the map
    offer,          \* room.offer is there
    answer,         \* room.answer: whose it is
    hpc,            \* the host: "create", "put", "putting", "poll", then see WebRtc
    gpc,            \* a guest: "poll", "put", "putting", "joined", "failed"
    peer            \* the guest whose answer the host has fetched

signalVars == <<room, offer, answer, hpc, gpc, peer>>

SignalInit ==
    /\ room = "none" /\ offer = FALSE /\ answer = NoGuest
    /\ hpc = "create" /\ gpc = [g \in Guests |-> "poll"] /\ peer = NoGuest

-----------------------------------------------------------------------------
(* The service. *)

\* POST /api/rooms
CreateRoom == room' = "open" /\ UNCHANGED <<offer, answer>>

\* GET: 404 without the room or the field.
OfferServed == room = "open" /\ offer
AnswerServed == room = "open" /\ answer # NoGuest

\* PUT, once the body is there: the field of the object is set.
PutFields(field, who) ==
    /\ offer' = (offer \/ field = "offer")
    /\ answer' = IF field = "answer" THEN who ELSE answer

\* The room leaves the map: the sweep, DELETE, a recycled instance.
RoomGoes ==
    /\ RoomMayGo /\ room = "open"
    /\ room' = "gone"
    /\ UNCHANGED <<offer, answer, hpc, gpc, peer>>

-----------------------------------------------------------------------------
(* hostShare *)

HostCreates ==
    /\ hpc = "create"
    /\ CreateRoom
    /\ hpc' = "put"
    /\ UNCHANGED <<gpc, peer>>

\* PUT offer: the room is looked up; without it the request fails.
HostPuts ==
    /\ hpc = "put"
    /\ hpc' = IF room = "open" THEN "putting" ELSE "failed"
    /\ UNCHANGED <<room, offer, answer, gpc, peer>>

HostPutDone ==
    /\ hpc = "putting"
    /\ PutFields("offer", NoGuest)
    /\ hpc' = "poll"
    /\ UNCHANGED <<room, gpc, peer>>

\* waitForAnswer: GET answer until it is there.
HostPolls ==
    /\ hpc = "poll" /\ AnswerServed
    /\ peer' = answer
    /\ hpc' = "opening"
    /\ UNCHANGED <<room, offer, answer, gpc>>

HostTimesOut ==
    /\ hpc = "poll" /\ PollMayTimeOut
    /\ hpc' = "failed"
    /\ UNCHANGED <<room, offer, answer, gpc, peer>>

-----------------------------------------------------------------------------
(* guestShare *)

\* The link is handed out once the offer is published.
LinkKnown == offer

\* GET offer until it is there; acceptOffer then makes the answer.
GuestPolls(g) ==
    /\ gpc[g] = "poll" /\ LinkKnown /\ OfferServed
    /\ gpc' = [gpc EXCEPT ![g] = "put"]
    /\ UNCHANGED <<room, offer, answer, hpc, peer>>

GuestTimesOut(g) ==
    /\ gpc[g] = "poll" /\ LinkKnown /\ PollMayTimeOut
    /\ gpc' = [gpc EXCEPT ![g] = "failed"]
    /\ UNCHANGED <<room, offer, answer, hpc, peer>>

GuestPuts(g) ==
    /\ gpc[g] = "put"
    /\ gpc' = [gpc EXCEPT ![g] = IF room = "open" THEN "putting" ELSE "failed"]
    /\ UNCHANGED <<room, offer, answer, hpc, peer>>

GuestPutDone(g) ==
    /\ gpc[g] = "putting"
    /\ PutFields("answer", g)
    /\ gpc' = [gpc EXCEPT ![g] = "joined"]
    /\ UNCHANGED <<room, hpc, peer>>

-----------------------------------------------------------------------------
HostSignals == HostCreates \/ HostPuts \/ HostPutDone \/ HostPolls
GuestSignals(g) == GuestPolls(g) \/ GuestPuts(g) \/ GuestPutDone(g)
SignalFaults == RoomGoes \/ HostTimesOut \/ \E g \in Guests : GuestTimesOut(g)
=============================================================================
