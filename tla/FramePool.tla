------------------------------ MODULE FramePool ------------------------------
(***************************************************************************)
(* What the camera driver promises about its frame buffers, without saying *)
(* how: every buffer has one owner at a time, a filled frame is offered,   *)
(* taken, and given back, and only the driver changes a buffer's contents. *)
(***************************************************************************)
CONSTANTS
  Fbs,             \* the frame buffers
  Images           \* what a frame buffer may contain

VARIABLES
  owner,           \* who owns each buffer
  image            \* the contents of each buffer

Owners == {"driver", "offered", "consumer", "returned"}

\* What the driver does to ownership: it offers a filled frame, withdraws the
\* frame on offer, and reclaims returned buffers.
DriverMoves == {<<"driver", "offered">>, <<"offered", "driver">>, <<"returned", "driver">>}

Init ==
  /\ owner = [i \in Fbs |-> "driver"]
  /\ image \in [Fbs -> Images]

Drive ==
  /\ owner' \in [Fbs -> Owners]
  /\ image' \in [Fbs -> Images]
  /\ \A i \in Fbs :
       /\ owner'[i] = owner[i] \/ <<owner[i], owner'[i]>> \in DriverMoves
       /\ owner'[i] # "driver" => image'[i] = image[i]
  /\ \A i, j \in Fbs : owner'[i] = "offered" /\ owner'[j] = "offered" => i = j

Take(i) ==
  /\ owner[i] = "offered"
  /\ owner' = [owner EXCEPT ![i] = "consumer"]
  /\ UNCHANGED image

\* A single buffer goes straight back to the driver.
GiveBack(i) ==
  /\ owner[i] = "consumer"
  /\ owner' \in {[owner EXCEPT ![i] = "returned"], [owner EXCEPT ![i] = "driver"]}
  /\ UNCHANGED image

Next == Drive \/ \E i \in Fbs : Take(i) \/ GiveBack(i)

Spec == Init /\ [][Next]_<<owner, image>>
=============================================================================
