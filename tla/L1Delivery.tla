----------------------------- MODULE L1Delivery -----------------------------
(***************************************************************************)
(* What Level-1 framing promises for the messages carried over it: they    *)
(* end in the order they were sent in, and each is taken in when it ends,  *)
(* and then only, but for steps that a disturbance excuses.  Messages are  *)
(* known by their number.                                                  *)
(***************************************************************************)
EXTENDS Naturals, Sequences

VARIABLES
  begun,     \* the messages the sender has begun to send: 1 .. begun
  ended,     \* those that have been read to their end
  accepted,  \* the messages taken in, oldest first
  excused    \* something is wrong that is not the receiver's fault

vars == <<begun, ended, accepted>>

Init == begun = 0 /\ ended = {} /\ accepted = <<>>

Begin == begun' = begun + 1 /\ UNCHANGED <<ended, accepted>>

\* Message m ends, and those before it that have not will not.
End(m) == (\A n \in ended : n < m) /\ ended' = ended \cup {m}

Deliver ==
  /\ \E m \in 1 .. begun : End(m) /\ accepted' = Append(accepted, m)
  /\ UNCHANGED begun

\* A message ends that is not taken in, or one is taken for another, or where
\* none ends.
Err ==
  /\ excused'
  /\ UNCHANGED ended \/ \E m \in 1 .. begun : End(m)
  /\ UNCHANGED accepted \/ \E m \in 1 .. begun : accepted' = Append(accepted, m)
  /\ UNCHANGED begun

Next == Begin \/ Deliver \/ Err

Spec == Init /\ [][Next]_vars

=============================================================================
