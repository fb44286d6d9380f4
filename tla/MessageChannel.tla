--------------------------- MODULE MessageChannel ---------------------------
(***************************************************************************)
(* What the outbound half of a stream connection promises its application: *)
(* a first-in first-out byte stream.  Messages are numbered in the order   *)
(* they are accepted; byte k of message m is the pair <<m, k>>.  The wire  *)
(* always takes the least byte it has not taken yet, so messages are       *)
(* neither interleaved nor reordered, and no byte is repeated or skipped;  *)
(* when the channel breaks the wire stops growing for good.                *)
(***************************************************************************)
EXTENDS Naturals, Sequences

CONSTANTS Lengths,      \* the lengths a message may have
          MaxMessages   \* bound on the number of accepted messages

VARIABLES accepted,     \* accepted[m]: the length of message m
          wire,         \* the bytes the transport has taken, in order
          up            \* whether the transport still takes bytes

vars == <<accepted, wire, up>>

BytesOf(m) == {<<m, k>> : k \in 1 .. accepted[m]}

Bytes == UNION {BytesOf(m) : m \in DOMAIN accepted}

Unsent == {b \in Bytes : \A i \in DOMAIN wire : wire[i] # b}

Before(b, c) == \/ b[1] < c[1]
                \/ b[1] = c[1] /\ b[2] < c[2]
-----------------------------------------------------------------------------
Init == /\ accepted = <<>>
        /\ wire = <<>>
        /\ up = TRUE

(* The application hands over a message; a broken channel still takes it.  *)
Accept(len) == /\ Len(accepted) < MaxMessages
               /\ accepted' = Append(accepted, len)
               /\ UNCHANGED <<wire, up>>

Transmit == /\ up
            /\ \E b \in Unsent :
                  /\ \A c \in Unsent : b = c \/ Before(b, c)
                  /\ wire' = Append(wire, b)
            /\ UNCHANGED <<accepted, up>>

Break == /\ up
         /\ up' = FALSE
         /\ UNCHANGED <<accepted, wire>>

Next == (\E len \in Lengths : Accept(len)) \/ Transmit \/ Break

Delivered(m) == \A b \in Unsent : b[1] # m

(* Every accepted message leaves, unless the channel breaks.               *)
Delivery == \A m \in 1 .. MaxMessages :
                (m \in DOMAIN accepted) ~> (~up \/ Delivered(m))

(* What that comes to on the wire: it holds bytes of accepted messages and *)
(* nothing else, in the order of the messages and of the bytes in each,    *)
(* none twice, and every byte still to be sent comes after all of them.    *)
FirstInFirstOut ==
    /\ \A i \in DOMAIN wire : wire[i] \in Bytes
    /\ \A i, j \in DOMAIN wire : i < j => Before(wire[i], wire[j])
    /\ \A b \in Unsent : \A i \in DOMAIN wire : Before(wire[i], b)

Safety == Init /\ [][Next]_vars

Spec == Safety /\ Delivery
=============================================================================
