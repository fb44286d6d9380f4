------------------------ MODULE ConnectionLifecycle ------------------------
(***************************************************************************)
(* What an application sees of its client connections.  AsyncConnect is    *)
(* answered once: it throws, or the connect callback or the callback for a *)
(* refused connect is called.  A connection that is made brings data, one  *)
(* read callback at a time, until one of them throws or the loss is        *)
(* reported, which is the last word.  The reading starts before the        *)
(* connect callback is called: data, and the loss, wait for its return     *)
(* only where nothing can overtake it.                                     *)
(***************************************************************************)
CONSTANTS Clients,
          Overtaking  \* another thread may run a client's next handler

VARIABLES answer,   \* of each client: the answer to AsyncConnect
          reading   \* ... and what is read

Init == /\ answer = [c \in Clients |-> "new"]
        /\ reading = [c \in Clients |-> "none"]

Answers(c, from, to) == /\ answer[c] = from
                        /\ answer' = [answer EXCEPT ![c] = to]
                        /\ UNCHANGED reading

Reads(c, from, to) == /\ reading[c] = from
                      /\ reading' = [reading EXCEPT ![c] = to]
                      /\ UNCHANGED answer

AsyncConnect(c) == Answers(c, "new", "connecting")

Throw(c) == reading[c] = "none" /\ Answers(c, "connecting", "threw")

Refuse(c) == reading[c] = "none" /\ Answers(c, "connecting", "refusing")

Refused(c) == Answers(c, "refusing", "refused")

Open(c) == answer[c] = "connecting" /\ Reads(c, "none", "open")

Connect(c) == /\ reading[c] # "none"
              /\ Answers(c, "connecting", "answering")

Connected(c) == Answers(c, "answering", "connected")

Deliver(c) == /\ Overtaking \/ answer[c] = "connected"
              /\ Reads(c, "open", "delivering")

Delivered(c) == \E r \in {"open", "stuck"} : Reads(c, "delivering", r)

Lose(c) == /\ Overtaking \/ answer[c] = "connected"
           /\ Reads(c, "open", "losing")

Lost(c) == Reads(c, "losing", "lost")

Next == \E c \in Clients : \/ AsyncConnect(c)
                           \/ Throw(c)
                           \/ Refuse(c)
                           \/ Refused(c)
                           \/ Open(c)
                           \/ Connect(c)
                           \/ Connected(c)
                           \/ Deliver(c)
                           \/ Delivered(c)
                           \/ Lose(c)
                           \/ Lost(c)

Spec == Init /\ [][Next]_<<answer, reading>>
=============================================================================
