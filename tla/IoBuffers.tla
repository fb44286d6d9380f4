------------------------------ MODULE IoBuffers ------------------------------
(***************************************************************************)
(* IoBufferWrapper: the buffer that carries one outgoing message from the  *)
(* application to the socket.  Bytes are abstracted to their number, so a  *)
(* wrapper is the length of its two stores and the terminator flag.        *)
(***************************************************************************)
EXTENDS Naturals

IoBufferWrapper ==
    [Buffer : Nat, StringBuffer : Nat, NullTerminate : BOOLEAN]

(* IoBufferWrapper(std::string&&, bool): the string is moved, not copied.  *)
WrapString(len, nullTerminate) ==
    [Buffer |-> 0, StringBuffer |-> len, NullTerminate |-> nullTerminate]

(* IoBufferWrapper(std::vector<uint8_t>&&).                                *)
WrapVector(len) ==
    [Buffer |-> len, StringBuffer |-> 0, NullTerminate |-> FALSE]

(* ToBoost: the number of bytes of the asio buffer that is handed to       *)
(* async_write.  An empty string falls back to the (empty) vector, and     *)
(* then the terminator is not part of the buffer.                          *)
ToBoost(b) ==
    IF b.StringBuffer > 0
    THEN b.StringBuffer + (IF b.NullTerminate THEN 1 ELSE 0)
    ELSE b.Buffer

(* A BoostSize that overlooks the terminator.                              *)
BoostSizeWithoutTerminator(b) ==
    IF b.StringBuffer > 0 THEN b.StringBuffer ELSE b.Buffer

(* BoostSize: the number of bytes the completion handler expects.          *)
BoostSize(b) ==
    IF b.StringBuffer > 0
    THEN b.StringBuffer + (IF b.NullTerminate THEN 1 ELSE 0)
    ELSE b.Buffer

=============================================================================
