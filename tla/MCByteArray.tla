----------------------------- MODULE MCByteArray -----------------------------
(* ByteArray.tla with bytes of four bits and integers of eight: the last of   *)
(* the three bytes of a variable-length integer carries two bits, as the last *)
(* of the code's five carries four.                                           *)
EXTENDS ByteArray

MCItems ==
  { [kind |-> "fixed", value |-> <<18>>],
    [kind |-> "varint", value |-> <<200>>],
    [kind |-> "zigzag", value |-> <<-128>>],
    [kind |-> "zigzag", value |-> <<100>>],
    [kind |-> "stringF", value |-> <<>>],
    [kind |-> "stringV", value |-> <<7>>] }

MCReceived == {<<>>, <<9, 10, 11>>}
=============================================================================
