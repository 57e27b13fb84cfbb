----------------------------- MODULE FlatBuffer -----------------------------
(***************************************************************************)
(* What a ByteArray promises (the comments of bytearray.h): one sequence   *)
(* of bytes with a position, at which bytes are written over what is there *)
(* and read back.  Blocks do not show, except in four situations in which  *)
(* the program does not keep the promise; each is an action of its own.    *)
(***************************************************************************)
EXTENDS Integers, Sequences

VARIABLES data, pos, out

bufferVars == <<data, pos, out>>

\* A call with what it was asked for (a number of bytes, from a place on), the bytes it
\* passed or showed, and its result.
Answer(call, status, from, asked, bytes, result) ==
  [call |-> call, status |-> status, from |-> from, asked |-> asked, bytes |-> bytes, result |-> result]
Silent == Answer("none", "done", 0, 0, <<>>, 0)

BufferInit == data = <<>> /\ pos = 0 /\ out = Silent

Larger(m, n) == IF m > n THEN m ELSE n
Smaller(m, n) == IF m < n THEN m ELSE n

-----------------------------------------------------------------------------
(* The promises.                                                            *)

\* A plain call passes all that it was asked for.  One call of a stream passes a part,
\* which it returns, or fails and passes nothing.  A call for a fixed size that returns
\* a failure has passed the bytes that went through before.
Accounts(o) ==
  LET n == Len(o.bytes) IN
  /\ o.status = "done" /\ o.from = pos /\ n <= o.asked
  /\ CASE o.call \in {"write", "read"} -> n = o.asked /\ o.result = n
       [] o.call \in {"receive", "send"} -> o.result = n \/ (n = 0 /\ o.result = -1)
       [] o.call \in {"receiveAll", "sendAll"} -> o.result = IF n = o.asked THEN n ELSE Smaller(o.result, 0)

\* Bytes are put at the position; every other cell keeps its byte.
Put ==
  LET n == Len(out'.bytes) IN
  /\ out'.call \in {"write", "receive", "receiveAll"} /\ Accounts(out')
  /\ pos' = pos + n
  /\ Len(data') = Larger(pos + n, Len(data))
  /\ \A i \in 1..Len(data') :
       data'[i] = IF pos < i /\ i <= pos + n THEN out'.bytes[i - pos] ELSE data[i]

\* The next bytes are given and passed.
Get ==
  /\ out'.call \in {"read", "send", "sendAll"} /\ Accounts(out')
  /\ pos' = pos + Len(out'.bytes) /\ pos' <= Len(data)
  /\ out'.bytes = SubSeq(data, pos + 1, pos')
  /\ UNCHANGED data

Shown(o) == o.from + Len(o.bytes) <= Len(data) /\ o.bytes = SubSeq(data, o.from + 1, o.from + Len(o.bytes))

\* Bytes from anywhere are shown: by a positional read as many as were asked for, as
\* buffers no more than that, and from the position on all that there are.
Peek ==
  LET n == Len(out'.bytes) IN
  /\ out'.call \in {"readAt", "buffers"} /\ out'.status = "done" /\ out'.result = n
  /\ Shown(out') /\ n <= out'.asked
  /\ out'.call = "readAt" => n = out'.asked
  /\ out'.from = pos => n = Smaller(out'.asked, Len(data) - pos)
  /\ UNCHANGED <<data, pos>>

\* The position moves, beyond the end to as yet unspecified bytes.
Seek ==
  /\ out' = Silent
  /\ Len(data') = Larger(pos', Len(data))
  /\ SubSeq(data', 1, Len(data)) = data

Reset == data' = <<>> /\ pos' = 0 /\ out' = Silent

\* More than there is was asked for: an exception, and nothing changes.
Refuse ==
  /\ out'.status = "out_of_range" /\ out'.from + out'.asked > Len(data)
  /\ UNCHANGED <<data, pos>>

-----------------------------------------------------------------------------
(* Where the program does not keep them.                                    *)

\* A read whose last part is of no bytes, at the end of the data, looks at a null
\* cursor.  If the program goes on it has what it asked for.
EmptyReadAtTheEnd ==
  /\ out'.call = "read" /\ out'.status = "null"
  /\ pos' = Len(data) /\ out'.bytes = SubSeq(data, pos + 1, pos')
  /\ UNCHANGED data

\* So does a positional read, of bytes that are there, while the position is at the end.
PeekFromTheEnd ==
  /\ out'.call = "readAt" /\ out'.status = "null" /\ pos = Len(data)
  /\ UNCHANGED <<data, pos>>

\* A positional read that begins beyond the data is not refused.
PeekBeyond ==
  /\ out'.call = "readAt" /\ out'.status \in {"done", "null"} /\ out'.from > Len(data)
  /\ UNCHANGED <<data, pos>>

\* Buffers that begin beyond the position are as long as if they began there: they show
\* the bytes that there are and run past them, or past the last block.
Overrun ==
  LET n == Smaller(out'.asked, Len(data) - pos) IN
  /\ out'.call = "buffers" /\ out'.from > pos /\ out'.from + n > Len(data)
  /\ \/ out'.status = "null"
     \/ /\ out'.status = "done" /\ Len(out'.bytes) = n
        /\ SubSeq(out'.bytes, 1, Len(data) - out'.from) = SubSeq(data, out'.from + 1, Len(data))
  /\ UNCHANGED <<data, pos>>

BufferNext ==
  \/ Put \/ Get \/ Peek \/ Seek \/ Reset \/ Refuse
  \/ EmptyReadAtTheEnd \/ PeekFromTheEnd \/ PeekBeyond \/ Overrun
BufferSpec == BufferInit /\ [][BufferNext]_bufferVars
=============================================================================
