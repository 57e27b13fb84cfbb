------------------------------ MODULE ByteArray ------------------------------
(***************************************************************************)
(* ByteArray (bytearray.h, bytearray.cpp): a list of blocks of m_baseSize  *)
(* bytes with one position for reading and writing, and the two stream     *)
(* operations of SocketStream that read and write a socket through its     *)
(* buffers.  The object is used by one thread at a time.                   *)
(*                                                                         *)
(* The methods are functions from the object, a record, to the object, so  *)
(* that they compose as in the code (a string is a length and its bytes).  *)
(* m_cur is the index of a block, NoNode for a null pointer.  A block that *)
(* was just allocated holds unspecified bytes, Junk.  A null pointer that  *)
(* is dereferenced ends the program, except that a build that optimises    *)
(* drops the dereference where its value is not used.                      *)
(*                                                                         *)
(* A definition X_Y just before X is X with a plausible bug Y; it is used  *)
(* only to confirm that the properties notice the bug.                     *)
(***************************************************************************)
EXTENDS ByteCodec, FiniteSets

CONSTANTS
  m_baseSize,    \* bytes in a block
  MaxCapacity,   \* bound: clients write within so many bytes
  MaxWrites,     \* bound: calls that write
  Requests,      \* bound: numbers of bytes that clients ask for
  Items,         \* what clients write: a kind and a value
  Received       \* what arrives from sockets and files

ASSUME ByteArrayAssumption ==
  /\ m_baseSize \in Nat \ {0} /\ MaxCapacity \in Nat /\ MaxWrites \in Nat /\ MaxCapacity % m_baseSize = 0
  /\ Requests \subseteq Nat

Junk == -1
NoNode == 0
NoAnswer == [call |-> "none", status |-> "done", from |-> 0, asked |-> 0, bytes |-> <<>>, result |-> 0]
NewNode == [j \in 0..(m_baseSize - 1) |-> Junk]

VARIABLES
  ba,      \* the object
  items,   \* items written and not overwritten since: kind, value, byte order, place
  out,     \* what the last call was asked for and gave
  alive,   \* no null pointer has ended the program
  writes   \* calls that wrote so far

vars == <<ba, items, out, alive, writes>>

Init ==
  /\ ba = [position |-> 0, size |-> 0, capacity |-> m_baseSize, cur |-> 1,
           nodes |-> <<NewNode>>, little |-> FALSE, fault |-> FALSE]
  /\ items = {}
  /\ out = NoAnswer
  /\ alive = TRUE /\ writes = 0

-----------------------------------------------------------------------------
(* Blocks.                                                                  *)

getCapacity(b) == b.capacity - b.position
getReadSize(b) == b.size - b.position
Node(b, k) == IF k \in 1..Len(b.nodes) THEN k ELSE NoNode
NextNode(b, k) == Node(b, k + 1)

addCapacity_KeepsCursor(b, n) ==
  LET old == getCapacity(b)
      count == (n - old + m_baseSize - 1) \div m_baseSize
  IN IF n = 0 \/ old >= n THEN b
     ELSE [b EXCEPT !.nodes = @ \o [i \in 1..count |-> NewNode], !.capacity = @ + count * m_baseSize]

\* As many blocks as are missing are added at the end; the position was at the
\* capacity if the cursor was null, and now has a block.
addCapacity(b, n) ==
  LET old == getCapacity(b)
      count == (n - old + m_baseSize - 1) \div m_baseSize
  IN IF n = 0 \/ old >= n THEN b
     ELSE [b EXCEPT !.nodes = @ \o [i \in 1..count |-> NewNode],
                    !.capacity = @ + count * m_baseSize,
                    !.cur = IF old = 0 THEN Len(b.nodes) + 1 ELSE @]

\* The loop that write, both reads, getReadBuffers, getWriteBuffers and writeToFile
\* share: n bytes from offset off of block k on, block by block.
Segments(b, k, off, n) ==
  LET from[c \in 0..(Len(b.nodes) + 1), o \in 0..m_baseSize, left \in 0..n] ==
        IF left = 0 THEN <<>>
        ELSE IF m_baseSize - o >= left \/ c \notin 1..Len(b.nodes)
        THEN <<[node |-> c, off |-> o, len |-> left, bpos |-> n - left]>>
        ELSE <<[node |-> c, off |-> o, len |-> m_baseSize - o, bpos |-> n - left]>>
             \o from[c + 1, 0, left - (m_baseSize - o)]
  IN from[k, off, n]

\* The loop has come to a null pointer.
OffList(b, segs) == \E i \in DOMAIN segs : segs[i].node \notin 1..Len(b.nodes)

Loaded(b, segs, n) ==
  [i \in 1..n |->
     LET s == CHOOSE s \in {segs[k] : k \in DOMAIN segs} : s.bpos < i /\ i <= s.bpos + s.len
     IN b.nodes[s.node][s.off + (i - 1 - s.bpos)]]

Stored(b, segs, bytes) ==
  [k \in DOMAIN b.nodes |-> [j \in 0..(m_baseSize - 1) |->
     LET hit == {i \in 1..Len(bytes) : \E s \in {segs[x] : x \in DOMAIN segs} :
                   s.node = k /\ s.bpos < i /\ i <= s.bpos + s.len /\ j = s.off + (i - 1 - s.bpos)}
     IN IF hit = {} THEN b.nodes[k][j] ELSE bytes[CHOOSE i \in hit : TRUE]]]

\* Where the loop leaves the cursor: a block that was used up is passed.
CursorAfter(b, segs) ==
  LET s == segs[Len(segs)] IN IF s.off + s.len = m_baseSize THEN NextNode(b, s.node) ELSE s.node

-----------------------------------------------------------------------------
(* The methods.                                                             *)

write(b, bytes) ==
  LET n == Len(bytes)
      g == addCapacity(b, n)
      segs == Segments(g, g.cur, g.position % m_baseSize, n)
  IN IF n = 0 THEN b
     ELSE IF g.cur = NoNode \/ OffList(g, segs) THEN [g EXCEPT !.fault = TRUE]
     ELSE [g EXCEPT !.nodes = Stored(g, segs, bytes),
                    !.cur = CursorAfter(g, segs),
                    !.position = @ + n,
                    !.size = IF g.position + n > @ THEN g.position + n ELSE @]

Result(b, status, bytes, value) == [ba |-> b, status |-> status, bytes |-> bytes, value |-> value]

\* read(buf, size): the block of the cursor is looked at even if size is 0.
read(b, n) ==
  LET segs == Segments(b, b.cur, b.position % m_baseSize, n) IN
  IF n > getReadSize(b) THEN Result(b, "out_of_range", <<>>, 0)
  ELSE IF b.cur = NoNode \/ OffList(b, segs) THEN Result(b, "null", <<>>, 0)
  ELSE Result([b EXCEPT !.position = @ + n, !.cur = IF n = 0 THEN @ ELSE CursorAfter(b, segs)],
              "done", Loaded(b, segs, n), 0)

\* The blocks are walked from the first one on to that of position p, which is at
\* most the null pointer behind the last.
Reachable(b, p) == p \div m_baseSize <= Len(b.nodes)

\* read(buf, size, position): the cursor, not the block read from, gives the block
\* size.  m_size - position wraps for a position beyond the size, and nothing is
\* refused there.
readAt(b, n, p) ==
  LET segs == Segments(b, Node(b, p \div m_baseSize + 1), p % m_baseSize, n) IN
  IF p <= b.size /\ n > b.size - p THEN Result(b, "out_of_range", <<>>, 0)
  ELSE IF ~Reachable(b, p) \/ b.cur = NoNode \/ OffList(b, segs) THEN Result(b, "null", <<>>, 0)
  ELSE Result(b, "done", Loaded(b, segs, n), 0)

\* setPosition, for a position within the capacity.
setPosition(b, v) ==
  LET k == IF v = 0 THEN 1 ELSE (v - 1) \div m_baseSize + 1
  IN [b EXCEPT !.position = v,
               !.size = IF v > @ THEN v ELSE @,
               !.cur = IF v = k * m_baseSize THEN NextNode(b, k) ELSE Node(b, k)]

clear(b) ==
  [b EXCEPT !.position = 0, !.size = 0, !.capacity = m_baseSize,
            !.nodes = <<b.nodes[1]>>, !.cur = 1]

Available(b, len) == IF len > getReadSize(b) THEN getReadSize(b) ELSE len

\* The bytes behind the buffers of getReadBuffers(buffers, len).
getReadBuffers(b, len) ==
  LET n == Available(b, len)
      segs == Segments(b, b.cur, b.position % m_baseSize, n)
  IN IF n = 0 THEN Result(b, "done", <<>>, 0)
     ELSE IF b.cur = NoNode \/ OffList(b, segs) THEN Result(b, "null", <<>>, 0)
     ELSE Result(b, "done", Loaded(b, segs, n), 0)

\* The same from any position on; the length is limited by what follows the object's
\* position, so that the buffers may run past the size, or past the last block.
getReadBuffersAt(b, len, p) ==
  LET n == Available(b, len)
      segs == Segments(b, Node(b, p \div m_baseSize + 1), p % m_baseSize, n)
  IN IF n = 0 THEN Result(b, "done", <<>>, 0)
     ELSE IF OffList(b, segs) THEN Result(b, "null", <<>>, 0)
     ELSE Result(b, "done", Loaded(b, segs, n), 0)

\* getWriteBuffers(buffers, len) makes room; bytes then arrive in the buffers.
getWriteBuffers(b, len, bytes) ==
  LET g == addCapacity(b, len)
      segs == Segments(g, g.cur, g.position % m_baseSize, len)
  IN IF len = 0 THEN b
     ELSE IF g.cur = NoNode \/ OffList(g, segs) THEN [g EXCEPT !.fault = TRUE]
     ELSE [g EXCEPT !.nodes = Stored(g, segs, bytes)]

\* writeToFile steps through blocks of m_baseSize from the cursor on.
writeToFile(b) ==
  LET n == getReadSize(b)
      segs == Segments(b, b.cur, b.position % m_baseSize, n)
  IN IF OffList(b, segs) THEN Result(b, "null", <<>>, 0)
     ELSE Result(b, "done", Loaded(b, segs, n), 0)

\* readFromFile writes the file in pieces of a block.
readFromFile(b, bytes) ==
  LET pieces == (Len(bytes) + m_baseSize - 1) \div m_baseSize
      after[i \in 0..pieces] ==
        IF i = 0 THEN b
        ELSE write(after[i - 1],
                   SubSeq(bytes, (i - 1) * m_baseSize + 1,
                          IF i = pieces THEN Len(bytes) ELSE i * m_baseSize))
  IN after[pieces]

-----------------------------------------------------------------------------
(* Typed values.  Integers are sequences of length 1, strings of bytes.     *)

\* What is written for an item, as the successive calls of write.
Encoded(it, little) ==
  CASE it.kind = "fixed" -> <<InOrder(HostBytes(it.value[1]), little)>>
    [] it.kind = "varint" -> <<Varint(it.value[1])>>
    [] it.kind = "zigzag" -> <<Varint(EncodeZigzag(it.value[1]))>>
    [] it.kind = "stringF" -> <<InOrder(HostBytes(Len(it.value)), little), it.value>>
    [] it.kind = "stringV" -> <<Varint(Len(it.value)), it.value>>
    [] it.kind = "bytes" -> <<it.value>>

writeItem(b, it) ==
  LET parts == Encoded(it, b.little)
      after[i \in 0..Len(parts)] == IF i = 0 THEN b ELSE write(after[i - 1], parts[i])
  IN after[Len(parts)]

readFixed(b) ==
  LET r == read(b, FixedBytes) IN
  IF r.status = "done" THEN [r EXCEPT !.value = HostValue(InOrder(r.bytes, b.little))] ELSE r

\* readUint32, readUint64: byte after byte, at most as many as the width needs.
readUint(b) ==
  LET groups == (Width + PayloadBits - 1) \div PayloadBits
      after[i \in 0..groups] ==
        IF i = 0 THEN [r |-> Result(b, "done", <<>>, 0), done |-> FALSE]
        ELSE LET p == after[i - 1]
                 next == read(p.r.ba, 1)
                 part == (next.bytes[1] % Payload) * 2^(PayloadBits * (i - 1))
             IN IF p.done THEN p
                ELSE IF next.status # "done" THEN [r |-> next, done |-> TRUE]
                ELSE [r |-> Result(next.ba, "done", p.r.bytes \o next.bytes, (p.r.value + part) % Modulus),
                      done |-> next.bytes[1] < Payload]
  IN after[groups].r

\* The bytes of a string, after its length.
readBytes(length) ==
  LET r == read(length.ba, length.value) IN
  IF length.status # "done" THEN length
  ELSE [r EXCEPT !.bytes = length.bytes \o r.bytes, !.value = r.bytes]

AsValue(r) == [r EXCEPT !.value = <<@>>]

readItem(b, it) ==
  CASE it.kind = "fixed" -> AsValue(readFixed(b))
    [] it.kind = "varint" -> AsValue(readUint(b))
    [] it.kind = "zigzag" -> LET r == readUint(b) IN AsValue([r EXCEPT !.value = DecodeZigzag(@)])
    [] it.kind = "stringF" -> readBytes(readFixed(b))
    [] it.kind = "stringV" -> readBytes(readUint(b))
    [] it.kind = "bytes" -> LET r == read(b, Len(it.value)) IN [r EXCEPT !.value = r.bytes]

-----------------------------------------------------------------------------
(* Calls.                                                                   *)

\* What a call was asked for, from which place on, the bytes it passed or showed, and
\* what it returned: the number of bytes, or 0 or -1 from a stream.
Answers(call, status, from, asked, bytes, result) ==
  out' = [call |-> call, status |-> status, from |-> from, asked |-> asked, bytes |-> bytes, result |-> result]

\* Items outside [first, last) are still what they were.
Kept(first, last) == {it \in items : it.end <= first \/ last <= it.pos}

\* After a call that put bytes at the position; a fault can only be the end.
Wrote(b, call, asked, bytes, result, new) ==
  /\ writes < MaxWrites /\ writes' = writes + 1
  /\ ba' = b /\ alive' = ~b.fault
  /\ Answers(call, "done", ba.position, asked, bytes, result)
  /\ items' = Kept(ba.position, ba.position + Len(bytes)) \cup new

\* After a call that gave bytes: a null pointer ends the program, unless its only use
\* was for no bytes.
Gave(r, call, from, asked, result) ==
  /\ ba' = r.ba
  /\ Answers(call, r.status, from, asked, r.bytes, result)
  /\ alive' \in IF r.status # "null" THEN {TRUE} ELSE IF call = "read" \/ asked = 0 THEN BOOLEAN ELSE {FALSE}
  /\ UNCHANGED <<items, writes>>

WritesItem(it) ==
  LET b == writeItem(ba, it)
      parts == Encoded(it, ba.little)
      bytes == IF Len(parts) = 2 THEN parts[1] \o parts[2] ELSE parts[1]
  IN
  /\ ba.position + Len(bytes) <= MaxCapacity
  /\ Wrote(b, "write", Len(bytes), bytes, Len(bytes),
           {[kind |-> it.kind, value |-> it.value, little |-> ba.little,
             pos |-> ba.position, end |-> b.position]})

\* Clients read, at the position of an item, an item of its kind.
ReadsItem(it) ==
  LET r == readItem(ba, it) IN
  /\ it.pos = ba.position /\ it.little = ba.little
  /\ Gave(r, "read", ba.position, Len(r.bytes), Len(r.bytes))

Reads(n) == LET r == read(ba, n) IN Gave(r, "read", ba.position, n, Len(r.bytes))
ReadsAt(n, p) == LET r == readAt(ba, n, p) IN Gave(r, "readAt", p, n, Len(r.bytes))

\* toString, toHexString.
ReadsAll == getReadSize(ba) > 0 /\ ReadsAt(getReadSize(ba), ba.position)

SetsPosition(v) ==
  /\ IF v > ba.capacity
     THEN ba' = ba /\ Answers("setPosition", "out_of_range", 0, v, <<>>, 0)
     ELSE ba' = setPosition(ba, v) /\ out' = NoAnswer
  /\ UNCHANGED <<items, alive, writes>>

Clears ==
  /\ ba' = clear(ba) /\ items' = {} /\ out' = NoAnswer
  /\ UNCHANGED <<alive, writes>>

SetsIsLittleEndian(val) ==
  /\ ba' = [ba EXCEPT !.little = val] /\ out' = NoAnswer
  /\ UNCHANGED <<items, alive, writes>>

GetsReadBuffers(len) ==
  LET r == getReadBuffers(ba, len) IN Gave(r, "buffers", ba.position, len, Len(r.bytes))
GetsReadBuffersAt(len, p) ==
  LET r == getReadBuffersAt(ba, len, p) IN Gave(r, "buffers", p, len, Len(r.bytes))
WritesToFile ==
  LET r == writeToFile(ba) IN Gave(r, "buffers", ba.position, getReadSize(ba), Len(r.bytes))

ReadsFromFile(bytes) ==
  /\ ba.position + Len(bytes) <= MaxCapacity
  /\ Wrote(readFromFile(ba, bytes), "write", Len(bytes), bytes, Len(bytes), {})

\* What a stream returns when it fails: 0 at the end of it, -1 for an error.
Failures == {0, -1}

\* SocketStream::read(ba, length), of which the socket fills some.
streamRead(b, bytes, length) ==
  LET g == getWriteBuffers(b, length, bytes) IN
  IF g.fault \/ bytes = <<>> THEN g ELSE setPosition(g, g.position + Len(bytes))

\* A stream that is not connected fails before it makes room.
StreamReads(bytes, length) ==
  /\ Len(bytes) <= length /\ ba.position + length <= MaxCapacity
  /\ \/ bytes # <<>> /\ Wrote(streamRead(ba, bytes, length), "receive", length, bytes, Len(bytes), {})
     \/ bytes = <<>> /\ \E rt \in Failures, b \in {ba, streamRead(ba, bytes, length)} :
          Wrote(b, "receive", length, bytes, rt, {})

\* Stream::readFixSize(ba, length): reads of what is left, here two of which the
\* first gives `cut' bytes, until there is nothing left or a read fails, whose result
\* it returns.
readFixSize(b, bytes, cut, length) ==
  streamRead(streamRead(b, SubSeq(bytes, 1, cut), length), SubSeq(bytes, cut + 1, Len(bytes)), length - cut)

FixReads(bytes, cut, length) ==
  /\ cut <= Len(bytes) /\ Len(bytes) <= length
  /\ ba.position + length <= MaxCapacity
  /\ \E rt \in IF Len(bytes) = length THEN {length} ELSE Failures :
       Wrote(readFixSize(ba, bytes, cut, length), "receiveAll", length, bytes, rt, {})

StreamWrites_PassesAll(length, rt) ==
  LET r == getReadBuffers(ba, length) IN
  /\ rt <= Len(r.bytes)
  /\ Gave([r EXCEPT !.ba = setPosition(ba, ba.position + Len(r.bytes)),
                    !.bytes = SubSeq(@, 1, rt)], "send", ba.position, length, rt)

\* SocketStream::write(ba, length), of which the socket takes rt, or fails.
StreamWrites(length, rt) ==
  LET r == getReadBuffers(ba, length) IN
  /\ rt <= Len(r.bytes)
  /\ Gave([r EXCEPT !.ba = IF rt <= 0 THEN ba ELSE setPosition(ba, ba.position + rt),
                    !.bytes = SubSeq(@, 1, rt)], "send", ba.position, length, rt)

\* Stream::writeFixSize(ba, length): writes of what is left, of which the socket
\* takes `cut' and then more bytes, until nothing is left or one fails; with nothing
\* left in the ByteArray the socket takes none.
writeFixSize(b, length, cut, more) ==
  LET first == getReadBuffers(b, length)
      then == setPosition(b, b.position + cut)
      second == getReadBuffers(then, length - cut)
  IN Result(IF more = 0 THEN then ELSE setPosition(then, then.position + more), "done",
            SubSeq(first.bytes, 1, cut) \o SubSeq(second.bytes, 1, more), 0)

FixWrites(length, cut, more) ==
  /\ cut <= Available(ba, length)
  /\ more <= Available(setPosition(ba, ba.position + cut), length - cut)
  /\ \E rt \in IF cut + more = length THEN {length} ELSE Failures :
       Gave(writeFixSize(ba, length, cut, more), "sendAll", ba.position, length, rt)

-----------------------------------------------------------------------------
\* The caller has what the last call gave, and may make the next one.
Taken == out # NoAnswer /\ out' = NoAnswer /\ UNCHANGED <<ba, items, alive, writes>>

Call ==
  /\ out = NoAnswer
  /\ \/ \E it \in Items : WritesItem(it)
     \/ \E it \in items : ReadsItem(it)
     \/ \E v \in 0..(MaxCapacity + 1) : SetsPosition(v)
     \/ \E n \in Requests : Reads(n) \/ GetsReadBuffers(n)
     \/ \E n \in Requests, p \in 0..MaxCapacity : ReadsAt(n, p) \/ GetsReadBuffersAt(n, p)
     \/ \E bytes \in Received : ReadsFromFile(bytes) \/ \E n \in Requests \ {0} :
          StreamReads(bytes, n) \/ \E cut \in 1..Len(bytes) : FixReads(bytes, cut, n)
     \/ \E n \in Requests \ {0}, rt \in -1..MaxCapacity : StreamWrites(n, rt)
     \/ \E n \in Requests \ {0} : \E cut \in 1..n : \E more \in 0..(n - cut) : FixWrites(n, cut, more)
     \/ \E val \in BOOLEAN : SetsIsLittleEndian(val)
     \/ Clears \/ WritesToFile \/ ReadsAll

Next == alive /\ (Call \/ Taken)

Spec == Init /\ [][Next]_vars

-----------------------------------------------------------------------------
(* Properties.                                                              *)

\* The object's fields agree whatever sequence of calls was made: the capacity is that
\* of the blocks, the position is within the data and the data within the capacity, and
\* the cursor, which every method moves in its own way, is on the block of the position
\* (null at the capacity).  Writing never meets a null pointer.
WellFormed ==
  /\ ba.nodes \in Seq([0..(m_baseSize - 1) -> Byte \cup {Junk}])
  /\ ba.little \in BOOLEAN /\ alive \in BOOLEAN
  /\ ba.capacity = m_baseSize * Len(ba.nodes)
  /\ 0 <= ba.position /\ ba.position <= ba.size /\ ba.size <= ba.capacity
  /\ ba.cur = IF ba.position < ba.capacity THEN ba.position \div m_baseSize + 1 ELSE NoNode
  /\ ~ba.fault

\* The bytes of the blocks, up to the size.
Contents ==
  [i \in 1..ba.size |-> ba.nodes[(i - 1) \div m_baseSize + 1][(i - 1) % m_baseSize]]

\* A ByteArray is one sequence of bytes: what is written over, read, peeked at, sent and
\* received is what it would be without blocks, a request for more than there is changes
\* nothing, and a stream that fails on the way has passed exactly the bytes that went
\* through.  Where the code does not keep this, at the end of the capacity and for
\* positions given by the caller, FlatBuffer says what happens instead.
Flat == INSTANCE FlatBuffer WITH data <- Contents, pos <- ba.position, out <- out
ImplementsFlatBuffer == Flat!BufferSpec

\* Every item that was not overwritten is read back from its place in the byte order it
\* was written in, and the read ends where the item ends.  (An empty string that ends
\* at the capacity is the exception: reading its no bytes looks at a null cursor.)
ItemsReadBack ==
  \A it \in items :
    LET r == readItem([setPosition(ba, it.pos) EXCEPT !.little = it.little], it) IN
    \/ r.status = "done" /\ r.value = it.value /\ r.ba.position = it.end
    \/ r.status = "null" /\ it.value = <<>> /\ it.end = ba.capacity
=============================================================================
