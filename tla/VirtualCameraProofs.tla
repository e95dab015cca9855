------------------------- MODULE VirtualCameraProofs -------------------------
(***************************************************************************)
(* The virtual camera and its clients, for any clients, any size of a      *)
(* frame and of the socket buffers, and any number of connections.         *)
(*                                                                         *)
(* A client's read buffer and what is in its connection's pipe are one     *)
(* stream.  It is in blocks of Chunks units, each block the units of one   *)
(* frame, and the last one may be incomplete: it breaks off at the unit    *)
(* the writer has in hand if the connection is the one being written,      *)
(* anywhere if the app is gone, and nowhere otherwise.  A connection that  *)
(* the app still writes to is therefore at the end of a block before its   *)
(* turn, and a new connection starts with an empty buffer.                 *)
(***************************************************************************)
EXTENDS DalPlugin, SequenceTheorems, TLAPS

-----------------------------------------------------------------------------
(* Streams of frames *)

\* Where block n, counted from 0, begins.
Block(n) == n * Chunks

Unit == Nat \X Nat

\* In blocks of frames up to last; the last block may be incomplete.
Framed(s, last) ==
  \A n \in Nat, j \in 1 .. Chunks :
    Block(n) + j \in DOMAIN s =>
      /\ s[Block(n) + j] = <<s[Block(n) + 1][1], j>>
      /\ s[Block(n) + 1][1] \in 1 .. last

\* After the j-th unit of frame f, or at the end of a block if j is 0.
BreaksOff(s, j, f) ==
  \E n \in Nat :
    /\ Len(s) = Block(n) + j
    /\ j > 0 => s[Block(n) + 1][1] = f

-----------------------------------------------------------------------------
(* The invariant *)

Connections == [pipe : Seq(Unit), host : BOOLEAN, peer : BOOLEAN]

Writers == [pc : {"recv", "lock", "write", "ended"}, frame : Nat,
            todo : Seq(1 .. MaxConns), left : Seq(Unit)]

Types ==
  /\ frames \in Nat /\ conns \in 0 .. MaxConns
  /\ queue \in Seq(1 .. frames)
  /\ clients \in Seq(1 .. conns) /\ backlog \in Seq(1 .. conns)
  /\ writer \in Writers
  /\ conn \in [ConnIds -> Connections]
  /\ fd \in [Clients -> 0 .. conns]
  /\ buffer \in [Clients -> Seq(Unit)] /\ latest \in [Clients -> Seq(Unit)]

\* A client's connection is open on its side, and no other client's.
OwnConnections ==
  \A c \in Clients : fd[c] # 0 =>
    /\ conn[fd[c]].peer
    /\ \A d \in Clients : fd[d] = fd[c] => d = c

\* The writer has a frame, and in the round the rest of its units for the first
\* of the connections that it still has to write to.
WriterHasFrame ==
  /\ writer.pc \in {"lock", "write"} => writer.frame \in 1 .. frames
  /\ Locked =>
       /\ writer.todo # <<>> /\ writer.todo \in Seq(1 .. conns)
       /\ Len(writer.left) \in 1 .. Chunks
       /\ \A i \in 1 .. Len(writer.left) :
            writer.left[i] = <<writer.frame, Chunks - Len(writer.left) + i>>

In(k, s) == \E i \in DOMAIN s : s[i] = k

\* The connections that may still be written to.
Written(k) == In(k, clients) \/ In(k, backlog) \/ (Locked /\ In(k, writer.todo))

\* Where the stream of connection k is, when it may still be written to.
Sent(k) == IF Locked /\ Head(writer.todo) = k THEN Chunks - Len(writer.left) ELSE 0

Flow(c) == buffer[c] \o conn[fd[c]].pipe

FlowsAreFramed ==
  \A c \in Clients : fd[c] # 0 =>
    /\ Framed(Flow(c), frames)
    /\ Written(fd[c]) => BreaksOff(Flow(c), Sent(fd[c]), writer.frame)

IInv ==
  /\ Types /\ OwnConnections /\ WriterHasFrame /\ FlowsAreFramed /\ FramesAreWhole

-----------------------------------------------------------------------------
(* Blocks *)

\* Blocks follow one another.
LEMMA BlockFacts ==
  /\ Block(0) = 0
  /\ \A n \in Nat : Block(n) \in Nat /\ Block(n + 1) = Block(n) + Chunks
  /\ \A m, n \in Nat : Block(m + n) = Block(m) + Block(n)
  /\ \A m, n \in Nat : m < n => Block(m) + Chunks <= Block(n)
<1>1. Chunks \in Nat /\ Chunks > 0
  BY VirtualCameraAssumption
<1>2. Block(0) = 0
  BY <1>1 DEF Block
<1>3. \A n \in Nat : Block(n) \in Nat /\ Block(n + 1) = Block(n) + Chunks
  BY <1>1 DEF Block
<1>4. \A m, n \in Nat : Block(m + n) = Block(m) + Block(n)
  BY <1>1 DEF Block
<1>5. ASSUME NEW m \in Nat, NEW n \in Nat, m < n
      PROVE  Block(m) + Chunks <= Block(n)
  <2>1. PICK k \in Nat : n = (m + 1) + k
    <3>1. n - (m + 1) \in Nat /\ n = (m + 1) + (n - (m + 1))
      BY <1>5
    <3> QED BY <3>1
  <2>2. Block(n) = Block(m + 1) + Block(k) /\ Block(k) \in Nat /\ Block(m + 1) = Block(m) + Chunks
    BY <2>1, <1>3, <1>4
  <2> QED BY <2>2, <1>1, <1>3
<1> QED BY <1>2, <1>3, <1>4, <1>5

\* So do blocks of blocks.
LEMMA BlockSum ==
  ASSUME NEW m \in Nat, NEW n \in Nat
  PROVE  Block(m + n) = Block(m) + Block(n) /\ m + n \in Nat /\ Block(n) \in Nat
<1>1. m + n \in Nat
  OBVIOUS
<1>2. Block(n) \in Nat
  BY BlockFacts
<1>3. Chunks \in Nat
  BY VirtualCameraAssumption
<1>4. Block(m + n) = Block(m) + Block(n)
  BY <1>3 DEF Block
<1> QED BY <1>1, <1>2, <1>4

\* A place is in one block only.
LEMMA OnePlace ==
  ASSUME NEW m \in Nat, NEW n \in Nat, NEW i \in Nat, NEW j \in Nat,
         Block(m) + i = Block(n) + j,
         \/ i < Chunks /\ j < Chunks
         \/ 1 <= i /\ i <= Chunks /\ 1 <= j /\ j <= Chunks
  PROVE  m = n /\ i = j
<1>1. Chunks \in Nat /\ Block(m) \in Nat /\ Block(n) \in Nat
  BY VirtualCameraAssumption, BlockFacts
<1>2. ~(m < n) /\ ~(n < m)
  <2>1. m < n => Block(m) + Chunks <= Block(n)
    BY BlockFacts
  <2>2. n < m => Block(n) + Chunks <= Block(m)
    BY BlockFacts
  <2> QED BY <2>1, <2>2, <1>1
<1> QED BY <1>1, <1>2

\* The number of complete blocks.
LEMMA CompleteBlocks ==
  ASSUME NEW s \in Seq(Unit)
  PROVE  /\ Complete(s) \in Nat
         /\ Block(Complete(s)) <= Len(s) /\ Len(s) < Block(Complete(s)) + Chunks
<1>1. Chunks \in Nat /\ Chunks > 0 /\ Len(s) \in Nat
  BY VirtualCameraAssumption
<1>2. \A a, b \in Nat : b > 0 =>
        a \div b \in Nat /\ (a \div b) * b <= a /\ a < (a \div b) * b + b
  OBVIOUS
<1> QED BY <1>1, <1>2 DEF Complete, Block

-----------------------------------------------------------------------------
(* Streams *)

\* An empty stream is at the end of a block.
LEMMA EmptyStream ==
  ASSUME NEW last, NEW f
  PROVE  Framed(<<>>, last) /\ BreaksOff(<<>>, 0, f)
<1>1. Len(<<>>) = Block(0) + 0
  BY BlockFacts
<1> QED BY <1>1 DEF Framed, BreaksOff

\* More frames may follow.
LEMMA FramedStays ==
  ASSUME NEW s, NEW m \in Nat, NEW n \in Nat, m <= n, Framed(s, m)
  PROVE  Framed(s, n)
<1>1. \A f \in 1 .. m : f \in 1 .. n
  OBVIOUS
<1> QED BY <1>1 DEF Framed

\* The next unit of the frame, written behind a stream that breaks off there.
LEMMA UnitIsWritten ==
  ASSUME NEW s \in Seq(Unit), NEW last \in Nat, NEW f \in 1 .. last,
         NEW j \in 0 .. Chunks - 1, Framed(s, last), BreaksOff(s, j, f)
  PROVE  LET more == Append(s, <<f, j + 1>>)
         IN  /\ more \in Seq(Unit) /\ Framed(more, last)
             /\ IF j + 1 = Chunks THEN BreaksOff(more, 0, f) ELSE BreaksOff(more, j + 1, f)
<1> DEFINE u == <<f, j + 1>>
           more == Append(s, u)
<1>1. Chunks \in Nat /\ Chunks > 0 /\ j \in Nat /\ f \in Nat /\ j < Chunks
  BY VirtualCameraAssumption
<1>2. u \in Unit /\ u[1] = f /\ u[2] = j + 1
  BY <1>1 DEF Unit
<1>3. /\ more \in Seq(Unit) /\ Len(more) = Len(s) + 1 /\ Len(s) \in Nat
      /\ \A i \in 1 .. Len(s) : more[i] = s[i]
      /\ more[Len(s) + 1] = u
  BY <1>2, AppendProperties
<1>4. DOMAIN s = 1 .. Len(s) /\ DOMAIN more = 1 .. Len(s) + 1
  BY <1>3
<1>5. PICK n \in Nat : Len(s) = Block(n) + j /\ (j > 0 => s[Block(n) + 1][1] = f)
  BY DEF BreaksOff
<1>6. Block(n) \in Nat
  BY BlockFacts
<1> HIDE DEF u, more
<1>7. more[Block(n) + 1][1] = f
  <2>1. CASE j = 0
    <3>1. Block(n) + 1 = Len(s) + 1
      BY <2>1, <1>5, <1>6
    <3> QED BY <3>1, <1>2, <1>3
  <2>2. CASE j > 0
    <3>1. Block(n) + 1 \in 1 .. Len(s)
      BY <2>2, <1>1, <1>5, <1>6
    <3> QED BY <3>1, <2>2, <1>3, <1>5
  <2> QED BY <2>1, <2>2, <1>1
<1>8. Framed(more, last)
  <2> SUFFICES ASSUME NEW m \in Nat, NEW i \in 1 .. Chunks, Block(m) + i \in DOMAIN more
               PROVE  /\ more[Block(m) + i] = <<more[Block(m) + 1][1], i>>
                      /\ more[Block(m) + 1][1] \in 1 .. last
    BY DEF Framed
  <2>1. Block(m) \in Nat /\ i \in Nat /\ 1 <= i /\ i <= Chunks
    BY <1>1, BlockFacts
  <2>2. CASE Block(m) + i <= Len(s)
    <3>1. Block(m) + i \in 1 .. Len(s) /\ Block(m) + 1 \in 1 .. Len(s)
      BY <2>1, <2>2, <1>3
    <3>2. /\ s[Block(m) + i] = <<s[Block(m) + 1][1], i>>
          /\ s[Block(m) + 1][1] \in 1 .. last
      BY <3>1, <1>4 DEF Framed
    <3> QED BY <3>1, <3>2, <1>3
  <2>3. CASE ~(Block(m) + i <= Len(s))
    <3>1. Block(m) + i = Len(s) + 1
      BY <2>1, <2>3, <1>3, <1>4
    <3>2. Block(m) + i = Block(n) + (j + 1)
      BY <3>1, <1>1, <1>5, <1>6
    <3>3. 1 <= j + 1 /\ j + 1 <= Chunks /\ j + 1 \in Nat
      BY <1>1
    <3>4. m = n /\ i = j + 1
      BY <3>2, <3>3, <2>1, OnePlace
    <3> QED BY <3>1, <3>4, <1>3, <1>7 DEF u
  <2> QED BY <2>2, <2>3
<1>9. IF j + 1 = Chunks THEN BreaksOff(more, 0, f) ELSE BreaksOff(more, j + 1, f)
  <2>1. CASE j + 1 = Chunks
    <3>1. n + 1 \in Nat /\ Block(n + 1) = Block(n) + Chunks
      BY BlockFacts
    <3>2. Len(more) = Block(n + 1) + 0
      BY <3>1, <2>1, <1>1, <1>3, <1>5, <1>6
    <3> QED BY <3>1, <3>2, <2>1 DEF BreaksOff
  <2>2. CASE j + 1 # Chunks
    <3>1. Len(more) = Block(n) + (j + 1)
      BY <1>1, <1>3, <1>5, <1>6
    <3> QED BY <3>1, <2>2, <1>7 DEF BreaksOff
  <2> QED BY <2>1, <2>2
<1> QED BY <1>3, <1>8, <1>9 DEF more, u

\* A client finds a header wherever it looks for one, takes the complete frames away
\* and keeps the last of them.
LEMMA StreamIsProcessed ==
  ASSUME NEW s \in Seq(Unit), NEW last \in Nat, NEW old, Framed(s, last)
  PROVE  LET done == Process(s, old)
         IN  /\ done.rest \in Seq(Unit) /\ Framed(done.rest, last)
             /\ \A f \in Nat : \A j \in 0 .. Chunks - 1 :
                  BreaksOff(s, j, f) => BreaksOff(done.rest, j, f)
             /\ \/ done.latest = old
                \/ done.latest \in Seq(Unit) /\ \E f \in 1 .. last : done.latest = Units(f)
<1> DEFINE w == Complete(s)
           rest == SubSeq(s, Block(w) + 1, Len(s))
           newest == SubSeq(s, Block(w) - Chunks + 1, Block(w))
<1>1. Chunks \in Nat /\ Chunks > 0 /\ Len(s) \in Nat /\ DOMAIN s = 1 .. Len(s)
  BY VirtualCameraAssumption
<1>2. /\ w \in Nat /\ Block(w) \in Nat
      /\ Block(w) <= Len(s) /\ Len(s) < Block(w) + Chunks
  BY CompleteBlocks, BlockFacts
<1>a. \A n \in Nat : Block(n) \in Nat
  BY BlockFacts
<1>3. Valid(s)
  <2> SUFFICES ASSUME NEW n \in 0 .. w, n * Chunks < Len(s)
               PROVE  s[n * Chunks + 1][2] = 1
    BY DEF Valid, HasHeader
  <2>1. n \in Nat /\ Block(n) \in Nat /\ Block(n) = n * Chunks
    BY <1>2, BlockFacts DEF Block
  <2>2. Block(n) + 1 \in DOMAIN s /\ 1 \in 1 .. Chunks
    BY <2>1, <1>1
  <2>3. s[Block(n) + 1] = <<s[Block(n) + 1][1], 1>>
    BY <2>1, <2>2 DEF Framed
  <2> QED BY <2>1, <2>3
<1>4. Process(s, old) = [rest |-> rest, latest |-> IF w = 0 THEN old ELSE newest]
  BY <1>3 DEF Process, Block
<1>5. \A i \in 1 .. Len(s) : s[i] \in Unit
  OBVIOUS
<1>6. /\ rest \in Seq(Unit) /\ Len(rest) = Len(s) - Block(w)
      /\ \A i \in 1 .. Len(s) - Block(w) : rest[i] = s[Block(w) + i]
  <2>1. \A i \in Block(w) + 1 .. Len(s) : s[i] \in Unit
    BY <1>2, <1>5
  <2>2. /\ rest \in Seq(Unit)
        /\ Len(rest) = IF Block(w) + 1 <= Len(s) THEN Len(s) - (Block(w) + 1) + 1 ELSE 0
        /\ \A i \in 1 .. Len(s) - (Block(w) + 1) + 1 : rest[i] = s[(Block(w) + 1) + i - 1]
    BY SMTT(20), <2>1, <1>1, <1>2, SubSeqProperties
  <2>3. Len(s) - (Block(w) + 1) + 1 = Len(s) - Block(w)
    BY <1>1, <1>2
  <2>4. \A i \in 1 .. Len(s) - Block(w) : (Block(w) + 1) + i - 1 = Block(w) + i
    BY <1>1, <1>2
  <2>5. Len(rest) = Len(s) - Block(w)
    BY <2>2, <1>1, <1>2
  <2> HIDE DEF rest, w
  <2> QED BY <2>2, <2>3, <2>4, <2>5
<1> HIDE DEF w, rest, newest
<1>7. \A n \in Nat : Block(w + n) = Block(w) + Block(n) /\ w + n \in Nat /\ Block(n) \in Nat
  BY <1>2, BlockSum
<1>8. Framed(rest, last)
  <2> SUFFICES ASSUME NEW n \in Nat, NEW j \in 1 .. Chunks, Block(n) + j \in DOMAIN rest
               PROVE  /\ rest[Block(n) + j] = <<rest[Block(n) + 1][1], j>>
                      /\ rest[Block(n) + 1][1] \in 1 .. last
    BY DEF Framed
  <2>1. Block(n) \in Nat /\ j \in Nat /\ 1 <= j
    BY <1>1, BlockFacts
  <2>2. DOMAIN rest = 1 .. Len(s) - Block(w)
    BY <1>6
  <2>3. Block(n) + j \in 1 .. Len(s) - Block(w) /\ Block(n) + 1 \in 1 .. Len(s) - Block(w)
    BY <2>1, <2>2, <1>1, <1>2
  <2>4. /\ rest[Block(n) + j] = s[Block(w + n) + j]
        /\ rest[Block(n) + 1] = s[Block(w + n) + 1]
        /\ Block(w + n) + j \in DOMAIN s
    <3>1. Block(w + n) = Block(w) + Block(n)
      BY <1>7
    <3>2. Block(w) + (Block(n) + j) = Block(w + n) + j
          /\ Block(w) + (Block(n) + 1) = Block(w + n) + 1
      BY <3>1, <2>1, <1>2
    <3>3. Block(w + n) + j \in 1 .. Len(s)
      BY SMTT(20), <3>1, <2>1, <2>3, <1>1, <1>2
    <3> QED BY <3>2, <3>3, <2>3, <1>1, <1>6
  <2>5. /\ s[Block(w + n) + j] = <<s[Block(w + n) + 1][1], j>>
        /\ s[Block(w + n) + 1][1] \in 1 .. last
    BY <2>4, <1>7 DEF Framed
  <2> QED BY <2>4, <2>5
<1>9. ASSUME NEW f \in Nat, NEW j \in 0 .. Chunks - 1, BreaksOff(s, j, f)
      PROVE  BreaksOff(rest, j, f)
  <2>1. PICK n \in Nat : Len(s) = Block(n) + j /\ (j > 0 => s[Block(n) + 1][1] = f)
    BY <1>9 DEF BreaksOff
  <2>2. j \in Nat /\ j < Chunks
    BY <1>1
  <2>3. n = w
    <3>1. PICK i \in Nat : Len(s) = Block(w) + i /\ i < Chunks
      <4>1. Len(s) - Block(w) \in Nat
        BY <1>1, <1>2
      <4>2. Len(s) - Block(w) < Chunks /\ Len(s) = Block(w) + (Len(s) - Block(w))
        BY <1>1, <1>2
      <4> QED BY <4>1, <4>2
    <3>2. Block(n) + j = Block(w) + i /\ n \in Nat /\ w \in Nat
      BY <3>1, <2>1, <1>2
    <3>3. i \in Nat /\ j \in Nat /\ i < Chunks /\ j < Chunks
      BY <3>1, <2>2
    <3>4. n = w /\ j = i
      BY <3>2, <3>3, OnePlace
    <3> QED BY <3>4
  <2>4. Len(rest) = Block(0) + j
    <3>1. Block(0) = 0
      BY BlockFacts
    <3> QED BY <3>1, <2>1, <2>2, <2>3, <1>2, <1>6
  <2>5. j > 0 => rest[Block(0) + 1][1] = f
    <3> SUFFICES ASSUME j > 0 PROVE rest[1][1] = f
      <4>1. Block(0) + 1 = 1
        BY BlockFacts
      <4> QED BY <4>1
    <3>1. 1 \in 1 .. Len(s) - Block(w)
      BY <2>1, <2>2, <2>3, <1>2
    <3>2. rest[1] = s[Block(n) + 1]
      BY <3>1, <2>3, <1>6
    <3> QED BY <3>2, <2>1
  <2> QED BY <2>4, <2>5 DEF BreaksOff
<1>10. w # 0 => newest \in Seq(Unit) /\ \E f \in 1 .. last : newest = Units(f)
  <2> SUFFICES ASSUME w # 0
               PROVE  newest \in Seq(Unit) /\ \E f \in 1 .. last : newest = Units(f)
    OBVIOUS
  <2>1. PICK n \in Nat : w = n + 1
    <3>1. w - 1 \in Nat /\ w = (w - 1) + 1
      BY <1>2
    <3> QED BY <3>1
  <2>2. Block(w) = Block(n) + Chunks /\ Block(n) \in Nat /\ Block(w) - Chunks + 1 = Block(n) + 1
    <3>1. Block(n + 1) = Block(n) + Chunks
      BY BlockFacts
    <3> QED BY <3>1, <2>1, <1>1, <1>a
  <2>3. /\ newest \in Seq(Unit) /\ Len(newest) = Chunks
        /\ \A i \in 1 .. Chunks : newest[i] = s[Block(n) + i]
    <3>1. \A i \in Block(n) + 1 .. Block(w) : s[i] \in Unit
      BY <2>2, <1>2, <1>5
    <3>2. newest = SubSeq(s, Block(n) + 1, Block(w))
      BY <2>2 DEF newest
    <3>3. /\ newest \in Seq(Unit)
          /\ Len(newest) = IF Block(n) + 1 <= Block(w) THEN Block(w) - (Block(n) + 1) + 1 ELSE 0
          /\ \A i \in 1 .. Block(w) - (Block(n) + 1) + 1 : newest[i] = s[(Block(n) + 1) + i - 1]
      BY <3>1, <3>2, <2>2, <1>2, SubSeqProperties
    <3>4. Block(w) - (Block(n) + 1) + 1 = Chunks /\ Block(n) + 1 <= Block(w)
      BY <2>2, <1>1
    <3>5. \A i \in 1 .. Chunks : (Block(n) + 1) + i - 1 = Block(n) + i
      BY <2>2, <1>1
    <3> QED BY <3>3, <3>4, <3>5
  <2>4. \A i \in 1 .. Chunks : Block(n) + i \in DOMAIN s
    BY SMTT(20), <2>2, <1>1, <1>2
  <2> DEFINE f == s[Block(n) + 1][1]
  <2>5. \A i \in 1 .. Chunks : newest[i] = <<f, i>>
    BY <2>3, <2>4 DEF Framed
  <2>6. f \in 1 .. last
    <3>1. 1 \in 1 .. Chunks
      BY <1>1
    <3> QED BY <3>1, <2>4 DEF Framed
  <2> HIDE DEF f
  <2>7. newest = Units(f)
    <3>1. DOMAIN newest = 1 .. Chunks
      BY <2>3
    <3>2. newest = [i \in 1 .. Chunks |-> newest[i]]
      BY <3>1, <2>3
    <3> QED BY <3>2, <2>5 DEF Units
  <2> QED BY <2>3, <2>6, <2>7
<1> QED
  <2>1. /\ Process(s, old).rest = rest
        /\ Process(s, old).latest = IF w = 0 THEN old ELSE newest
    BY <1>4
  <2>2. Process(s, old).rest \in Seq(Unit) /\ Framed(Process(s, old).rest, last)
    BY <2>1, <1>6, <1>8
  <2>3. \A f \in Nat : \A j \in 0 .. Chunks - 1 :
          BreaksOff(s, j, f) => BreaksOff(Process(s, old).rest, j, f)
    BY <2>1, <1>9
  <2>4. \/ Process(s, old).latest = old
        \/ /\ Process(s, old).latest \in Seq(Unit)
           /\ \E f \in 1 .. last : Process(s, old).latest = Units(f)
    BY <2>1, <1>10
  <2> QED BY <2>2, <2>3, <2>4

-----------------------------------------------------------------------------
(* The app's steps *)

\* A client with a connection has one of those made, and reads units from it.
LEMMA FlowIsTyped ==
  ASSUME Types, NEW c \in Clients, fd[c] # 0
  PROVE  /\ fd[c] \in 1 .. conns /\ fd[c] \in ConnIds
         /\ conn[fd[c]].pipe \in Seq(Unit) /\ buffer[c] \in Seq(Unit)
         /\ Flow(c) \in Seq(Unit)
<1>1. fd[c] \in 1 .. conns /\ fd[c] \in ConnIds /\ buffer[c] \in Seq(Unit)
  BY VirtualCameraAssumption DEF Types, ConnIds
<1>2. conn[fd[c]].pipe \in Seq(Unit)
  <2>1. conn[fd[c]] \in Connections
    BY <1>1 DEF Types
  <2> QED BY <2>1 DEF Connections
<1> QED BY <1>1, <1>2, ConcatProperties DEF Flow

\* A step that neither writes nor reads, and after which no connection is written
\* to that was not before, nor another part of a frame written.
LEMMA AppKeeps ==
  ASSUME IInv, Types', WriterHasFrame', UNCHANGED <<fd, buffer, latest>>,
         frames <= frames',
         \A k \in ConnIds : /\ conn'[k].pipe = conn[k].pipe
                            /\ conn'[k].peer = conn[k].peer,
         \A k \in ConnIds : conn[k].peer /\ Written(k)' =>
           /\ Written(k) /\ Sent(k)' = Sent(k)
           /\ Sent(k) # 0 => writer'.frame = writer.frame
  PROVE  IInv'
<1>1. Types /\ frames \in Nat /\ frames' \in Nat
  BY DEF IInv, Types
<1>2. OwnConnections'
  BY <1>1, FlowIsTyped DEF IInv, OwnConnections
<1>3. FramesAreWhole'
  <2>1. \A f \in 1 .. frames : f \in 1 .. frames'
    BY <1>1
  <2> QED BY <2>1 DEF IInv, FramesAreWhole, Units
<1>4. ASSUME NEW c \in Clients, fd[c] # 0
      PROVE  /\ Framed(Flow(c)', frames')
             /\ Written(fd[c])' => BreaksOff(Flow(c)', Sent(fd[c])', writer'.frame)
  <2>1. fd[c] \in ConnIds /\ conn[fd[c]].peer /\ Flow(c)' = Flow(c)
    BY <1>1, <1>4, FlowIsTyped DEF IInv, OwnConnections, Flow
  <2>2. Framed(Flow(c), frames)
        /\ (Written(fd[c]) => BreaksOff(Flow(c), Sent(fd[c]), writer.frame))
    BY <1>4 DEF IInv, FlowsAreFramed
  <2>3. Framed(Flow(c)', frames')
    BY <1>1, <2>1, <2>2, FramedStays
  <2>4. ASSUME Written(fd[c])'
        PROVE  BreaksOff(Flow(c)', Sent(fd[c])', writer'.frame)
    <3>1. /\ Written(fd[c]) /\ Sent(fd[c])' = Sent(fd[c])
          /\ Sent(fd[c]) # 0 => writer'.frame = writer.frame
      BY <2>1, <2>4
    <3>2. CASE Sent(fd[c]) = 0
      BY <3>1, <3>2, <2>1, <2>2 DEF BreaksOff
    <3>3. CASE Sent(fd[c]) # 0
      BY <3>1, <3>3, <2>1, <2>2
    <3> QED BY <3>2, <3>3
  <2> QED BY <2>3, <2>4
<1>5. FlowsAreFramed'
  BY <1>4 DEF FlowsAreFramed
<1> QED BY <1>2, <1>3, <1>5 DEF IInv

\* The writers that the code leaves behind.
LEMMA WritersAreTyped ==
  ASSUME NEW w \in Writers
  PROVE  /\ Idle \in Writers
         /\ \A f \in Nat : [Idle EXCEPT !.pc = "lock", !.frame = f] \in Writers
         /\ [w EXCEPT !.pc = "ended"] \in Writers
<1>1. <<>> \in Seq(1 .. MaxConns) /\ <<>> \in Seq(Unit)
  OBVIOUS
<1>2. Idle \in Writers
  BY <1>1 DEF Writers, Idle
<1>3. \A f \in Nat : [Idle EXCEPT !.pc = "lock", !.frame = f] \in Writers
  BY <1>1 DEF Writers, Idle
<1>4. [w EXCEPT !.pc = "ended"] \in Writers
  BY DEF Writers
<1> QED BY <1>2, <1>3, <1>4

\* The writer is as it was, or idle, or at a lock with a frame.
LEMMA WriterIsUnlocked ==
  ASSUME writer'.pc \in {"recv", "lock", "ended"},
         writer'.pc = "lock" => writer'.frame \in 1 .. frames'
  PROVE  WriterHasFrame' /\ ~Locked' /\ \A k \in ConnIds : Sent(k)' = 0
  BY DEF WriterHasFrame, Locked, Sent

\* Start, and the end of the process, leave nobody to write to.
LEMMA StartKeeps == ASSUME IInv, Start \/ Exit PROVE IInv'
<1>1. /\ UNCHANGED <<frames, conns, fd, buffer, latest>> /\ queue' = <<>>
      /\ clients' = <<>> /\ backlog' = <<>> /\ writer' = Idle
  BY DEF Start, Exit, clientVars
<1>2. \A k \in ConnIds : /\ conn'[k].pipe = conn[k].pipe /\ conn'[k].peer = conn[k].peer
                         /\ conn'[k] \in Connections
  <2>1. \A k \in ConnIds : conn[k] \in Connections
    BY DEF IInv, Types
  <2>2. CASE Start
    BY <2>1, <2>2 DEF Start
  <2>3. CASE Exit
    BY <2>1, <2>3 DEF Exit, Connections
  <2> QED BY <2>2, <2>3
<1>3. conn' \in [ConnIds -> Connections]
  <2>1. CASE Start
    BY <2>1 DEF Start, IInv, Types
  <2>2. CASE Exit
    BY <2>2, <1>2 DEF Exit
  <2> QED BY <2>1, <2>2
<1>4. Idle \in Writers /\ writer'.pc = "recv"
  <2>1. Idle \in Writers
    BY WritersAreTyped DEF IInv, Types
  <2> QED BY <2>1, <1>1 DEF Idle
<1>5. Types'
  BY <1>1, <1>3, <1>4 DEF IInv, Types
<1>6. WriterHasFrame' /\ ~Locked'
  BY <1>4, WriterIsUnlocked
<1>7. \A k \in ConnIds : ~Written(k)'
  BY <1>1, <1>6 DEF Written, In
<1>8. frames <= frames'
  BY <1>1 DEF IInv, Types
<1> QED BY <1>1, <1>2, <1>5, <1>6, <1>7, <1>8, AppKeeps

\* A frame is counted, and queued or dropped.
LEMMA SendFrameKeeps == ASSUME IInv, SendFrame PROVE IInv'
<1>1. /\ frames' = frames + 1 /\ frames \in Nat
      /\ UNCHANGED <<clients, backlog, writer, conn, conns, fd, buffer, latest>>
  BY DEF SendFrame, clientVars, IInv, Types
<1>2. \A f \in 1 .. frames : f \in 1 .. frames'
  BY <1>1
<1>3. queue' \in Seq(1 .. frames')
  <2>1. queue \in Seq(1 .. frames')
    <3>1. queue \in Seq(1 .. frames)
      BY DEF IInv, Types
    <3>2. 1 .. frames \subseteq 1 .. frames'
      BY <1>2
    <3> QED BY <3>1, <3>2, SeqMonotonic
  <2>2. <<frames + 1>> \in Seq(1 .. frames')
    BY <1>1
  <2> QED BY <2>1, <2>2 DEF SendFrame
<1>4. Types'
  BY <1>1, <1>3 DEF IInv, Types
<1>5. WriterHasFrame'
  BY <1>1, <1>2 DEF IInv, WriterHasFrame, Locked
<1>6. \A k \in ConnIds : Written(k)' = Written(k) /\ Sent(k)' = Sent(k)
  BY <1>1 DEF Written, Sent, In, Locked
<1> QED BY <1>1, <1>4, <1>5, <1>6, AppKeeps

\* stop lets the writer be.
LEMMA StopKeeps == ASSUME IInv, StopDropsSender \/ StopClears PROVE IInv'
<1>1. /\ UNCHANGED <<queue, frames, backlog, writer, conns, fd, buffer, latest>>
      /\ clients' \in {clients, <<>>}
  BY DEF StopDropsSender, StopClears, clientVars
<1>2. \A k \in ConnIds : /\ conn'[k].pipe = conn[k].pipe /\ conn'[k].peer = conn[k].peer
                         /\ conn'[k] \in Connections
  <2>1. \A k \in ConnIds : conn[k] \in Connections
    BY DEF IInv, Types
  <2>2. CASE StopDropsSender
    BY <2>1, <2>2 DEF StopDropsSender
  <2>3. CASE StopClears
    BY <2>1, <2>3 DEF StopClears, Connections
  <2> QED BY <2>2, <2>3
<1>3. conn' \in [ConnIds -> Connections]
  <2>1. CASE StopDropsSender
    BY <2>1 DEF StopDropsSender, IInv, Types
  <2>2. CASE StopClears
    BY <2>2, <1>2 DEF StopClears
  <2> QED BY <2>1, <2>2
<1>4. Types'
  <2>1. clients \in Seq(1 .. conns) /\ <<>> \in Seq(1 .. conns)
    BY DEF IInv, Types
  <2>2. clients' \in Seq(1 .. conns)
    BY <2>1, <1>1
  <2> QED BY <2>2, <1>1, <1>3 DEF IInv, Types
<1>5. WriterHasFrame' /\ frames <= frames'
  BY <1>1 DEF IInv, WriterHasFrame, Locked, Types
<1>6. \A k \in ConnIds : (Written(k)' => Written(k)) /\ Sent(k)' = Sent(k)
  BY <1>1 DEF Written, Sent, In, Locked
<1> QED BY <1>1, <1>2, <1>4, <1>5, <1>6, AppKeeps

\* The listener moves a connection to the list.
LEMMA AcceptKeeps == ASSUME IInv, Accept PROVE IInv'
<1>1. /\ backlog # <<>> /\ clients' = Append(clients, Head(backlog)) /\ backlog' = Tail(backlog)
      /\ UNCHANGED <<queue, frames, writer, conn, conns, fd, buffer, latest>>
  BY DEF Accept, clientVars
<1>2. clients \in Seq(1 .. conns) /\ backlog \in Seq(1 .. conns)
  BY DEF IInv, Types
<1>a. Len(backlog) \in Nat \ {0}
  BY <1>1, <1>2
<1>b. Head(backlog) = backlog[1] /\ 1 \in DOMAIN backlog
  BY <1>a, <1>2
<1>c. Head(backlog) \in 1 .. conns /\ backlog' \in Seq(1 .. conns)
  BY <1>1, <1>2, HeadTailProperties
<1>3. /\ Head(backlog) \in 1 .. conns /\ Head(backlog) = backlog[1] /\ 1 \in DOMAIN backlog
      /\ backlog' \in Seq(1 .. conns) /\ clients' \in Seq(1 .. conns)
  BY <1>1, <1>2, <1>b, <1>c
<1>4. \A k \in ConnIds : In(k, clients') => In(k, clients) \/ In(k, backlog)
  <2>1. \A i \in DOMAIN clients' :
          \/ clients'[i] = Head(backlog)
          \/ i \in DOMAIN clients /\ clients'[i] = clients[i]
    BY <1>1, <1>2, <1>3
  <2> QED BY <2>1, <1>3 DEF In
<1>5. \A k \in ConnIds : In(k, backlog') => In(k, backlog)
  <2>1. \A i \in DOMAIN backlog' : i + 1 \in DOMAIN backlog /\ backlog'[i] = backlog[i + 1]
    BY <1>1, <1>2
  <2> QED BY <2>1 DEF In
<1>6. Types'
  BY <1>1, <1>3 DEF IInv, Types
<1>7. WriterHasFrame' /\ frames <= frames'
  BY <1>1 DEF IInv, WriterHasFrame, Locked, Types
<1>8. \A k \in ConnIds : (Written(k)' => Written(k)) /\ Sent(k)' = Sent(k)
  BY <1>1, <1>4, <1>5 DEF Written, Sent, In, Locked
<1> QED BY <1>1, <1>6, <1>7, <1>8, AppKeeps

\* The writer takes a frame, or ends.
LEMMA WriterTakesKeeps == ASSUME IInv, WriterRecv \/ WriterEnds PROVE IInv'
<1>1. /\ writer.pc = "recv" /\ writer \in Writers /\ queue \in Seq(1 .. frames) /\ frames \in Nat
      /\ UNCHANGED <<frames, clients, backlog, conn, conns, fd, buffer, latest>>
  BY DEF WriterRecv, WriterEnds, clientVars, IInv, Types
<1>2. /\ queue' \in Seq(1 .. frames) /\ writer' \in Writers
      /\ writer'.pc \in {"lock", "ended"}
      /\ writer'.pc = "lock" => writer'.frame \in 1 .. frames
  <2>1. CASE WriterRecv
    <3>1. Head(queue) \in 1 .. frames /\ queue' \in Seq(1 .. frames)
      BY <2>1, <1>1 DEF WriterRecv
    <3>2. Head(queue) \in Nat /\ writer' = [Idle EXCEPT !.pc = "lock", !.frame = Head(queue)]
      BY <2>1, <3>1, <1>1 DEF WriterRecv
    <3>3. writer' \in Writers
      BY <3>2, <1>1, WritersAreTyped
    <3>4. writer'.pc = "lock" /\ writer'.frame = Head(queue)
      BY <3>2 DEF Idle
    <3> QED BY <3>1, <3>3, <3>4
  <2>2. CASE WriterEnds
    <3>1. writer' = [writer EXCEPT !.pc = "ended"] /\ queue' = queue
      BY <2>2 DEF WriterEnds
    <3>2. writer'.pc = "ended"
      BY <3>1, <1>1 DEF Writers
    <3> QED BY <3>1, <3>2, <1>1, WritersAreTyped
  <2> QED BY <2>1, <2>2
<1>3. Types'
  BY <1>1, <1>2 DEF IInv, Types
<1>4. WriterHasFrame' /\ ~Locked' /\ \A k \in ConnIds : Sent(k)' = 0
  BY <1>1, <1>2, WriterIsUnlocked
<1>5. \A k \in ConnIds : (Written(k)' => Written(k)) /\ Sent(k) = 0
  BY <1>1, <1>4 DEF Written, Sent, In, Locked
<1> QED BY <1>1, <1>3, <1>4, <1>5, AppKeeps

\* The units of a frame, in order.
LEMMA UnitsOfFrame ==
  ASSUME NEW f \in Nat
  PROVE  /\ Units(f) \in Seq(Unit) /\ Len(Units(f)) = Chunks
         /\ \A i \in 1 .. Chunks : Units(f)[i] = <<f, i>>
<1>1. Chunks \in Nat
  BY VirtualCameraAssumption
<1>2. \A i \in 1 .. Chunks : <<f, i>> \in Unit
  BY <1>1 DEF Unit
<1>3. Units(f) \in [1 .. Chunks -> Unit]
  BY <1>2 DEF Units
<1>4. Units(f) \in Seq(Unit)
  BY <1>1, <1>3
<1>5. Len(Units(f)) = Chunks
  BY <1>1, <1>3, <1>4, LenProperties DEF Units
<1> QED BY <1>4, <1>5 DEF Units

\* What a part of a sequence holds, the whole does.
LEMMA PartsOfSequences ==
  ASSUME NEW S, NEW s \in Seq(S)
  PROVE  /\ s # <<>> => /\ Tail(s) \in Seq(S) /\ Head(s) = s[1] /\ 1 \in DOMAIN s
                        /\ \A k : In(k, Tail(s)) => In(k, s)
         /\ \A i \in DOMAIN s : /\ RemoveAt(s, i) \in Seq(S)
                                /\ \A k : In(k, RemoveAt(s, i)) => In(k, s)
<1>0. Len(s) \in Nat /\ DOMAIN s = 1 .. Len(s) /\ \A n \in 1 .. Len(s) : s[n] \in S
  OBVIOUS
<1>1. ASSUME s # <<>>
      PROVE  /\ Tail(s) \in Seq(S) /\ Head(s) = s[1] /\ 1 \in DOMAIN s
             /\ \A k : In(k, Tail(s)) => In(k, s)
  <2>1. Tail(s) \in Seq(S) /\ Len(Tail(s)) = Len(s) - 1 /\ Len(s) \in Nat \ {0}
    BY <1>1, HeadTailProperties, EmptySeq
  <2>2. \A i \in DOMAIN Tail(s) : i + 1 \in DOMAIN s /\ Tail(s)[i] = s[i + 1]
    BY <1>0, <1>1, <2>1, HeadTailProperties
  <2>3. Head(s) = s[1] /\ 1 \in DOMAIN s
    BY <1>0, <2>1
  <2> QED BY <2>1, <2>2, <2>3 DEF In
<1>2. ASSUME NEW i \in 1 .. Len(s)
      PROVE  RemoveAt(s, i) \in Seq(S) /\ \A k : In(k, RemoveAt(s, i)) => In(k, s)
  <2> DEFINE before == SubSeq(s, 1, i - 1)
             behind == SubSeq(s, i + 1, Len(s))
  <2>0. Len(s) \in Nat /\ i \in Nat /\ i <= Len(s)
    BY <1>0
  <2>1. /\ before \in Seq(S) /\ Len(before) = i - 1
        /\ \A n \in 1 .. i - 1 : before[n] = s[n]
    <3>1. \A n \in 1 .. i - 1 : s[n] \in S
      BY <1>0
    <3>2. /\ before \in Seq(S) /\ Len(before) = IF 1 <= i - 1 THEN i - 1 - 1 + 1 ELSE 0
          /\ \A n \in 1 .. i - 1 - 1 + 1 : before[n] = s[1 + n - 1]
      BY <3>1, <1>0, SubSeqProperties
    <3>3. Len(before) = i - 1 /\ i - 1 - 1 + 1 = i - 1
      BY <3>2, <1>0
    <3>4. \A n \in 1 .. i - 1 : 1 + n - 1 = n
      BY <1>0
    <3> HIDE DEF before
    <3> QED BY <3>2, <3>3, <3>4
  <2>2. /\ behind \in Seq(S) /\ Len(behind) = Len(s) - i
        /\ \A n \in 1 .. Len(s) - i : behind[n] = s[i + n]
    <3>1. \A n \in i + 1 .. Len(s) : s[n] \in S
      BY <1>0
    <3>2. /\ behind \in Seq(S)
          /\ Len(behind) = IF i + 1 <= Len(s) THEN Len(s) - (i + 1) + 1 ELSE 0
          /\ \A n \in 1 .. Len(s) - (i + 1) + 1 : behind[n] = s[i + 1 + n - 1]
      BY <3>1, <1>0, SubSeqProperties
    <3> HIDE DEF behind
    <3>3. i \in Nat /\ i <= Len(s) /\ Len(s) - (i + 1) + 1 = Len(s) - i
      BY <1>0
    <3>4. \A n \in 1 .. Len(s) - i : i + 1 + n - 1 = i + n
      BY <1>0
    <3>5. Len(behind) = Len(s) - i
      <4>1. Len(behind) = IF i + 1 <= Len(s) THEN Len(s) - (i + 1) + 1 ELSE 0
        BY <3>2
      <4> QED BY <4>1, <2>0
    <3> QED BY <3>2, <3>3, <3>4, <3>5
  <2>3. RemoveAt(s, i) = before \o behind
    BY DEF RemoveAt
  <2> HIDE DEF before, behind
  <2>4. /\ RemoveAt(s, i) \in Seq(S) /\ Len(RemoveAt(s, i)) = Len(s) - 1
        /\ \A n \in 1 .. Len(s) - 1 :
             RemoveAt(s, i)[n] = IF n <= i - 1 THEN before[n] ELSE behind[n - (i - 1)]
    <3>1. Len(before) + Len(behind) = Len(s) - 1
      BY <2>1, <2>2, <1>0
    <3>2. /\ before \o behind \in Seq(S) /\ Len(before \o behind) = Len(before) + Len(behind)
          /\ \A n \in 1 .. Len(before) + Len(behind) :
               (before \o behind)[n] = IF n <= Len(before) THEN before[n]
                                       ELSE behind[n - Len(before)]
      BY <2>1, <2>2, ConcatProperties
    <3> QED BY <3>1, <3>2, <2>1, <2>3
  <2>5. ASSUME NEW n \in 1 .. Len(s) - 1
        PROVE  \E m \in 1 .. Len(s) : RemoveAt(s, i)[n] = s[m]
    <3>1. CASE n <= i - 1
      <4>1. n \in 1 .. i - 1 /\ n \in 1 .. Len(s)
        BY <3>1, <1>0
      <4> QED BY <4>1, <3>1, <2>1, <2>4
    <3>2. CASE ~(n <= i - 1)
      <4>1. n - (i - 1) \in 1 .. Len(s) - i /\ n + 1 \in 1 .. Len(s) /\ i + (n - (i - 1)) = n + 1
        BY <3>2, <1>0
      <4> QED BY <4>1, <3>2, <2>2, <2>4
    <3> QED BY <3>1, <3>2
  <2>6. DOMAIN RemoveAt(s, i) = 1 .. Len(s) - 1
    BY <2>4
  <2> QED BY <2>4, <2>5, <2>6, <1>0 DEF In
<1> QED BY <1>0, <1>1, <1>2

\* The writer turns to the first connection of todo, or is done with its round.
LEMMA WriterGoesOn ==
  ASSUME IInv, writer.pc \in {"lock", "write"}, NEW todo \in Seq(1 .. conns),
         writer' = Onwards(todo), UNCHANGED <<frames, conns>>
  PROVE  /\ writer' \in Writers /\ WriterHasFrame' /\ \A k \in ConnIds : Sent(k)' = 0
         /\ Locked' => writer'.todo = todo /\ writer'.frame = writer.frame
<1>1. /\ writer \in Writers /\ writer.frame \in 1 .. frames /\ writer.frame \in Nat
      /\ conns \in 0 .. MaxConns /\ Chunks \in Nat \ {0}
  BY VirtualCameraAssumption DEF IInv, Types, WriterHasFrame, Writers
<1>2. CASE todo = <<>>
  <2>1. writer' = Idle /\ Idle \in Writers
    BY <1>1, <1>2, WritersAreTyped DEF Onwards
  <2>2. writer'.pc = "recv"
    BY <2>1 DEF Idle
  <2> QED BY <2>1, <2>2, WriterIsUnlocked DEF Locked
<1>3. CASE todo # <<>>
  <2>1. writer' = [writer EXCEPT !.pc = "write", !.todo = todo, !.left = Units(writer.frame)]
    BY <1>3 DEF Onwards
  <2>2. todo \in Seq(1 .. MaxConns)
    <3>1. 1 .. conns \subseteq 1 .. MaxConns
      BY <1>1, VirtualCameraAssumption
    <3> QED BY <3>1, SeqMonotonic
  <2>3. /\ Units(writer.frame) \in Seq(Unit) /\ Len(Units(writer.frame)) = Chunks
        /\ \A i \in 1 .. Chunks : Units(writer.frame)[i] = <<writer.frame, i>>
    BY <1>1, UnitsOfFrame
  <2>4. /\ writer'.pc = "write" /\ writer'.todo = todo /\ writer'.left = Units(writer.frame)
        /\ writer'.frame = writer.frame
    BY <1>1, <2>1 DEF Writers
  <2>5. writer' \in Writers
    BY <1>1, <2>1, <2>2, <2>3 DEF Writers
  <2>6. \A i \in 1 .. Chunks : Chunks - Chunks + i = i
    BY <1>1
  <2>7. WriterHasFrame'
    <3>1. Len(writer'.left) \in 1 .. Chunks
      BY <1>1, <2>3, <2>4
    <3>2. \A i \in 1 .. Len(writer'.left) :
            writer'.left[i] = <<writer'.frame, Chunks - Len(writer'.left) + i>>
      BY <2>3, <2>4, <2>6
    <3> QED BY <3>1, <3>2, <1>1, <1>3, <2>4 DEF WriterHasFrame, Locked
  <2>8. \A k \in ConnIds : Sent(k)' = 0
    <3>1. Chunks - Len(writer'.left) = 0
      BY <1>1, <2>3, <2>4
    <3> QED BY <3>1 DEF Sent
  <2> QED BY <2>4, <2>5, <2>7, <2>8
<1> QED BY <1>2, <1>3

\* The writer begins a round.
LEMMA WriterLocksKeeps == ASSUME IInv, WriterLocks PROVE IInv'
<1>1. /\ writer.pc = "lock" /\ writer' = Onwards(clients)
      /\ UNCHANGED <<queue, frames, clients, backlog, conn, conns, fd, buffer, latest>>
  BY DEF WriterLocks, clientVars
<1>2. clients \in Seq(1 .. conns) /\ frames \in Nat
  BY DEF IInv, Types
<1>3. /\ writer' \in Writers /\ WriterHasFrame' /\ \A k \in ConnIds : Sent(k)' = 0
      /\ Locked' => writer'.todo = clients /\ writer'.frame = writer.frame
  BY <1>1, <1>2, WriterGoesOn
<1>4. Types'
  BY <1>1, <1>3 DEF IInv, Types
<1>5. \A k \in ConnIds : (Written(k)' => Written(k)) /\ Sent(k) = 0
  BY <1>1, <1>3 DEF Written, Sent, In, Locked
<1> QED BY <1>1, <1>2, <1>3, <1>4, <1>5, AppKeeps

\* A client that is gone is left out from now on.
LEMMA WriteFailsKeeps == ASSUME IInv, WriteFails PROVE IInv'
<1> DEFINE k == Head(writer.todo)
<1>1. /\ Locked /\ ~conn[k].peer /\ writer' = Onwards(Tail(writer.todo))
      /\ conn' = [conn EXCEPT ![k].host = FALSE]
      /\ \E i \in DOMAIN clients : clients' = RemoveAt(clients, i)
      /\ UNCHANGED <<queue, frames, backlog, conns, fd, buffer, latest>>
  BY DEF WriteFails, clientVars
<1>2. /\ writer.todo \in Seq(1 .. conns) /\ writer.todo # <<>>
      /\ clients \in Seq(1 .. conns) /\ frames \in Nat
  BY <1>1 DEF IInv, Types, WriterHasFrame
<1>3. /\ clients' \in Seq(1 .. conns) /\ \A m : In(m, clients') => In(m, clients)
      /\ Tail(writer.todo) \in Seq(1 .. conns)
      /\ \A m : In(m, Tail(writer.todo)) => In(m, writer.todo)
  <2>1. PICK i \in DOMAIN clients : clients' = RemoveAt(clients, i)
    BY <1>1
  <2>2. clients' \in Seq(1 .. conns) /\ \A m : In(m, clients') => In(m, clients)
    BY <2>1, <1>2, PartsOfSequences
  <2>3. /\ Tail(writer.todo) \in Seq(1 .. conns)
        /\ \A m : In(m, Tail(writer.todo)) => In(m, writer.todo)
    BY <1>2, PartsOfSequences
  <2> QED BY <2>2, <2>3
<1> HIDE DEF k
<1>4. /\ writer' \in Writers /\ WriterHasFrame' /\ \A m \in ConnIds : Sent(m)' = 0
      /\ Locked' => writer'.todo = Tail(writer.todo) /\ writer'.frame = writer.frame
  BY <1>1, <1>3, WriterGoesOn DEF Locked
<1>5. /\ conn' \in [ConnIds -> Connections]
      /\ \A m \in ConnIds : conn'[m].pipe = conn[m].pipe /\ conn'[m].peer = conn[m].peer
  <2>1. conn \in [ConnIds -> Connections]
    BY DEF IInv, Types
  <2>2. \A m \in ConnIds : conn'[m] = IF m = k THEN [conn[m] EXCEPT !.host = FALSE] ELSE conn[m]
    BY <2>1, <1>1
  <2>3. \A m \in ConnIds : conn[m] \in Connections
    BY <2>1
  <2>4. \A m \in ConnIds : /\ conn'[m] \in Connections
                           /\ conn'[m].pipe = conn[m].pipe /\ conn'[m].peer = conn[m].peer
    BY <2>2, <2>3 DEF Connections
  <2> QED BY <2>1, <2>4, <1>1
<1>6. Types'
  BY <1>1, <1>3, <1>4, <1>5 DEF IInv, Types
<1>7. ASSUME NEW m \in ConnIds, conn[m].peer, Written(m)'
      PROVE  Written(m) /\ Sent(m) = 0
  <2>1. m # k
    BY <1>1, <1>7
  <2>2. Sent(m) = 0
    BY <2>1 DEF Sent, k
  <2>3. In(m, clients') \/ In(m, backlog) \/ (Locked' /\ In(m, writer'.todo))
    BY <1>1, <1>7 DEF Written, In
  <2> QED BY <2>2, <2>3, <1>1, <1>3, <1>4 DEF Written
<1> QED BY <1>1, <1>2, <1>4, <1>5, <1>6, <1>7, AppKeeps

\* What is appended to the second of two sequences is at the end of both.
LEMMA AppendToFlow ==
  ASSUME NEW S, NEW s \in Seq(S), NEW t \in Seq(S), NEW x \in S
  PROVE  s \o Append(t, x) = Append(s \o t, x)
OBVIOUS

\* The unit in hand goes behind what its connection has, and where the stream of it
\* breaks off next is known; the other streams stay.
LEMMA WriteKeeps == ASSUME IInv, Write PROVE IInv'
<1>0. PICK k, u, j : /\ k = Head(writer.todo) /\ u = Head(writer.left)
                     /\ j = Chunks - Len(writer.left)
  OBVIOUS
<1>1. /\ Locked /\ conn[k].peer /\ conn' = [conn EXCEPT ![k].pipe = Append(@, u)]
      /\ writer' = IF Len(writer.left) = 1 THEN Onwards(Tail(writer.todo))
                   ELSE [writer EXCEPT !.left = Tail(@)]
      /\ UNCHANGED <<queue, frames, clients, backlog, conns, fd, buffer, latest>>
  BY <1>0 DEF Write, clientVars
<1>2. /\ Types /\ conns \in 0 .. MaxConns /\ frames \in Nat /\ writer \in Writers
      /\ conn \in [ConnIds -> Connections] /\ Chunks \in Nat \ {0}
  BY VirtualCameraAssumption DEF IInv, Types
<1>3. /\ writer.todo \in Seq(1 .. conns) /\ writer.todo # <<>>
      /\ writer.frame \in 1 .. frames /\ writer.left \in Seq(Unit)
      /\ Len(writer.left) \in 1 .. Chunks
      /\ \A i \in 1 .. Len(writer.left) : writer.left[i] = <<writer.frame, j + i>>
  BY <1>0, <1>1, <1>2 DEF IInv, WriterHasFrame, Writers, Locked
<1>4. /\ k \in 1 .. conns /\ k \in ConnIds /\ In(k, writer.todo)
      /\ Tail(writer.todo) \in Seq(1 .. conns)
      /\ \A m : In(m, Tail(writer.todo)) => In(m, writer.todo)
  <2>1. Head(writer.todo) = writer.todo[1] /\ 1 \in DOMAIN writer.todo
        /\ Head(writer.todo) \in 1 .. conns
    BY <1>3, PartsOfSequences, HeadTailProperties
  <2>a. k = writer.todo[1] /\ k \in 1 .. conns
    BY <2>1, <1>0
  <2>2. k \in ConnIds
    BY <2>a, <1>2, VirtualCameraAssumption DEF ConnIds
  <2> QED BY <2>1, <2>a, <2>2, <1>3, PartsOfSequences DEF In
<1>5. /\ j \in 0 .. Chunks - 1 /\ u = <<writer.frame, j + 1>> /\ u \in Unit
      /\ writer.left # <<>>
  <2>1. j \in 0 .. Chunks - 1 /\ 1 \in 1 .. Len(writer.left) /\ writer.left # <<>>
    BY <1>0, <1>2, <1>3
  <2>2. u = writer.left[1] /\ u \in Unit
    BY <1>0, <1>3, <2>1, PartsOfSequences, HeadTailProperties
  <2> QED BY <2>1, <2>2, <1>3
<1>6. conn' \in [ConnIds -> Connections]
      /\ \A m \in ConnIds : /\ conn'[m].peer = conn[m].peer
                            /\ conn'[m].pipe = IF m = k THEN Append(conn[m].pipe, u)
                                               ELSE conn[m].pipe
  <2>1. \A m \in ConnIds : conn[m] \in Connections
    BY <1>2
  <2>2. conn[k].pipe \in Seq(Unit)
    BY <2>1, <1>4 DEF Connections
  <2>3. Append(conn[k].pipe, u) \in Seq(Unit)
    BY <2>2, <1>5, AppendProperties
  <2>4. \A m \in ConnIds :
          conn'[m] = IF m = k THEN [conn[m] EXCEPT !.pipe = Append(conn[m].pipe, u)] ELSE conn[m]
    BY <1>1, <1>2
  <2>5. \A m \in ConnIds : /\ conn'[m] \in Connections /\ conn'[m].peer = conn[m].peer
                           /\ conn'[m].pipe = IF m = k THEN Append(conn[m].pipe, u)
                                              ELSE conn[m].pipe
    BY ZenonT(30), <2>1, <2>3, <2>4 DEF Connections
  <2> QED BY <2>5, <1>1, <1>2
<1>7. /\ writer' \in Writers /\ WriterHasFrame'
      /\ Locked' => \A m : In(m, writer'.todo) => In(m, writer.todo)
      /\ \A m \in ConnIds : Sent(m)' = IF m = k /\ j + 1 # Chunks THEN j + 1 ELSE 0
      /\ j + 1 # Chunks => writer'.frame = writer.frame
  <2>1. CASE Len(writer.left) = 1
    <3>1. writer' = Onwards(Tail(writer.todo)) /\ j + 1 = Chunks
      BY <2>1, <1>0, <1>1, <1>2
    <3>2. writer.pc = "write"
      BY <1>1 DEF Locked
    <3>3. /\ writer' \in Writers /\ WriterHasFrame' /\ \A m \in ConnIds : Sent(m)' = 0
          /\ Locked' => writer'.todo = Tail(writer.todo) /\ writer'.frame = writer.frame
      BY <3>1, <3>2, <1>1, <1>4, WriterGoesOn
    <3> QED BY <3>1, <3>3, <1>4
  <2>2. CASE Len(writer.left) # 1
    <3>a. writer' = [writer EXCEPT !.left = Tail(writer.left)]
      BY <2>2, <1>1
    <3>c. /\ Chunks \in Nat /\ Len(writer.left) \in Nat /\ Len(writer.left) <= Chunks
          /\ 2 <= Len(writer.left) /\ j = Chunks - Len(writer.left) /\ j \in Nat
      <4>1. Chunks \in Nat
        BY <1>2
      <4>2. PICK n \in 1 .. Chunks : n = Len(writer.left)
        BY <1>3
      <4>3. n \in Nat /\ n <= Chunks /\ 2 <= n /\ Chunks - n \in Nat
        <5>1. n \in 1 .. Chunks /\ n # 1
          BY <4>2, <2>2
        <5> QED BY <4>1, <5>1
      <4> QED BY <4>1, <4>2, <4>3, <1>0
    <3>b. j + 1 # Chunks
      BY <3>c
    <3>1. writer' = [writer EXCEPT !.left = Tail(writer.left)] /\ j + 1 # Chunks
      BY <3>a, <3>b
    <3>2. /\ Tail(writer.left) \in Seq(Unit) /\ Len(Tail(writer.left)) = Len(writer.left) - 1
          /\ \A i \in 1 .. Len(writer.left) - 1 : Tail(writer.left)[i] = writer.left[i + 1]
      BY <1>3, <1>5, HeadTailProperties
    <3>3. /\ writer' \in Writers /\ writer'.pc = "write" /\ writer'.frame = writer.frame
          /\ writer'.todo = writer.todo /\ writer'.left = Tail(writer.left)
      BY <3>1, <3>2, <1>1, <1>2 DEF Writers, Locked
    <3>4. /\ Len(writer'.left) \in 1 .. Chunks
          /\ Chunks - Len(writer'.left) = j + 1
      <4>1. Len(writer'.left) = Len(writer.left) - 1
        BY <3>2, <3>3
      <4> QED BY <4>1, <3>c
    <3>5. ASSUME NEW i \in 1 .. Len(writer'.left)
          PROVE  writer'.left[i] = <<writer'.frame, Chunks - Len(writer'.left) + i>>
      <4>1. i \in 1 .. Len(writer.left) - 1
        BY <3>2, <3>3
      <4>2. i + 1 \in 1 .. Len(writer.left) /\ j + (i + 1) = (j + 1) + i
        BY <4>1, <3>c
      <4> QED BY <4>1, <4>2, <3>2, <3>3, <3>4, <1>3
    <3>6. WriterHasFrame'
      BY <3>3, <3>4, <3>5, <1>1, <1>3 DEF WriterHasFrame, Locked
    <3>7. \A m \in ConnIds : Sent(m)' = IF m = k THEN j + 1 ELSE 0
      BY <3>3, <3>4, <1>0 DEF Sent, Locked
    <3> QED BY <3>1, <3>3, <3>6, <3>7
  <2> QED BY <2>1, <2>2
<1>8. \A m \in ConnIds : Sent(m) = IF m = k THEN j ELSE 0
  BY <1>0, <1>1 DEF Sent
<1>9. \A m \in ConnIds : Written(m)' => Written(m)
  <2>1. ASSUME NEW m \in ConnIds, Written(m)' PROVE Written(m)
    <3>1. In(m, clients) \/ In(m, backlog) \/ (Locked' /\ In(m, writer'.todo))
      BY <1>1, <2>1 DEF Written, In
    <3> QED BY <3>1, <1>1, <1>7 DEF Written
  <2> QED BY <2>1
<1>10. Written(k)
  BY <1>1, <1>4 DEF Written
<1>11. Types'
  BY <1>1, <1>2, <1>6, <1>7 DEF Types
<1>12. ASSUME NEW c \in Clients, fd[c] # 0
       PROVE  /\ Framed(Flow(c)', frames)
              /\ Written(fd[c])' => BreaksOff(Flow(c)', Sent(fd[c])', writer'.frame)
  <2>1. /\ fd[c] \in ConnIds /\ Flow(c) \in Seq(Unit)
        /\ conn[fd[c]].pipe \in Seq(Unit) /\ buffer[c] \in Seq(Unit)
    BY <1>2, <1>12, FlowIsTyped
  <2>2. Framed(Flow(c), frames)
        /\ (Written(fd[c]) => BreaksOff(Flow(c), Sent(fd[c]), writer.frame))
    BY <1>12 DEF IInv, FlowsAreFramed
  <2>3. CASE fd[c] = k
    <3>1. Flow(c)' = Append(Flow(c), u)
      <4>1. Flow(c)' = buffer[c] \o Append(conn[fd[c]].pipe, u)
        BY <2>1, <2>3, <1>1, <1>6 DEF Flow
      <4>2. buffer[c] \o Append(conn[fd[c]].pipe, u) = Append(buffer[c] \o conn[fd[c]].pipe, u)
        <5>1. PICK s \in Seq(Unit), t \in Seq(Unit) : s = buffer[c] /\ t = conn[fd[c]].pipe
          BY <2>1
        <5>2. s \o Append(t, u) = Append(s \o t, u)
          BY <1>5, AppendToFlow
        <5> QED BY <5>1, <5>2
      <4> QED BY <4>1, <4>2 DEF Flow
    <3>2. BreaksOff(Flow(c), j, writer.frame)
      BY <2>1, <2>2, <2>3, <1>8, <1>10
    <3>3. LET more == Append(Flow(c), <<writer.frame, j + 1>>)
          IN  /\ more \in Seq(Unit) /\ Framed(more, frames)
              /\ IF j + 1 = Chunks THEN BreaksOff(more, 0, writer.frame)
                 ELSE BreaksOff(more, j + 1, writer.frame)
      BY <2>1, <2>2, <3>2, <1>2, <1>3, <1>5, UnitIsWritten
    <3>4. /\ Framed(Flow(c)', frames)
          /\ IF j + 1 = Chunks THEN BreaksOff(Flow(c)', 0, writer.frame)
             ELSE BreaksOff(Flow(c)', j + 1, writer.frame)
      BY <3>1, <3>3, <1>5
    <3>5. CASE j + 1 = Chunks
      <4>1. Sent(fd[c])' = 0
        BY <3>5, <2>1, <2>3, <1>1, <1>7
      <4> QED BY <4>1, <3>4, <3>5 DEF BreaksOff
    <3>6. CASE j + 1 # Chunks
      <4>1. Sent(k)' = j + 1 /\ writer'.frame = writer.frame
        BY <3>6, <2>1, <2>3, <1>7
      <4>2. BreaksOff(Flow(c)', j + 1, writer'.frame)
        BY <4>1, <3>4, <3>6
      <4> QED BY <4>1, <4>2, <3>4, <2>3, <1>1
    <3> QED BY <3>5, <3>6
  <2>4. CASE fd[c] # k
    <3>1. Flow(c)' = Flow(c)
      BY <2>1, <2>4, <1>1, <1>6 DEF Flow
    <3>2. Sent(fd[c]) = 0 /\ (\A m \in ConnIds : m # k => Sent(m)' = 0)
      BY <2>1, <2>4, <1>7, <1>8
    <3>3. Written(fd[c])' => BreaksOff(Flow(c), 0, writer.frame)
      BY <2>1, <2>2, <3>2, <1>1, <1>9
    <3>4. Sent(fd[c])' = 0
      BY <2>1, <2>4, <3>2, <1>1
    <3> QED BY <3>1, <3>3, <3>4, <2>2 DEF BreaksOff
  <2> QED BY <2>3, <2>4
<1>13. FlowsAreFramed'
  BY <1>1, <1>12 DEF FlowsAreFramed
<1>14. OwnConnections'
  BY <1>1, <1>2, <1>6, FlowIsTyped DEF IInv, OwnConnections
<1>15. FramesAreWhole'
  BY <1>1 DEF IInv, FramesAreWhole, Units
<1> QED BY <1>7, <1>11, <1>13, <1>14, <1>15 DEF IInv

-----------------------------------------------------------------------------
(* The clients' steps *)

\* The units of the frame in hand that are out are fewer than a frame.
LEMMA SentIsTyped ==
  ASSUME IInv, NEW k
  PROVE  Sent(k) \in 0 .. Chunks - 1 /\ (Sent(k) # 0 => writer.frame \in Nat)
<1>1. Chunks \in Nat \ {0} /\ frames \in Nat
  BY VirtualCameraAssumption DEF IInv, Types
<1>2. CASE Locked
  <2>1. PICK n \in 1 .. Chunks : n = Len(writer.left)
    BY <1>2 DEF IInv, WriterHasFrame
  <2>2. Chunks - n \in 0 .. Chunks - 1 /\ 0 \in 0 .. Chunks - 1
    BY <1>1
  <2>3. writer.frame \in Nat
    BY <1>1, <1>2 DEF IInv, WriterHasFrame, Locked
  <2> QED BY <2>1, <2>2, <2>3 DEF Sent
<1>3. CASE ~Locked
  <2>1. 0 \in 0 .. Chunks - 1
    BY <1>1
  <2> QED BY <2>1, <1>3 DEF Sent
<1> QED BY <1>2, <1>3

\* A step that leaves a client's stream alone leaves it framed.
LEMMA StreamStays ==
  ASSUME IInv, NEW d \in Clients, fd[d] # 0,
         UNCHANGED <<frames, writer>>, fd'[d] = fd[d], Flow(d)' = Flow(d),
         Written(fd[d])' => Written(fd[d])
  PROVE  /\ Framed(Flow(d)', frames')
         /\ Written(fd[d])' => BreaksOff(Flow(d)', Sent(fd[d])', writer'.frame)
<1>1. Framed(Flow(d), frames)
      /\ (Written(fd[d]) => BreaksOff(Flow(d), Sent(fd[d]), writer.frame))
  BY DEF IInv, FlowsAreFramed
<1>2. Sent(fd[d])' = Sent(fd[d])
  BY DEF Sent, Locked
<1> QED BY <1>1, <1>2

\* What a client reads goes through its buffer; the connection is where it was.
LEMMA ReadKeeps ==
  ASSUME IInv, NEW c \in Clients, ReadFromHost(c)
  PROVE  IInv'
<1> DEFINE done == Process(Flow(c), latest[c])
<1>1. /\ fd[c] # 0 /\ conn' = [conn EXCEPT ![fd[c]].pipe = <<>>]
      /\ buffer' = [buffer EXCEPT ![c] = done.rest]
      /\ latest' = [latest EXCEPT ![c] = done.latest]
      /\ UNCHANGED <<queue, frames, clients, backlog, writer, conns, fd>>
  BY DEF ReadFromHost, hostVars, Flow
<1>2. /\ Types /\ frames \in Nat /\ conn \in [ConnIds -> Connections]
      /\ buffer \in [Clients -> Seq(Unit)] /\ latest \in [Clients -> Seq(Unit)]
  BY DEF IInv, Types
<1>3. fd[c] \in ConnIds /\ Flow(c) \in Seq(Unit)
  BY <1>1, <1>2, FlowIsTyped
<1>4. /\ Framed(Flow(c), frames)
      /\ Written(fd[c]) => BreaksOff(Flow(c), Sent(fd[c]), writer.frame)
  BY <1>1 DEF IInv, FlowsAreFramed
<1>5. /\ done.rest \in Seq(Unit) /\ Framed(done.rest, frames)
      /\ \A f \in Nat : \A j \in 0 .. Chunks - 1 :
           BreaksOff(Flow(c), j, f) => BreaksOff(done.rest, j, f)
      /\ \/ done.latest = latest[c]
         \/ done.latest \in Seq(Unit) /\ \E f \in 1 .. frames : done.latest = Units(f)
  BY <1>2, <1>3, <1>4, StreamIsProcessed
<1> HIDE DEF done
<1>6. \A m \in ConnIds : /\ conn'[m] \in Connections /\ conn'[m].peer = conn[m].peer
                         /\ conn'[m].pipe = IF m = fd[c] THEN <<>> ELSE conn[m].pipe
  <2>1. \A m \in ConnIds : conn[m] \in Connections
    BY <1>2
  <2>2. \A m \in ConnIds :
          conn'[m] = IF m = fd[c] THEN [conn[m] EXCEPT !.pipe = <<>>] ELSE conn[m]
    BY <1>1, <1>2
  <2>3. <<>> \in Seq(Unit)
    OBVIOUS
  <2> QED BY <2>1, <2>2, <2>3 DEF Connections
<1>7. \A d \in Clients : /\ buffer'[d] = IF d = c THEN done.rest ELSE buffer[d]
                         /\ latest'[d] = IF d = c THEN done.latest ELSE latest[d]
  BY <1>1, <1>2
<1>8. Types'
  <2>1. conn' \in [ConnIds -> Connections]
    BY <1>1, <1>2, <1>6
  <2>2. buffer' \in [Clients -> Seq(Unit)]
    BY <1>1, <1>2, <1>5
  <2>3. latest' \in [Clients -> Seq(Unit)]
    BY <1>1, <1>2, <1>5
  <2> QED BY <2>1, <2>2, <2>3, <1>1, <1>2 DEF Types
<1>9. OwnConnections'
  BY <1>1, <1>2, <1>6, FlowIsTyped DEF IInv, OwnConnections
<1>10. WriterHasFrame'
  BY <1>1 DEF IInv, WriterHasFrame, Locked
<1>11. FramesAreWhole'
  <2> SUFFICES ASSUME NEW d \in Clients, latest'[d] # <<>>
               PROVE  \E f \in 1 .. frames : latest'[d] = Units(f)
    BY <1>1 DEF FramesAreWhole, Units
  <2>1. latest[d] # <<>> => \E f \in 1 .. frames : latest[d] = Units(f)
    BY DEF IInv, FramesAreWhole
  <2> QED BY <2>1, <1>5, <1>7
<1>12. \A k \in ConnIds : Written(k)' => Written(k)
  BY <1>1 DEF Written, Locked, In
<1>13. ASSUME NEW d \in Clients, fd'[d] # 0
       PROVE  /\ Framed(Flow(d)', frames')
              /\ Written(fd[d])' => BreaksOff(Flow(d)', Sent(fd[d])', writer'.frame)
  <2>1. fd[d] # 0 /\ fd'[d] = fd[d] /\ fd[d] \in ConnIds
    BY <1>1, <1>2, <1>13, FlowIsTyped
  <2>2. CASE d = c
    <3>1. Flow(c)' = done.rest
      <4>1. Flow(c)' = done.rest \o <<>>
        BY <1>1, <1>3, <1>6, <1>7 DEF Flow
      <4> QED BY <4>1, <1>5
    <3>2. Sent(fd[c])' = Sent(fd[c])
      BY <1>1 DEF Sent, Locked
    <3>3. Written(fd[c])' => BreaksOff(done.rest, Sent(fd[c]), writer.frame)
      <4> SUFFICES ASSUME Written(fd[c])'
                   PROVE  BreaksOff(done.rest, Sent(fd[c]), writer.frame)
        OBVIOUS
      <4>0. Written(fd[c])
        BY <1>1 DEF Written, Locked, In
      <4>1. BreaksOff(Flow(c), Sent(fd[c]), writer.frame)
        BY <4>0, <1>4
      <4>2. Sent(fd[c]) \in 0 .. Chunks - 1
        BY SentIsTyped
      <4>3. writer.frame \in Nat
        BY <1>2 DEF Types, Writers
      <4> QED BY <4>1, <4>2, <4>3, <1>5
    <3> QED BY <3>1, <3>2, <3>3, <2>1, <2>2, <1>1, <1>5
  <2>3. CASE d # c
    <3>1. fd[d] # fd[c]
      BY <2>1, <2>3, <1>1 DEF IInv, OwnConnections
    <3>2. Flow(d)' = Flow(d)
      BY <3>1, <2>1, <2>3, <1>6, <1>7 DEF Flow
    <3> QED BY <3>2, <2>1, <1>1, <1>12, StreamStays
  <2> QED BY <2>2, <2>3
<1>14. FlowsAreFramed'
  BY <1>13 DEF FlowsAreFramed
<1> QED BY <1>8, <1>9, <1>10, <1>11, <1>14 DEF IInv

\* A new connection has nothing in it, and its client an empty buffer.
LEMMA ConnectKeeps ==
  ASSUME IInv, NEW c \in Clients, TryConnect(c)
  PROVE  IInv'
<1>0. PICK n \in Nat : n = conns + 1
  BY DEF IInv, Types
<1>1. /\ fd[c] = 0 /\ conns < MaxConns /\ conns' = n
      /\ conn' = [conn EXCEPT ![n] = [pipe |-> <<>>, host |-> TRUE, peer |-> TRUE]]
      /\ fd' = [fd EXCEPT ![c] = n]
      /\ buffer' = [buffer EXCEPT ![c] = <<>>]
      /\ backlog' = Append(backlog, n)
      /\ UNCHANGED <<queue, frames, clients, writer, latest>>
  BY <1>0 DEF TryConnect
<1>2. /\ Types /\ frames \in Nat /\ conn \in [ConnIds -> Connections]
      /\ buffer \in [Clients -> Seq(Unit)] /\ fd \in [Clients -> 0 .. conns]
      /\ clients \in Seq(1 .. conns) /\ backlog \in Seq(1 .. conns)
      /\ conns \in 0 .. MaxConns /\ MaxConns \in Nat
  BY VirtualCameraAssumption DEF IInv, Types
<1>3. /\ n \in 1 .. MaxConns /\ n \in ConnIds /\ n # 0 /\ n \notin 1 .. conns
      /\ 1 .. conns \subseteq 1 .. n /\ 0 .. conns \subseteq 0 .. n /\ n \in 1 .. n
  BY <1>0, <1>1, <1>2 DEF ConnIds
<1>4. \A m \in ConnIds :
        conn'[m] = IF m = n THEN [pipe |-> <<>>, host |-> TRUE, peer |-> TRUE] ELSE conn[m]
  BY <1>1, <1>2
<1>5. \A d \in Clients : /\ buffer'[d] = IF d = c THEN <<>> ELSE buffer[d]
                         /\ fd'[d] = IF d = c THEN n ELSE fd[d]
  BY <1>1, <1>2
<1>6. Types'
  <2>1. conn' \in [ConnIds -> Connections]
    <3>1. [pipe |-> <<>>, host |-> TRUE, peer |-> TRUE] \in Connections
      BY DEF Connections
    <3> QED BY <3>1, <1>1, <1>2
  <2>2. buffer' \in [Clients -> Seq(Unit)]
    <3>1. <<>> \in Seq(Unit)
      OBVIOUS
    <3> QED BY <3>1, <1>1, <1>2
  <2>3. fd' \in [Clients -> 0 .. n]
    BY <1>1, <1>2, <1>3
  <2>4. clients' \in Seq(1 .. n) /\ backlog \in Seq(1 .. n)
    BY <1>1, <1>2, <1>3, SeqMonotonic
  <2>5. backlog' \in Seq(1 .. n)
    BY <2>4, <1>1, <1>3, AppendProperties
  <2>6. n \in 0 .. MaxConns
    BY <1>3
  <2> QED BY <2>1, <2>2, <2>3, <2>4, <2>5, <2>6, <1>1, <1>2 DEF Types
<1>7. WriterHasFrame'
  <2>1. writer.todo \in Seq(1 .. conns) => writer.todo \in Seq(1 .. n)
    BY <1>3, SeqMonotonic
  <2> QED BY <2>1, <1>1 DEF IInv, WriterHasFrame, Locked
<1>8. FramesAreWhole'
  BY <1>1 DEF IInv, FramesAreWhole, Units
<1>9. ASSUME NEW d \in Clients, d # c, fd'[d] # 0
      PROVE  fd[d] # 0 /\ fd'[d] = fd[d] /\ fd[d] \in ConnIds /\ fd[d] # n
  <2>1. fd[d] # 0 /\ fd'[d] = fd[d]
    BY <1>5, <1>9
  <2>2. fd[d] \in 1 .. conns /\ fd[d] \in ConnIds
    BY <2>1, <1>2, FlowIsTyped
  <2> QED BY <2>1, <2>2, <1>3
<1>10. OwnConnections'
  <2> SUFFICES ASSUME NEW d \in Clients, fd'[d] # 0
               PROVE  conn'[fd'[d]].peer /\ \A e \in Clients : fd'[e] = fd'[d] => e = d
    BY DEF OwnConnections
  <2>1. CASE d = c
    <3>1. \A e \in Clients : fd'[e] = n => e = c
      BY <1>3, <1>9
    <3> QED BY <3>1, <2>1, <1>3, <1>4, <1>5
  <2>2. CASE d # c
    <3>1. conn[fd[d]].peer /\ \A e \in Clients : fd[e] = fd[d] => e = d
      BY <2>2, <1>9 DEF IInv, OwnConnections
    <3>2. \A e \in Clients : fd'[e] = fd'[d] => e # c /\ fd[e] = fd[d]
      BY <2>2, <1>5, <1>9
    <3> QED BY <3>1, <3>2, <2>2, <1>4, <1>9
  <2> QED BY <2>1, <2>2
<1>11. \A k \in ConnIds : In(k, backlog') => k = n \/ In(k, backlog)
  <2>1. PICK s \in Seq(1 .. conns) : s = backlog
    BY <1>2
  <2>2. \A i \in DOMAIN Append(s, n) : \/ Append(s, n)[i] = n
                                       \/ i \in DOMAIN s /\ Append(s, n)[i] = s[i]
    OBVIOUS
  <2> QED BY <2>1, <2>2, <1>1 DEF In
<1>12. ASSUME NEW d \in Clients, fd'[d] # 0
       PROVE  /\ Framed(Flow(d)', frames')
              /\ Written(fd[d])' => BreaksOff(Flow(d)', Sent(fd[d])', writer'.frame)
  <2>1. CASE d = c
    <3>1. Flow(d)' = <<>>
      <4>1. Flow(d)' = <<>> \o <<>>
        BY <2>1, <1>3, <1>4, <1>5 DEF Flow
      <4> QED BY <4>1
    <3>2. Sent(fd[d])' = 0
      <4>1. Locked => Head(writer.todo) \in 1 .. conns
        BY HeadTailProperties DEF IInv, WriterHasFrame
      <4>2. Locked => Head(writer.todo) # n
        BY <4>1, <1>3
      <4>3. fd'[d] = n /\ writer' = writer
        BY <2>1, <1>1, <1>5
      <4> QED BY <4>2, <4>3 DEF Sent, Locked
    <3> QED BY <3>1, <3>2, EmptyStream
  <2>2. CASE d # c
    <3>1. Flow(d)' = Flow(d)
      BY <2>2, <1>4, <1>5, <1>9, <1>12 DEF Flow
    <3>2. Written(fd[d])' => Written(fd[d])
      <4>1. Written(fd[d])' => In(fd[d], clients) \/ In(fd[d], backlog')
                                 \/ (Locked /\ In(fd[d], writer.todo))
        BY <2>2, <1>1, <1>9, <1>12 DEF Written, Locked, In
      <4> QED BY <4>1, <2>2, <1>9, <1>11, <1>12 DEF Written
    <3> QED BY <3>1, <3>2, <2>2, <1>1, <1>9, <1>12, StreamStays
  <2> QED BY <2>1, <2>2
<1>13. FlowsAreFramed'
  BY <1>12 DEF FlowsAreFramed
<1> QED BY <1>6, <1>7, <1>8, <1>10, <1>13 DEF IInv

\* Closing a connection leaves the others as they are.
LEMMA ClosingIsTyped ==
  ASSUME conn \in [ConnIds -> Connections], NEW k
  PROVE  /\ Closed(k) \in [ConnIds -> Connections]
         /\ \A m \in ConnIds : m # k => Closed(k)[m] = conn[m]
<1> DEFINE emptied == [conn EXCEPT ![k].pipe = <<>>]
<1>1. \A m \in ConnIds : conn[m] \in Connections
  OBVIOUS
<1>2. <<>> \in Seq(Unit)
  OBVIOUS
<1>3. \A m \in ConnIds : /\ emptied[m] \in Connections
                         /\ m # k => emptied[m] = conn[m]
  <2>1. \A m \in ConnIds : emptied[m] = IF m = k THEN [conn[m] EXCEPT !.pipe = <<>>] ELSE conn[m]
    OBVIOUS
  <2> QED BY <2>1, <1>1, <1>2 DEF Connections
<1>4. emptied \in [ConnIds -> Connections]
  BY <1>3
<1>5. Closed(k) = [emptied EXCEPT ![k].peer = FALSE]
  BY DEF Closed
<1> HIDE DEF emptied
<1>6. \A m \in ConnIds :
        Closed(k)[m] = IF m = k THEN [emptied[m] EXCEPT !.peer = FALSE] ELSE emptied[m]
  BY <1>4, <1>5
<1>7. \A m \in ConnIds : Closed(k)[m] \in Connections
  BY <1>3, <1>6 DEF Connections
<1>8. Closed(k) \in [ConnIds -> Connections]
  BY <1>4, <1>5, <1>7
<1> QED BY <1>3, <1>6, <1>8

\* A client that lets its connection go, whatever it keeps in its buffer.
LEMMA LettingGoKeeps ==
  ASSUME IInv, NEW c \in Clients,
         UNCHANGED <<queue, frames, clients, backlog, writer, conns>>,
         fd' = [fd EXCEPT ![c] = 0],
         conn' = IF fd[c] = 0 THEN conn ELSE Closed(fd[c]),
         NEW b \in Seq(Unit), buffer' = [buffer EXCEPT ![c] = b],
         NEW l \in {latest[c], <<>>}, latest' = [latest EXCEPT ![c] = l]
  PROVE  IInv'
<1>1. /\ Types /\ frames \in Nat /\ conn \in [ConnIds -> Connections]
      /\ buffer \in [Clients -> Seq(Unit)] /\ latest \in [Clients -> Seq(Unit)]
      /\ fd \in [Clients -> 0 .. conns] /\ conns \in Nat
  BY DEF IInv, Types
<1>2. /\ conn' \in [ConnIds -> Connections]
      /\ \A m \in ConnIds : m # fd[c] => conn'[m] = conn[m]
  <2>1. CASE fd[c] = 0
    BY <2>1, <1>1
  <2>2. CASE fd[c] # 0
    <3>1. conn' = Closed(fd[c])
      BY <2>2
    <3> QED BY <3>1, <1>1, ClosingIsTyped
  <2> QED BY <2>1, <2>2
<1>3. \A d \in Clients : /\ fd'[d] = IF d = c THEN 0 ELSE fd[d]
                         /\ buffer'[d] = IF d = c THEN b ELSE buffer[d]
                         /\ latest'[d] = IF d = c THEN l ELSE latest[d]
  BY <1>1
<1>4. Types'
  <2>1. conn' \in [ConnIds -> Connections]
    BY <1>2
  <2>2. buffer' \in [Clients -> Seq(Unit)]
    BY <1>1
  <2>3. latest' \in [Clients -> Seq(Unit)]
    <3>1. latest[c] \in Seq(Unit) /\ <<>> \in Seq(Unit)
      BY <1>1
    <3>2. l \in Seq(Unit)
      BY <3>1
    <3> QED BY <3>2, <1>1
  <2>4. fd' \in [Clients -> 0 .. conns]
    <3>1. 0 \in 0 .. conns
      BY <1>1
    <3> QED BY <3>1, <1>1
  <2> QED BY <2>1, <2>2, <2>3, <2>4, <1>1 DEF Types
<1>5. ASSUME NEW d \in Clients, fd'[d] # 0
      PROVE  /\ d # c /\ fd[d] # 0 /\ fd'[d] = fd[d]
             /\ fd[d] \in ConnIds /\ conn'[fd[d]] = conn[fd[d]]
  <2>1. d # c /\ fd[d] # 0 /\ fd'[d] = fd[d]
    BY <1>3, <1>5
  <2>2. fd[d] \in ConnIds
    BY <2>1, <1>1, FlowIsTyped
  <2>3. fd[d] # fd[c]
    BY <2>1 DEF IInv, OwnConnections
  <2> QED BY <2>1, <2>2, <2>3, <1>2
<1>6. OwnConnections'
  <2> SUFFICES ASSUME NEW d \in Clients, fd'[d] # 0
               PROVE  conn'[fd'[d]].peer /\ \A e \in Clients : fd'[e] = fd'[d] => e = d
    BY DEF OwnConnections
  <2>1. conn[fd[d]].peer /\ \A e \in Clients : fd[e] = fd[d] => e = d
    BY <1>5 DEF IInv, OwnConnections
  <2>2. \A e \in Clients : fd'[e] = fd'[d] => fd[e] = fd[d]
    BY <1>5
  <2> QED BY <2>1, <2>2, <1>5
<1>7. WriterHasFrame'
  BY DEF IInv, WriterHasFrame, Locked
<1>8. FramesAreWhole'
  <2> SUFFICES ASSUME NEW d \in Clients, latest'[d] # <<>>
               PROVE  \E f \in 1 .. frames : latest'[d] = Units(f)
    BY DEF FramesAreWhole, Units
  <2>1. latest[d] # <<>> => \E f \in 1 .. frames : latest[d] = Units(f)
    BY DEF IInv, FramesAreWhole
  <2> QED BY <2>1, <1>3
<1>9. ASSUME NEW d \in Clients, fd'[d] # 0
      PROVE  /\ Framed(Flow(d)', frames')
             /\ Written(fd[d])' => BreaksOff(Flow(d)', Sent(fd[d])', writer'.frame)
  <2>1. Flow(d)' = Flow(d)
    BY <1>3, <1>5, <1>9 DEF Flow
  <2>2. Written(fd[d])' => Written(fd[d])
    BY <1>5, <1>9 DEF Written, Locked, In
  <2> QED BY <2>1, <2>2, <1>5, <1>9, StreamStays
<1>10. FlowsAreFramed'
  BY <1>9 DEF FlowsAreFramed
<1> QED BY <1>4, <1>6, <1>7, <1>8, <1>10 DEF IInv

\* What the invariant speaks of stays.
LEMMA NothingKeeps ==
  ASSUME IInv,
         UNCHANGED <<queue, frames, clients, backlog, writer, conn, conns, fd, buffer, latest>>
  PROVE  IInv'
<1>1. Types' /\ OwnConnections' /\ WriterHasFrame' /\ FramesAreWhole'
  BY DEF IInv, Types, OwnConnections, WriterHasFrame, Locked, FramesAreWhole, Units
<1>2. FlowsAreFramed'
  BY DEF IInv, FlowsAreFramed, Flow, Written, Sent, Locked, In
<1> QED BY <1>1, <1>2 DEF IInv

\* The end of a connection or of a client, and the teardown.
LEMMA EndsKeep ==
  ASSUME IInv, NEW c \in Clients,
         \/ ReadEof(c)
         \/ ClientDies(c)
         \/ c = Dal /\ (Teardown \/ DalDies)
  PROVE  IInv'
<1>1. /\ UNCHANGED <<queue, frames, clients, backlog, writer, conns>>
      /\ fd' = [fd EXCEPT ![c] = 0]
      /\ conn' = IF fd[c] = 0 THEN conn ELSE Closed(fd[c])
  BY DEF ReadEof, ClientDies, Teardown, DalDies, Disconnect, hostVars
<1>2. /\ buffer \in [Clients -> Seq(Unit)] /\ latest \in [Clients -> Seq(Unit)]
      /\ buffer[c] \in Seq(Unit) /\ <<>> \in Seq(Unit)
  BY DEF IInv, Types
<1>3. buffer = [buffer EXCEPT ![c] = buffer[c]] /\ latest = [latest EXCEPT ![c] = latest[c]]
  BY <1>2
<1>4. \E b \in Seq(Unit) : buffer' = [buffer EXCEPT ![c] = b]
  <2>1. CASE ReadEof(c)
    <3>1. fd[c] # 0 /\ buffer' = [buffer EXCEPT ![c] = buffer[c] \o conn[fd[c]].pipe]
      BY <2>1 DEF ReadEof
    <3>2. conn[fd[c]].pipe \in Seq(Unit)
      BY <3>1, FlowIsTyped DEF IInv
    <3>3. buffer[c] \o conn[fd[c]].pipe \in Seq(Unit)
      BY <3>2, <1>2, ConcatProperties
    <3> QED BY <3>1, <3>3
  <2>2. CASE ClientDies(c)
    BY <2>2, <1>2 DEF ClientDies
  <2>3. CASE c = Dal /\ Teardown
    <3>1. buffer' = buffer
      BY <2>3 DEF Teardown
    <3> QED BY <3>1, <1>2, <1>3
  <2>4. CASE c = Dal /\ DalDies
    BY <2>4, <1>2 DEF DalDies
  <2> QED BY <2>1, <2>2, <2>3, <2>4
<1>5. \E l \in {latest[c], <<>>} : latest' = [latest EXCEPT ![c] = l]
  <2>1. CASE ReadEof(c) \/ (c = Dal /\ Teardown)
    <3>1. latest' = latest
      BY <2>1 DEF ReadEof, Teardown
    <3> QED BY <3>1, <1>3
  <2>2. CASE ClientDies(c) \/ (c = Dal /\ DalDies)
    <3>1. latest' = [latest EXCEPT ![c] = <<>>]
      BY <2>2 DEF ClientDies, DalDies
    <3> QED BY <3>1
  <2> QED BY <2>1, <2>2
<1>6. PICK b \in Seq(Unit) : buffer' = [buffer EXCEPT ![c] = b]
  BY <1>4
<1>7. PICK l \in {latest[c], <<>>} : latest' = [latest EXCEPT ![c] = l]
  BY <1>5
<1> QED BY <1>1, <1>6, <1>7, LettingGoKeeps

-----------------------------------------------------------------------------
(* The theorems *)

\* Every step keeps the streams framed.
LEMMA StepKeeps == ASSUME IInv, [Next]_vars PROVE IInv'
<1>1. CASE VcamNext
  <2>1. CASE Start \/ Exit
    BY <2>1, StartKeeps
  <2>2. CASE SendFrame
    BY <2>2, SendFrameKeeps
  <2>3. CASE StopDropsSender \/ StopClears
    BY <2>3, StopKeeps
  <2>4. CASE Accept
    BY <2>4, AcceptKeeps
  <2>5. CASE WriterRecv \/ WriterEnds
    BY <2>5, WriterTakesKeeps
  <2>6. CASE WriterLocks
    BY <2>6, WriterLocksKeeps
  <2>7. CASE Write
    BY <2>7, WriteKeeps
  <2>8. CASE WriteFails
    BY <2>8, WriteFailsKeeps
  <2> QED
    BY <1>1, <2>1, <2>2, <2>3, <2>4, <2>5, <2>6, <2>7, <2>8 DEF VcamNext, Threads
<1>2. ASSUME NEW c \in Clients, TryConnect(c) \/ Reads(c)
      PROVE  IInv'
  <2>1. CASE TryConnect(c)
    BY <2>1, ConnectKeeps
  <2>2. CASE ReadFromHost(c)
    BY <2>2, ReadKeeps
  <2>3. CASE ReadEof(c)
    BY <2>3, EndsKeep
  <2> QED BY <1>2, <2>1, <2>2, <2>3 DEF Reads
<1>3. CASE TcpClient
  BY <1>2, <1>3, DalAssumption DEF TcpClient
<1>4. ASSUME NEW c \in Clients, ExtensionClient(c)
      PROVE  IInv'
  <2>1. CASE ClientStarts(c)
    BY <2>1, NothingKeeps DEF ClientStarts, hostVars
  <2>2. CASE ClientDies(c)
    BY <2>2, EndsKeep
  <2> QED BY <1>2, <1>4, <2>1, <2>2 DEF ExtensionClient
<1>5. CASE Teardown \/ DalDies
  BY <1>5, EndsKeep, DalAssumption
<1>6. CASE InitializeWithObjectID
  BY <1>6, NothingKeeps DEF InitializeWithObjectID, hostVars
<1>7. CASE StartStream \/ StopStream \/ CopyBufferQueue \/ PushFrame \/ Dequeue \/ UNCHANGED vars
  <2>1. UNCHANGED vcamVars
    BY <1>7 DEF StartStream, StopStream, CopyBufferQueue, PushFrame, Dequeue, vars
  <2> QED BY <2>1, NothingKeeps DEF vcamVars, hostVars, clientVars
<1> QED BY <1>1, <1>3, <1>4, <1>5, <1>6, <1>7 DEF Next

\* The invariant, for any number of clients, size of a frame and of the buffers.
THEOREM Invariance == Spec => []IInv
<1>1. Init => IInv
  <2> SUFFICES ASSUME Init PROVE IInv
    OBVIOUS
  <2>1. Types
    <3>1. Idle \in Writers
      <4>1. <<>> \in Seq(1 .. MaxConns) /\ <<>> \in Seq(Unit)
        OBVIOUS
      <4> QED BY <4>1 DEF Idle, Writers
    <3>2. frames \in Nat /\ conns = 0 /\ conns \in 0 .. MaxConns
      BY VirtualCameraAssumption DEF Init, VcamInit
    <3>3. /\ queue \in Seq(1 .. frames) /\ clients \in Seq(1 .. conns)
          /\ backlog \in Seq(1 .. conns)
      BY DEF Init, VcamInit
    <3>4. <<>> \in Seq(Unit) /\ 0 \in 0 .. 0
      OBVIOUS
    <3>5. fd \in [Clients -> 0 .. conns]
      BY <3>2, <3>4 DEF Init, VcamInit
    <3>6. buffer \in [Clients -> Seq(Unit)] /\ latest \in [Clients -> Seq(Unit)]
      BY <3>4 DEF Init, VcamInit
    <3>7. conn \in [ConnIds -> Connections]
      BY <3>4 DEF Init, VcamInit, Connections
    <3>8. writer \in Writers
      BY <3>1 DEF Init, VcamInit
    <3> QED BY <3>2, <3>3, <3>5, <3>6, <3>7, <3>8 DEF Types
  <2>2. OwnConnections /\ FlowsAreFramed /\ FramesAreWhole
    BY DEF Init, VcamInit, OwnConnections, FlowsAreFramed, FramesAreWhole
  <2>3. WriterHasFrame
    BY DEF Init, VcamInit, WriterHasFrame, Idle, Locked
  <2> QED BY <2>1, <2>2, <2>3 DEF IInv
<1>2. IInv /\ [Next]_vars => IInv'
  BY StepKeeps
<1> QED BY <1>1, <1>2, PTL DEF Spec

\* A client shows whole frames only, whatever was left in a pipe or a read buffer by
\* an app that went away, and whoever else is served (StreamSource.m and
\* KalidoKitDALPlugin.m, readFromHost and tryConnect).
THEOREM FramesStayWhole == Spec => []FramesAreWhole
<1>1. IInv => FramesAreWhole
  BY DEF IInv
<1> QED BY <1>1, Invariance, PTL

\* Each property that an object announces can be read, at the length announced,
\* also while only some of the objects are there (KalidoKitDALPlugin.m, the
\* property functions).
THEOREM AnnouncedStaysReadable == Spec => []AnnouncedIsReadable
<1>1. ASSUME NEW object \in 0 .. 3, NEW selector \in HasProperty(object)
      PROVE  /\ DataSize(object, selector) # Refused
             /\ DataUsed(object, selector) = DataSize(object, selector)
  <2>1. CASE object = ids.plugIn
    BY <2>1 DEF HasProperty, DataSize, DataUsed, Refused, PointerSize,
          WordSize, Strings, Lists, Pointers, DeviceWords, StreamWords
  <2>2. CASE object # ids.plugIn /\ object = ids.device
    BY <2>2 DEF HasProperty, DataSize, DataUsed, Refused, PointerSize,
          WordSize, Strings, Lists, Pointers, DeviceWords, StreamWords
  <2>3. CASE object # ids.plugIn /\ object # ids.device /\ object = ids.stream
    BY <2>3 DEF HasProperty, DataSize, DataUsed, Refused, PointerSize,
          WordSize, Strings, Lists, Pointers, DeviceWords, StreamWords
  <2> QED BY <2>1, <2>2, <2>3 DEF HasProperty
<1>2. AnnouncedIsReadable
  BY <1>1 DEF AnnouncedIsReadable
<1> QED BY <1>2, PTL

=============================================================================
