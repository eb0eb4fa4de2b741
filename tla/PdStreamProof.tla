--------------------------- MODULE PdStreamProof ---------------------------
(***************************************************************************)
(* Proofs about PdStream, for every window, sequence space, payload size   *)
(* and number of faults: type correctness, exactly-once in-order delivery  *)
(* in both directions, and that each direction implements ReliableStream.  *)
(***************************************************************************)
EXTENDS PdStream, TLAPS

(* ------------------------- facts about chunks -------------------------- *)

(* The part of PdAssumption the arithmetic needs.                          *)
LEMMA Sizes ==
    Window \in Nat /\ Window >= 1 /\ SeqMax \in Nat /\ SeqMax > Window
  BY PdAssumption

(* Chunk i has number a and a later chunk j has number b.  The number of j *)
(* follows that of i only if j = i + 1; that of i follows that of j only   *)
(* after a whole turn of the sequence space.                               *)
LEMMA Distance ==
    ASSUME NEW i \in Nat, NEW j \in Nat, i < j, j < i + SeqMax,
           NEW a \in 1 .. SeqMax, NEW b \in 1 .. SeqMax,
           b = a + (j - i) \/ b + SeqMax = a + (j - i)
    PROVE  /\ a # b
           /\ b = NextSeq(a) => j = i + 1
           /\ j + 1 < i + SeqMax => a # NextSeq(b)
           /\ j + 1 < i + SeqMax => \/ NextSeq(b) = a + ((j + 1) - i)
                                   \/ NextSeq(b) + SeqMax = a + ((j + 1) - i)
  BY Sizes DEF NextSeq

(* Two chunks less than SeqMax apart have different sequence numbers.      *)
LEMMA SeqDistinct ==
    ASSUME NEW chunks \in Seq(Chunk), NEW to \in Nat,
           Staged(chunks, to), Numbered(chunks),
           NEW i \in 1 .. Len(chunks), NEW j \in 1 .. Len(chunks),
           chunks[i].seq = chunks[j].seq, i < j + SeqMax, j < i + SeqMax
    PROVE  i = j
<1>1. chunks[i].seq \in 1 .. SeqMax
  BY DEF Staged
<1>2. CASE i < j
  <2>1. \/ chunks[j].seq = chunks[i].seq + (j - i)
        \/ chunks[j].seq + SeqMax = chunks[i].seq + (j - i)
    BY <1>2 DEF Numbered
  <2> QED
    BY <1>1, <1>2, <2>1, Sizes
<1>3. CASE j < i
  <2>1. \/ chunks[i].seq = chunks[j].seq + (i - j)
        \/ chunks[i].seq + SeqMax = chunks[j].seq + (i - j)
    BY <1>3 DEF Numbered
  <2> QED
    BY <1>1, <1>3, <2>1, Sizes
<1> QED
  BY <1>2, <1>3

(* The chunk that follows a consumed one is the only one within the window *)
(* that carries the next sequence number.                                  *)
LEMMA NextIsNext ==
    ASSUME NEW chunks \in Seq(Chunk), NEW to \in Nat,
           Staged(chunks, to), Numbered(chunks),
           NEW tag \in Tag, Names(chunks, tag),
           NEW j \in 1 .. Len(chunks),
           chunks[j].seq = NextSeq(tag.seq),
           tag.n < j + Window, j <= tag.n + Window
    PROVE  j = tag.n + 1
<1>1. chunks[j].seq \in 1 .. SeqMax
  BY DEF Staged
<1>2. CASE tag = NoTag
  <2>1. Len(chunks) \in Nat /\ 1 \in 1 .. Len(chunks)
    OBVIOUS
  <2>2. chunks[1].seq = 1
    BY <2>1 DEF Staged
  <2>3. chunks[j].seq = chunks[1].seq
    BY <2>2, <1>2, Sizes DEF NextSeq, NoTag
  <2>4. tag.n = 0
    BY <1>2 DEF NoTag
  <2> QED
    BY <2>1, <2>3, <2>4, Sizes, SeqDistinct
<1>3. CASE tag # NoTag
  <2>1. tag.n \in 1 .. Len(chunks) /\ tag.seq = chunks[tag.n].seq
    BY <1>3 DEF Names
  <2>2. tag.seq \in 1 .. SeqMax
    BY <2>1 DEF Staged
  <2>3. CASE tag.n < j
    <3>1. j < tag.n + SeqMax /\ j \in Nat /\ tag.n \in Nat
      BY <2>1, <2>3, Sizes
    <3>2. \/ chunks[j].seq = tag.seq + (j - tag.n)
          \/ chunks[j].seq + SeqMax = tag.seq + (j - tag.n)
      BY <2>1, <2>3, <3>1 DEF Numbered
    <3> QED
      BY <3>1, <3>2, <2>2, <2>3, <1>1, Distance
  <2>4. CASE j < tag.n
    <3>1. tag.n + 1 < j + SeqMax /\ j \in Nat /\ tag.n \in Nat
          /\ tag.n < j + SeqMax
      BY <2>1, <2>4, Sizes
    <3>2. \/ tag.seq = chunks[j].seq + (tag.n - j)
          \/ tag.seq + SeqMax = chunks[j].seq + (tag.n - j)
      BY <2>1, <2>4, <3>1 DEF Numbered
    <3> QED
      BY <3>1, <3>2, <2>2, <2>4, <1>1, Distance
  <2>5. CASE j = tag.n
    BY <2>1, <2>2, <2>5, <1>1, Sizes DEF NextSeq
  <2> QED
    BY <2>1, <2>3, <2>4, <2>5
<1> QED
  BY <1>2, <1>3

(* Staging a chunk with the next number keeps the log in shape.            *)
LEMMA StageChunk ==
    ASSUME NEW chunks \in Seq(Chunk), NEW to \in Nat,
           Staged(chunks, to), Numbered(chunks),
           NEW chunk \in Chunk, chunk.n = Len(chunks) + 1,
           chunk.seq = IF chunks = <<>> THEN 1
                       ELSE NextSeq(chunks[Len(chunks)].seq),
           chunk.from = IF chunks = <<>> THEN 0 ELSE chunks[Len(chunks)].to,
           chunk.from < chunk.to, chunk.to <= to
    PROVE  /\ Staged(Append(chunks, chunk), to)
           /\ Numbered(Append(chunks, chunk))
<1> DEFINE more == Append(chunks, chunk)
           last == Len(chunks)
<1>1. /\ Len(more) = last + 1 /\ more[last + 1] = chunk /\ last \in Nat
      /\ \A i \in 1 .. last : more[i] = chunks[i]
  OBVIOUS
<1>2. chunks # <<>> => last \in 1 .. last
  OBVIOUS
<1> HIDE DEF more
<1>3. chunk.seq \in 1 .. SeqMax
  <2>1. CASE chunks = <<>>
    BY <2>1, Sizes
  <2>2. CASE chunks # <<>>
    <3>1. chunks[last].seq \in 1 .. SeqMax
      BY <2>2, <1>2 DEF Staged
    <3> QED
      BY <3>1, <2>2, Sizes DEF NextSeq
  <2> QED
    BY <2>1, <2>2
<1>4. Staged(more, to)
  <2> SUFFICES ASSUME NEW i \in 1 .. Len(more)
               PROVE  /\ more[i].n = i
                      /\ more[i].seq \in 1 .. SeqMax
                      /\ i = 1 => more[i].seq = 1 /\ more[i].from = 0
                      /\ i > 1 => more[i].from = more[i - 1].to
                      /\ more[i].from < more[i].to /\ more[i].to <= to
    BY DEF Staged
  <2>1. CASE i = last + 1
    <3>1. CASE chunks = <<>>
      BY <3>1, <2>1, <1>1, <1>3
    <3>2. CASE chunks # <<>>
      BY <3>2, <2>1, <1>1, <1>2, <1>3
    <3> QED
      BY <3>1, <3>2
  <2>2. CASE i \in 1 .. last
    <3>1. more[i] = chunks[i] /\ (i > 1 => more[i - 1] = chunks[i - 1])
      BY <2>2, <1>1
    <3> QED
      BY <3>1, <2>2 DEF Staged
  <2> QED
    BY <2>1, <2>2, <1>1
<1>5. Numbered(more)
  <2> SUFFICES ASSUME NEW i \in 1 .. Len(more), NEW j \in 1 .. Len(more),
                      i < j, j < i + SeqMax
               PROVE  \/ more[j].seq = more[i].seq + (j - i)
                      \/ more[j].seq + SeqMax = more[i].seq + (j - i)
    BY DEF Numbered
  <2>1. i \in 1 .. last /\ more[i] = chunks[i] /\ chunks # <<>>
    BY <1>1
  <2>2. CASE j \in 1 .. last
    BY <2>1, <2>2, <1>1 DEF Numbered
  <2>3. CASE j = last + 1
    <3>1. more[j] = chunk /\ chunk.seq = NextSeq(chunks[last].seq)
      BY <2>1, <2>3, <1>1
    <3>2. chunks[i].seq \in 1 .. SeqMax /\ chunks[last].seq \in 1 .. SeqMax
      BY <2>1, <1>2 DEF Staged
    <3>3. CASE i = last
      BY <3>1, <3>2, <3>3, <2>1, <2>3, Sizes DEF NextSeq
    <3>4. CASE i < last
      <4>1. /\ last < i + SeqMax /\ last + 1 < i + SeqMax
            /\ last \in Nat /\ i \in Nat
        BY <2>1, <2>3, <3>4, <1>1, Sizes
      <4>2. \/ chunks[last].seq = chunks[i].seq + (last - i)
            \/ chunks[last].seq + SeqMax = chunks[i].seq + (last - i)
        BY <2>1, <3>4, <4>1, <1>2 DEF Numbered
      <4>3. \/ chunk.seq = chunks[i].seq + ((last + 1) - i)
            \/ chunk.seq + SeqMax = chunks[i].seq + ((last + 1) - i)
        <5> DEFINE after == NextSeq(chunks[last].seq)
        <5>1. \/ after = chunks[i].seq + ((last + 1) - i)
              \/ after + SeqMax = chunks[i].seq + ((last + 1) - i)
          BY <4>1, <4>2, <3>2, <3>4, Distance, ZenonT(60)
        <5> QED
          BY <5>1, <3>1
      <4> QED
        BY <4>3, <3>1, <2>1, <2>3, <1>1
    <3> QED
      BY <3>3, <3>4, <2>1
  <2> QED
    BY <2>2, <2>3, <1>1
<1> QED
  BY <1>4, <1>5 DEF more

(* Bytes after "low" up to "mid", then up to "high".                       *)
LEMMA BytesConcat ==
    ASSUME NEW mid \in Nat, NEW high \in Nat, mid <= high
    PROVE  /\ Bytes(0, mid) \o Bytes(mid, high) = Bytes(0, high)
           /\ Len(Bytes(0, mid)) = mid
           /\ Bytes(0, mid) \in Seq(Nat)
<1> DEFINE A == Bytes(0, mid)
           B == Bytes(mid, high)
           C == Bytes(0, high)
<1>1. /\ A \in Seq(Nat) /\ Len(A) = mid /\ \A i \in 1 .. mid : A[i] = i
  BY DEF Bytes
<1>2. /\ B \in Seq(Nat) /\ Len(B) = high - mid
      /\ \A i \in 1 .. (high - mid) : B[i] = mid + i
  BY DEF Bytes
<1>3. /\ C \in Seq(Nat) /\ Len(C) = high /\ \A i \in 1 .. high : C[i] = i
  BY DEF Bytes
<1> HIDE DEF A, B, C
<1>4. A \o B \in Seq(Nat) /\ Len(A \o B) = high
  BY <1>1, <1>2
<1>5. ASSUME NEW i \in 1 .. high
      PROVE  (A \o B)[i] = C[i]
  <2>1. CASE i <= mid
    <3>1. (A \o B)[i] = A[i]
      BY <1>1, <1>2, <2>1
    <3> QED
      BY <3>1, <1>1, <1>3, <2>1
  <2>2. CASE i > mid
    <3> DEFINE k == i - mid
    <3>1. (A \o B)[i] = B[k]
      BY <1>1, <1>2, <2>2
    <3>2. k \in 1 .. (high - mid) /\ mid + k = i
      BY <2>2
    <3> HIDE DEF k
    <3>3. B[k] = mid + k
      BY <3>2, <1>2
    <3>4. C[i] = i
      BY <1>3
    <3> QED
      BY <3>1, <3>2, <3>3, <3>4
  <2>3. i <= mid \/ i > mid
    OBVIOUS
  <2> QED
    BY <2>1, <2>2, <2>3
<1>6. A \o B = C
  BY <1>3, <1>4, <1>5
<1> QED
  BY <1>6, <1>1 DEF A, B, C

(* ------------------------ facts about the window ----------------------- *)

(* Each end is the other's peer.                                           *)
LEMMA Ends == /\ \A e \in End : Peer(e) \in End /\ Peer(e) # e /\ Peer(Peer(e)) = e
              /\ \A e, x \in End : e = x \/ e = Peer(x)
  BY DEF End, Peer

(* A tag that names a chunk keeps naming it when the log grows.            *)
LEMMA NamesGrown ==
    ASSUME NEW old \in Seq(Chunk), NEW new \in Seq(Chunk),
           Len(old) <= Len(new), \A i \in 1 .. Len(old) : new[i] = old[i],
           NEW tag \in Tag, Names(old, tag)
    PROVE  Names(new, tag)
  BY DEF Names

(* Sliding over the acked prefix brings the base to the acked chunk.       *)
LEMMA AckedPrefixExact ==
    ASSUME IInv, NEW e \in End
    PROVE  AckedPrefix(e) \in Nat /\ SlidBase(e) = peerAck[e].n
<1> DEFINE chunks == log[e]
           low == base[e]
           tag == peerAck[e]
           hits == {j \in 1 .. (Len(log[e]) - base[e]) :
                       log[e][base[e] + j].seq = peerAck[e].seq}
<1>1. /\ chunks \in Seq(Chunk) /\ low \in Nat /\ tag \in Tag /\ Len(chunks) \in Nat
      /\ written[e] \in Nat
  BY DEF IInv, TypeOK
<1>2. /\ Staged(chunks, written[e]) /\ Numbered(chunks) /\ Names(chunks, tag)
      /\ low <= tag.n /\ tag.n <= Len(chunks) /\ Len(chunks) <= low + Window
  <2>1. AckChain(e) /\ AcksName(e) /\ Direction(e)
    BY DEF IInv, Direction
  <2>2. /\ input[e].ack.n \in Nat /\ image[Peer(e)].ack.n \in Nat
        /\ rxAck[Peer(e)].n \in Nat /\ tag.n \in Nat
    BY Ends DEF IInv, TypeOK, Image, Tag
  <2> QED
    BY <2>1, <2>2, <1>1 DEF Direction, AckChain, AcksName
<1>3. tag.n \in Nat
  BY <1>1 DEF Tag
<1>4. \A j \in hits : low + j = tag.n
  <2> SUFFICES ASSUME NEW j \in 1 .. (Len(chunks) - low),
                      chunks[low + j].seq = tag.seq
               PROVE  low + j = tag.n
    OBVIOUS
  <2>1. low + j \in 1 .. Len(chunks)
    BY <1>1
  <2>2. tag # NoTag
    BY <2>1, <1>2, Sizes DEF Staged, NoTag
  <2>3. tag.n \in 1 .. Len(chunks) /\ tag.seq = chunks[tag.n].seq
    BY <2>2, <1>2 DEF Names
  <2>4. low + j < tag.n + SeqMax /\ tag.n < (low + j) + SeqMax
    <3>1. j \in Nat /\ j >= 1 /\ low + j <= Len(chunks)
      BY <1>1
    <3>2. low <= tag.n /\ tag.n <= Len(chunks) /\ Len(chunks) <= low + Window
      BY <1>2
    <3> QED
      BY <3>1, <3>2, <1>1, <1>3, Sizes, SMTT(30)
  <2> DEFINE k == low + j
  <2> HIDE DEF k
  <2>5. k = tag.n
    BY <2>1, <2>3, <2>4, <1>1, <1>2, SeqDistinct DEF k
  <2> QED
    BY <2>5 DEF k
<1>5. CASE tag.n = low
  <2>1. hits = {}
    BY <1>4, <1>1, <1>5
  <2>2. AckedPrefix(e) = 0
    BY <2>1 DEF AckedPrefix
  <2> QED
    BY <2>2, <1>5, <1>1 DEF SlidBase
<1>6. CASE tag.n > low
  <2> DEFINE d == tag.n - low
  <2>1. d \in 1 .. (Len(chunks) - low) /\ low + d = tag.n
    BY <1>1, <1>2, <1>3, <1>6
  <2>2. tag # NoTag
    BY <1>1, <1>6 DEF NoTag
  <2>3. chunks[low + d].seq = tag.seq
    BY <2>1, <2>2, <1>2 DEF Names
  <2>4. d \in hits
    BY <2>1, <2>3
  <2>5. \A j \in hits : j = d
    BY <1>4, <2>1, <1>1
  <2> HIDE DEF d
  <2>6. hits = {d}
    BY <2>4, <2>5
  <2>7. (CHOOSE j \in {d} : \A i \in {d} : j <= i) = d
    BY <2>1
  <2>8. AckedPrefix(e) = d
    BY <2>6, <2>7 DEF AckedPrefix
  <2> QED
    BY <2>8, <2>1, <1>1 DEF SlidBase
<1> QED
  BY <1>5, <1>6, <1>1, <1>2, <1>3

(* The window as build_own_chunk finds it after sliding.                   *)
LEMMA SlidWindow ==
    ASSUME IInv, NEW e \in End
    PROVE  /\ peerAck[e].n \in Nat /\ SlidBase(e) = peerAck[e].n
           /\ InFlight(e) \in 0 .. Window
           /\ peerAck[e].n + InFlight(e) = Len(log[e])
           /\ SlidOffset(e) \in 0 .. InFlight(e)
           /\ SlidStall(e) \in 0 .. (StallFrames - 1)
           /\ Newest(e) \in Chunk /\ Newest(e).to <= written[e]
           /\ Idle(e) \in Chunk /\ ChunkLen(Idle(e)) = 0
           /\ Readable(e) \in Nat
<1>1. /\ log[e] \in Seq(Chunk) /\ base[e] \in Nat /\ peerAck[e] \in Tag
      /\ Len(log[e]) \in Nat /\ written[e] \in Nat /\ sendOffset[e] \in Nat
      /\ stall[e] \in 0 .. (StallFrames - 1) /\ peerAck[e].n \in Nat
      /\ StallFrames \in Nat /\ StallFrames >= 1
  BY PdAssumption, Sizes DEF IInv, TypeOK, Tag
<1>2. /\ Staged(log[e], written[e]) /\ base[e] + sendOffset[e] <= Len(log[e])
      /\ base[e] <= peerAck[e].n /\ peerAck[e].n <= Len(log[e])
      /\ Len(log[e]) <= base[e] + Window
  <2>1. AckChain(e) /\ Direction(e)
    BY DEF IInv, Direction
  <2>2. /\ input[e].ack.n \in Nat /\ image[Peer(e)].ack.n \in Nat
        /\ rxAck[Peer(e)].n \in Nat
    BY Ends DEF IInv, TypeOK, Image, Tag
  <2>3. Staged(log[e], written[e]) /\ base[e] + sendOffset[e] <= Len(log[e])
    BY <2>1 DEF Direction
  <2>4. /\ base[e] <= peerAck[e].n /\ peerAck[e].n <= Len(log[e])
        /\ Len(log[e]) <= base[e] + Window
    BY <2>1, <2>2, <1>1, SMTT(30) DEF AckChain
  <2> QED
    BY <2>3, <2>4
<1>3. AckedPrefix(e) \in Nat /\ SlidBase(e) = peerAck[e].n
  BY AckedPrefixExact
<1>4. AckedPrefix(e) = peerAck[e].n - base[e]
  BY <1>1, <1>3 DEF SlidBase
<1>5. InFlight(e) \in 0 .. Window /\ peerAck[e].n + InFlight(e) = Len(log[e])
  BY <1>1, <1>2, <1>3, Sizes DEF InFlight
<1>6. SlidOffset(e) \in 0 .. InFlight(e)
  BY <1>1, <1>2, <1>4, <1>5 DEF SlidOffset
<1>7. SlidStall(e) \in 0 .. (StallFrames - 1)
  BY <1>1 DEF SlidStall
<1>8. Newest(e) \in Chunk /\ Newest(e).to <= written[e]
  <2>1. CASE log[e] = <<>>
    BY <2>1, <1>1 DEF Newest, ZeroChunk, Chunk
  <2>2. CASE log[e] # <<>>
    <3>1. Len(log[e]) \in 1 .. Len(log[e])
      BY <2>2, <1>1
    <3> QED
      BY <3>1, <2>2, <1>1, <1>2 DEF Newest, Staged
  <2> QED
    BY <2>1, <2>2
<1>9. Idle(e) \in Chunk /\ ChunkLen(Idle(e)) = 0
  BY <1>8 DEF Idle, ChunkLen, Chunk
<1>10. Readable(e) \in Nat
  BY <1>8, <1>1 DEF Readable, Chunk
<1> QED
  BY <1>1, <1>3, <1>5, <1>6, <1>7, <1>8, <1>9, <1>10

(* ------------------------- the two operations -------------------------- *)

(* What build_own_chunk leaves behind, whichever of its outcomes it takes. *)
Built(x) ==
    /\ log' \in [End -> Seq(Chunk)]
    /\ log'[Peer(x)] = log[Peer(x)]
    /\ Len(log[x]) <= Len(log'[x])
    /\ Len(log'[x]) <= peerAck[x].n + Window
    /\ \A i \in 1 .. Len(log[x]) : log'[x][i] = log[x][i]
    /\ Staged(log'[x], written[x]) /\ Numbered(log'[x])
    /\ base' \in [End -> Nat]
    /\ base'[x] = peerAck[x].n /\ base'[Peer(x)] = base[Peer(x)]
    /\ sendOffset' \in [End -> 0 .. Window]
    /\ base'[x] + sendOffset'[x] <= Len(log'[x])
    /\ sendOffset'[Peer(x)] = sendOffset[Peer(x)]
    /\ stall' \in [End -> 0 .. (StallFrames - 1)]
    /\ mayStage' \in [End -> BOOLEAN]
    /\ image' \in [End -> Image]
    /\ image'[x].ack = rxAck[x] /\ image'[Peer(x)] = image[Peer(x)]
    /\ Shows(log'[x], base'[x], image'[x].chunk)

(* The part all outcomes share: the new window and the painted image.      *)
LEMMA SlideAndPaint ==
    ASSUME IInv, NEW x \in End, NEW offset \in 0 .. Window,
           NEW stalled \in 0 .. (StallFrames - 1), NEW chunk \in Chunk,
           Slide(x, offset, stalled), Paint(x, chunk)
    PROVE  /\ base' \in [End -> Nat]
           /\ base'[x] = peerAck[x].n /\ base'[Peer(x)] = base[Peer(x)]
           /\ sendOffset' \in [End -> 0 .. Window] /\ sendOffset'[x] = offset
           /\ sendOffset'[Peer(x)] = sendOffset[Peer(x)]
           /\ stall' \in [End -> 0 .. (StallFrames - 1)]
           /\ image' \in [End -> Image]
           /\ image'[x].chunk = chunk
           /\ image'[x].ack = rxAck[x] /\ image'[Peer(x)] = image[Peer(x)]
<1>1. peerAck[x].n \in Nat /\ SlidBase(x) = peerAck[x].n
  BY SlidWindow
<1>2. /\ base \in [End -> Nat] /\ sendOffset \in [End -> 0 .. Window]
      /\ stall \in [End -> 0 .. (StallFrames - 1)]
      /\ image \in [End -> Image] /\ rxAck[x] \in Tag
  BY DEF IInv, TypeOK
<1>3. [chunk |-> chunk, ack |-> rxAck[x]] \in Image
  BY <1>2 DEF Image
<1>4. Peer(x) \in End /\ Peer(x) # x
  BY Ends
<1>5. base' = [base EXCEPT ![x] = peerAck[x].n]
  BY <1>1 DEF Slide
<1> QED
  BY <1>1, <1>2, <1>3, <1>4, <1>5 DEF Slide, Paint

(* A build that stages nothing leaves both logs as they are and within the *)
(* window.                                                                 *)
LEMMA LogKept ==
    ASSUME IInv, NEW x \in End, log' = log
    PROVE  /\ log' \in [End -> Seq(Chunk)]
           /\ log'[Peer(x)] = log[Peer(x)]
           /\ Len(log[x]) \in Nat
           /\ Len(log[x]) <= Len(log'[x])
           /\ Len(log'[x]) <= peerAck[x].n + Window
           /\ \A i \in 1 .. Len(log[x]) : log'[x][i] = log[x][i]
           /\ Staged(log'[x], written[x]) /\ Numbered(log'[x])
<1>1. log \in [End -> Seq(Chunk)] /\ Len(log[x]) \in Nat
  BY DEF IInv, TypeOK
<1>2. Len(log[x]) <= peerAck[x].n + Window
  BY SlidWindow, Sizes
<1>3. Staged(log[x], written[x]) /\ Numbered(log[x])
  BY DEF IInv, Direction
<1> QED
  BY <1>1, <1>2, <1>3

(* Showing a chunk of the window again keeps what a build must keep.       *)
LEMMA ReplayBuilds ==
    ASSUME IInv, NEW x \in End, Replay(x)
    PROVE  Built(x)
<1> DEFINE k == SlidBase(x) + SlidOffset(x) + 1
<1>1. /\ SlidOffset(x) \in 0 .. InFlight(x) /\ InFlight(x) \in 0 .. Window
      /\ SlidOffset(x) < InFlight(x) /\ peerAck[x].n \in Nat
      /\ SlidBase(x) = peerAck[x].n
      /\ peerAck[x].n + InFlight(x) = Len(log[x])
      /\ SlidStall(x) \in 0 .. (StallFrames - 1)
  BY SlidWindow DEF Replay, Replaying
<1>2. log[x] \in Seq(Chunk) /\ Staged(log[x], written[x])
      /\ mayStage \in [End -> BOOLEAN]
  BY DEF IInv, TypeOK, Direction
<1>3. k \in (peerAck[x].n + 1) .. Len(log[x]) /\ k \in 1 .. Len(log[x])
  BY <1>1, <1>2, Sizes, SMTT(30)
<1>4. log[x][k] \in Chunk /\ log[x][k].n = k
  BY <1>2, <1>3 DEF Staged
<1>5. SlidOffset(x) + 1 \in 0 .. Window
  BY <1>1, Sizes
<1>6. /\ Slide(x, SlidOffset(x) + 1, SlidStall(x)) /\ Paint(x, log[x][k])
      /\ log' = log
  BY DEF Replay
<1> HIDE DEF k
<1>7. mayStage' \in [End -> BOOLEAN]
  BY <1>2 DEF Replay, SpendCredit
<1>8. /\ base' \in [End -> Nat]
      /\ base'[x] = peerAck[x].n /\ base'[Peer(x)] = base[Peer(x)]
      /\ sendOffset' \in [End -> 0 .. Window] /\ sendOffset'[x] = SlidOffset(x) + 1
      /\ sendOffset'[Peer(x)] = sendOffset[Peer(x)]
      /\ stall' \in [End -> 0 .. (StallFrames - 1)]
      /\ image' \in [End -> Image]
      /\ image'[x].chunk = log[x][k]
      /\ image'[x].ack = rxAck[x] /\ image'[Peer(x)] = image[Peer(x)]
  BY <1>1, <1>4, <1>5, <1>6, SlideAndPaint
<1>9. base'[x] + sendOffset'[x] <= Len(log'[x])
  BY <1>1, <1>6, <1>8, Sizes
<1>10. Shows(log'[x], base'[x], image'[x].chunk)
  BY <1>3, <1>4, <1>6, <1>8 DEF Shows
<1> QED
  BY <1>6, <1>7, <1>8, <1>9, <1>10, LogKept DEF Built

(* Rewinding the window keeps what a build must keep.                      *)
LEMMA GoBackBuilds ==
    ASSUME IInv, NEW x \in End, GoBack(x)
    PROVE  Built(x)
<1>1. peerAck[x].n \in Nat /\ InFlight(x) \in 0 .. Window
      /\ peerAck[x].n + InFlight(x) = Len(log[x])
      /\ Idle(x) \in Chunk /\ ChunkLen(Idle(x)) = 0
  BY SlidWindow
<1>2. mayStage' \in [End -> BOOLEAN] /\ log' = log
      /\ Slide(x, 0, 0) /\ Paint(x, Idle(x))
  BY DEF GoBack, IInv, TypeOK
<1>3. 0 \in 0 .. Window /\ 0 \in 0 .. (StallFrames - 1)
  BY PdAssumption, Sizes
<1>4. /\ base' \in [End -> Nat]
      /\ base'[x] = peerAck[x].n /\ base'[Peer(x)] = base[Peer(x)]
      /\ sendOffset' \in [End -> 0 .. Window] /\ sendOffset'[x] = 0
      /\ sendOffset'[Peer(x)] = sendOffset[Peer(x)]
      /\ stall' \in [End -> 0 .. (StallFrames - 1)]
      /\ image' \in [End -> Image]
      /\ image'[x].chunk = Idle(x)
      /\ image'[x].ack = rxAck[x] /\ image'[Peer(x)] = image[Peer(x)]
  BY <1>1, <1>2, <1>3, SlideAndPaint
<1>5. base'[x] + sendOffset'[x] <= Len(log'[x])
  BY <1>1, <1>2, <1>4, Sizes
<1>6. Shows(log'[x], base'[x], image'[x].chunk)
  BY <1>1, <1>4 DEF Shows
<1> QED
  BY <1>2, <1>4, <1>5, <1>6, LogKept DEF Built

(* Waiting for the ack keeps what a build must keep.                       *)
LEMMA HoldBuilds ==
    ASSUME IInv, NEW x \in End, Hold(x)
    PROVE  Built(x)
<1> DEFINE k == SlidBase(x) + SlidOffset(x)
           shown == IF InFlight(x) > 0 /\ SlidOffset(x) # 0
                    THEN log[x][k] ELSE Idle(x)
           stalled == SlidStall(x)
                          + IF mayStage[x] /\ InFlight(x) > 0 THEN 1 ELSE 0
<1>1. /\ SlidOffset(x) \in 0 .. InFlight(x) /\ InFlight(x) \in 0 .. Window
      /\ peerAck[x].n \in Nat /\ SlidBase(x) = peerAck[x].n
      /\ peerAck[x].n + InFlight(x) = Len(log[x])
      /\ SlidStall(x) \in 0 .. (StallFrames - 1)
      /\ Idle(x) \in Chunk /\ ChunkLen(Idle(x)) = 0
  BY SlidWindow
<1>2. log[x] \in Seq(Chunk) /\ Staged(log[x], written[x])
      /\ mayStage \in [End -> BOOLEAN]
  BY DEF IInv, TypeOK, Direction
<1>3. /\ Slide(x, SlidOffset(x), stalled) /\ Paint(x, shown)
      /\ log' = log /\ mayStage' = mayStage
  BY DEF Hold
<1>4. shown \in Chunk /\ Shows(log[x], peerAck[x].n, shown)
  <2>1. CASE InFlight(x) > 0 /\ SlidOffset(x) # 0
    <3>1. k \in (peerAck[x].n + 1) .. Len(log[x]) /\ k \in 1 .. Len(log[x])
      BY <2>1, <1>1, <1>2, Sizes
    <3>2. log[x][k] \in Chunk /\ log[x][k].n = k
      BY <3>1, <1>2 DEF Staged
    <3> HIDE DEF k
    <3> QED
      BY <2>1, <3>1, <3>2 DEF Shows
  <2>2. CASE ~(InFlight(x) > 0 /\ SlidOffset(x) # 0)
    BY <2>2, <1>1 DEF Shows
  <2> QED
    BY <2>1, <2>2
<1>5. stalled \in 0 .. (StallFrames - 1)
  <2>1. StallFrames \in Nat /\ StallFrames >= 1
    BY PdAssumption
  <2>2. CASE mayStage[x] /\ InFlight(x) > 0
    <3>1. SlidStall(x) + 1 < StallFrames
      BY <2>1, <2>2, <1>1 DEF Hold, Stalled
    <3> QED
      BY <3>1, <2>1, <2>2, <1>1
  <2>3. CASE ~(mayStage[x] /\ InFlight(x) > 0)
    BY <2>3, <1>1
  <2> QED
    BY <2>2, <2>3
<1>6. SlidOffset(x) \in 0 .. Window
  BY <1>1, Sizes
<1> HIDE DEF shown, stalled, k
<1>7. /\ base' \in [End -> Nat]
      /\ base'[x] = peerAck[x].n /\ base'[Peer(x)] = base[Peer(x)]
      /\ sendOffset' \in [End -> 0 .. Window] /\ sendOffset'[x] = SlidOffset(x)
      /\ sendOffset'[Peer(x)] = sendOffset[Peer(x)]
      /\ stall' \in [End -> 0 .. (StallFrames - 1)]
      /\ image' \in [End -> Image]
      /\ image'[x].chunk = shown
      /\ image'[x].ack = rxAck[x] /\ image'[Peer(x)] = image[Peer(x)]
  BY <1>3, <1>4, <1>5, <1>6, SlideAndPaint
<1>8. base'[x] + sendOffset'[x] <= Len(log'[x])
  BY <1>1, <1>3, <1>7, Sizes
<1>9. Shows(log'[x], base'[x], image'[x].chunk)
  BY <1>3, <1>4, <1>7
<1> QED
  BY <1>2, <1>3, <1>7, <1>8, <1>9, LogKept DEF Built

(* Staging a new chunk keeps what a build must keep: the window has room   *)
(* for it and it continues the numbering of the log.                       *)
LEMMA StageBuilds ==
    ASSUME IInv, NEW x \in End, Stage(x)
    PROVE  Built(x)
<1> DEFINE chunks == log[x]
           chunk == NewChunk(x)
           more == Append(log[x], NewChunk(x))
<1>1. /\ InFlight(x) \in 0 .. Window /\ InFlight(x) < Window
      /\ peerAck[x].n \in Nat
      /\ peerAck[x].n + InFlight(x) = Len(chunks)
      /\ SlidStall(x) \in 0 .. (StallFrames - 1)
      /\ Newest(x) \in Chunk /\ Newest(x).to <= written[x]
      /\ Readable(x) \in Nat /\ Readable(x) > 0
  BY SlidWindow DEF Stage, Staging, ReadyToAdvance
<1>2. /\ log \in [End -> Seq(Chunk)] /\ chunks \in Seq(Chunk)
      /\ Len(chunks) \in Nat /\ written[x] \in Nat
      /\ Staged(chunks, written[x]) /\ Numbered(chunks)
      /\ mayStage \in [End -> BOOLEAN]
  BY DEF IInv, TypeOK, Direction
<1>3. /\ Newest(x).seq \in Nat /\ Newest(x).to \in Nat
      /\ PayloadSize \in Nat /\ PayloadSize > 0
  BY <1>1, PdAssumption DEF Chunk
<1>4. NextSeq(Newest(x).seq) \in Nat
  BY <1>3, Sizes DEF NextSeq
<1>5. /\ chunk.n = Len(chunks) + 1 /\ chunk.seq = NextSeq(Newest(x).seq)
      /\ chunk.from = Newest(x).to /\ chunk.from < chunk.to
      /\ chunk.to <= written[x]
      /\ chunk \in Chunk
  <2> DEFINE take == IF Readable(x) < PayloadSize
                     THEN Readable(x) ELSE PayloadSize
  <2>1. take \in Nat /\ take > 0 /\ take <= Readable(x)
    BY <1>1, <1>3
  <2>2. chunk = [seq |-> NextSeq(Newest(x).seq), n |-> Len(chunks) + 1,
                 from |-> Newest(x).to, to |-> Newest(x).to + take]
    BY DEF NewChunk
  <2>3. Newest(x).to + Readable(x) = written[x]
    BY <1>1, <1>2, <1>3 DEF Readable
  <2> HIDE DEF take, chunk
  <2>4. Newest(x).to + take \in Nat /\ Newest(x).to < Newest(x).to + take
        /\ Newest(x).to + take <= written[x]
    BY <2>1, <2>3, <1>1, <1>2, <1>3
  <2>5. chunk \in Chunk
    BY <2>2, <2>4, <1>2, <1>3, <1>4 DEF Chunk
  <2> QED
    BY <2>2, <2>4, <2>5
<1>6. /\ chunk.seq = IF chunks = <<>> THEN 1
                     ELSE NextSeq(chunks[Len(chunks)].seq)
      /\ chunk.from = IF chunks = <<>> THEN 0 ELSE chunks[Len(chunks)].to
  BY <1>5, Sizes DEF Newest, ZeroChunk, NextSeq
<1>7. Staged(more, written[x]) /\ Numbered(more)
  <2> HIDE DEF chunk
  <2>1. /\ Staged(Append(chunks, chunk), written[x])
        /\ Numbered(Append(chunks, chunk))
    BY <1>2, <1>5, <1>6, StageChunk
  <2> QED
    BY <2>1 DEF chunk
<1>8. /\ more \in Seq(Chunk) /\ Len(more) = Len(chunks) + 1
      /\ more[Len(chunks) + 1] = chunk
      /\ \A i \in 1 .. Len(chunks) : more[i] = chunks[i]
  <2> HIDE DEF chunk
  <2>1. /\ Append(chunks, chunk) \in Seq(Chunk)
        /\ Len(Append(chunks, chunk)) = Len(chunks) + 1
        /\ Append(chunks, chunk)[Len(chunks) + 1] = chunk
        /\ \A i \in 1 .. Len(chunks) : Append(chunks, chunk)[i] = chunks[i]
    BY <1>2, <1>5
  <2> QED
    BY <2>1 DEF chunk
<1>9. /\ log' = [log EXCEPT ![x] = more]
      /\ Slide(x, InFlight(x) + 1, SlidStall(x)) /\ Paint(x, chunk)
  BY DEF Stage
<1>10. mayStage' \in [End -> BOOLEAN]
  BY <1>2 DEF Stage, SpendCredit
<1> HIDE DEF more, chunk
<1>11. log' \in [End -> Seq(Chunk)] /\ log'[x] = more /\ log'[Peer(x)] = log[Peer(x)]
  BY <1>2, <1>8, <1>9, Ends
<1>12. InFlight(x) + 1 \in 0 .. Window
  BY <1>1, Sizes
<1>13. /\ base' \in [End -> Nat]
       /\ base'[x] = peerAck[x].n /\ base'[Peer(x)] = base[Peer(x)]
       /\ sendOffset' \in [End -> 0 .. Window] /\ sendOffset'[x] = InFlight(x) + 1
       /\ sendOffset'[Peer(x)] = sendOffset[Peer(x)]
       /\ stall' \in [End -> 0 .. (StallFrames - 1)]
       /\ image' \in [End -> Image]
       /\ image'[x].chunk = chunk
       /\ image'[x].ack = rxAck[x] /\ image'[Peer(x)] = image[Peer(x)]
  BY <1>1, <1>5, <1>9, <1>12, SlideAndPaint
<1>14. base'[x] + sendOffset'[x] <= Len(log'[x])
  BY <1>1, <1>8, <1>11, <1>13, Sizes, SMTT(30)
<1>15. Shows(log'[x], base'[x], image'[x].chunk)
  <2>1. chunk.n \in (peerAck[x].n + 1) .. Len(more) /\ chunk = more[chunk.n]
    BY <1>1, <1>2, <1>5, <1>8
  <2> QED
    BY <2>1, <1>11, <1>13 DEF Shows
<1>16. /\ Len(chunks) <= Len(more) /\ Len(more) <= peerAck[x].n + Window
  BY <1>1, <1>2, <1>8, Sizes, SMTT(30)
<1> QED
  BY <1>7, <1>8, <1>10, <1>11, <1>13, <1>14, <1>15, <1>16 DEF Built

(* Every outcome of build_own_chunk keeps what a build must keep.          *)
LEMMA BuildBuilds ==
    ASSUME IInv, NEW x \in End, BuildOwnChunk(x)
    PROVE  Built(x)
BY ReplayBuilds, StageBuilds, GoBackBuilds, HoldBuilds DEF BuildOwnChunk

(* The types of everything Direction(e) talks about.                       *)
LEMMA DirectionTypes ==
    ASSUME TypeOK, NEW e \in End
    PROVE  /\ Peer(e) \in End /\ Peer(e) # e /\ Peer(Peer(e)) = e
           /\ log[e] \in Seq(Chunk) /\ Len(log[e]) \in Nat
           /\ written[e] \in Nat /\ base[e] \in Nat /\ sendOffset[e] \in Nat
           /\ peerAck[e] \in Tag /\ peerAck[e].n \in Nat
           /\ input[e] \in Image /\ input[e].ack \in Tag /\ input[e].ack.n \in Nat
           /\ image[e] \in Image /\ image[e].ack \in Tag /\ image[e].ack.n \in Nat
           /\ image[e].chunk \in Chunk /\ input[e].chunk \in Chunk
           /\ input[e].chunk.n \in Nat /\ image[e].chunk.n \in Nat
           /\ rxAck[e] \in Tag /\ rxAck[e].n \in Nat
           /\ rcvd[e] \in Seq(Nat)
<1>1. Peer(e) \in End /\ Peer(e) # e /\ Peer(Peer(e)) = e
  BY Ends
<1>2. /\ log[e] \in Seq(Chunk) /\ Len(log[e]) \in Nat
      /\ written[e] \in Nat /\ base[e] \in Nat /\ rcvd[e] \in Seq(Nat)
      /\ peerAck[e] \in Tag /\ rxAck[e] \in Tag
      /\ input[e] \in Image /\ image[e] \in Image
  BY DEF TypeOK
<1>3. sendOffset[e] \in Nat
  BY Sizes DEF TypeOK
<1>4. /\ input[e].ack \in Tag /\ image[e].ack \in Tag
      /\ image[e].chunk \in Chunk /\ input[e].chunk \in Chunk
  BY <1>2 DEF Image
<1>5. \A tag \in Tag : tag.n \in Nat
  BY DEF Tag
<1>6. \A chunk \in Chunk : chunk.n \in Nat
  BY DEF Chunk
<1> QED
  BY <1>1, <1>2, <1>3, <1>4, <1>5, <1>6

(* The numbers of AckChain(e), in the order of the chain.                  *)
LEMMA ChainTypes ==
    ASSUME TypeOK, NEW e \in End
    PROVE  /\ base[e] \in Nat /\ peerAck[e].n \in Nat /\ input[e].ack.n \in Nat
           /\ image[Peer(e)].ack.n \in Nat /\ rxAck[Peer(e)].n \in Nat
           /\ Len(log[e]) \in Nat
<1>1. Peer(e) \in End
  BY Ends
<1> QED
  BY <1>1, DirectionTypes

(* A build by one end preserves both directions: the one it sends in, and  *)
(* the one it acknowledges.                                                *)
LEMMA BuildKeepsDirections ==
    ASSUME IInv, NEW x \in End, BuildOwnChunk(x)
    PROVE  \A e \in End : Direction(e)'
<1> DEFINE p == Peer(x)
<1>1. Built(x)
  BY BuildBuilds
<1>2. UNCHANGED <<written, drained, peerAck, rxAck, rcvd, input>>
  BY DEF BuildOwnChunk, streamVars, receiverVars
<1>3. TypeOK /\ Direction(x) /\ Direction(p) /\ p \in End /\ Peer(p) = x /\ p # x
  BY Ends DEF IInv
<1>4. Direction(x)'
  <2>1. Staged(log'[x], written'[x]) /\ Numbered(log'[x])
    BY <1>1, <1>2 DEF Built
  <2>2. AckChain(x)'
    <3>1. /\ base'[x] = peerAck[x].n /\ image'[p] = image[p]
          /\ Len(log[x]) <= Len(log'[x]) /\ Len(log'[x]) <= peerAck[x].n + Window
          /\ Len(log'[x]) \in Nat
      BY <1>1 DEF Built
    <3>2. AckChain(x)
      BY <1>3 DEF Direction
    <3> QED
      BY <3>1, <3>2, <1>2, <1>3, ChainTypes, Sizes DEF AckChain
  <2>3. AcksName(x)'
    <3>1. log[x] \in Seq(Chunk) /\ log'[x] \in Seq(Chunk)
          /\ Len(log[x]) <= Len(log'[x])
          /\ \A i \in 1 .. Len(log[x]) : log'[x][i] = log[x][i]
      BY <1>1, <1>3, DirectionTypes DEF Built
    <3>2. peerAck[x] \in Tag /\ input[x].ack \in Tag /\ image[p].ack \in Tag
          /\ rxAck[p] \in Tag
      BY <1>3, DirectionTypes
    <3>3. \A tag \in Tag : Names(log[x], tag) => Names(log'[x], tag)
      BY <3>1, NamesGrown
    <3>4. image'[p] = image[p]
      BY <1>1 DEF Built
    <3> QED
      BY <3>2, <3>3, <3>4, <1>2, <1>3 DEF Direction, AcksName
  <2>4. ImagesShow(x)'
    <3>1. Shows(log'[x], base'[x], image'[x].chunk)
      BY <1>1 DEF Built
    <3>2. Shows(log[x], 0, input[p].chunk)
      BY <1>3 DEF Direction, ImagesShow
    <3>3. Shows(log'[x], 0, input[p].chunk)
      <4>1. /\ Len(log[x]) <= Len(log'[x]) /\ Len(log'[x]) \in Nat
            /\ \A i \in 1 .. Len(log[x]) : log'[x][i] = log[x][i]
            /\ Len(log[x]) \in Nat
        BY <1>1, <1>3, DirectionTypes DEF Built
      <4>2. CASE ChunkLen(input[p].chunk) = 0
        BY <4>2 DEF Shows
      <4>3. CASE ChunkLen(input[p].chunk) # 0
        <5>1. /\ input[p].chunk.n \in 1 .. Len(log[x])
              /\ input[p].chunk = log[x][input[p].chunk.n]
          BY <3>2, <4>3 DEF Shows
        <5>2. /\ input[p].chunk.n \in 1 .. Len(log'[x])
              /\ input[p].chunk = log'[x][input[p].chunk.n]
          BY <5>1, <4>1
        <5> QED
          BY <5>2 DEF Shows
      <4> QED
        BY <4>2, <4>3
    <3> QED
      BY <3>1, <3>3, <1>2, <1>3 DEF Direction, ImagesShow
  <2>5. base'[x] + sendOffset'[x] <= Len(log'[x])
    BY <1>1 DEF Built
  <2>6. rcvd'[p] = Bytes(0, Reach(log'[x], rxAck'[p].n))
    <3>1. rxAck[p].n \in Nat /\ rxAck[p].n <= Len(log[x]) /\ Len(log[x]) \in Nat
      BY <1>3, DirectionTypes DEF Direction, AckChain
    <3>2. Reach(log'[x], rxAck[p].n) = Reach(log[x], rxAck[p].n)
      BY <3>1, <1>1 DEF Reach, Built
    <3> QED
      BY <3>2, <1>2, <1>3 DEF Direction
  <2> QED
    BY <2>1, <2>2, <2>3, <2>4, <2>5, <2>6 DEF Direction
<1>5. Direction(p)'
  <2>1. /\ log'[p] = log[p] /\ base'[p] = base[p]
        /\ sendOffset'[p] = sendOffset[p] /\ image'[p] = image[p]
        /\ image'[x].ack = rxAck[x]
    BY <1>1 DEF Built
  <2>2. AckChain(p)'
    <3>1. AckChain(p)
      BY <1>3 DEF Direction
    <3>2. rxAck[x].n <= rxAck[x].n
      BY <1>3, DirectionTypes
    <3>3. input[p].ack.n <= rxAck[x].n
      BY <3>1, <1>3, ChainTypes DEF AckChain
    <3> QED
      BY <3>1, <3>2, <3>3, <2>1, <1>2, <1>3 DEF AckChain
  <2>3. AcksName(p)'
    BY <2>1, <1>2, <1>3 DEF Direction, AcksName
  <2>4. ImagesShow(p)'
    BY <2>1, <1>2, <1>3 DEF Direction, ImagesShow
  <2> QED
    BY <2>1, <2>2, <2>3, <2>4, <1>2, <1>3 DEF Direction
<1> QED
  BY <1>4, <1>5, Ends

(* What on_peer_chunk does with the ack it finds and the chunk it accepts. *)
Received(x) ==
    LET p == Peer(x) IN
    /\ peerAck' \in [End -> Tag]
    /\ peerAck'[x] = input[x].ack /\ peerAck'[p] = peerAck[p]
    /\ mayStage' \in [End -> BOOLEAN]
    /\ rxAck' \in [End -> Tag] /\ rcvd' \in [End -> Seq(Nat)]
    /\ rxAck'[p] = rxAck[p] /\ rcvd'[p] = rcvd[p]
    /\ \/ rxAck'[x] = rxAck[x] /\ rcvd'[x] = rcvd[x]
       \/ /\ rxAck'[x].n = rxAck[x].n + 1
          /\ rxAck'[x].n \in 1 .. Len(log[p])
          /\ rxAck'[x].seq = log[p][rxAck'[x].n].seq
          /\ rxAck'[x].n = input[x].chunk.n
          /\ rcvd'[x] = Bytes(0, log[p][rxAck'[x].n].to)
          /\ rcvd'[x] = rcvd[x] \o Bytes(Len(rcvd[x]), log[p][rxAck'[x].n].to)
          /\ Len(rcvd[x]) < log[p][rxAck'[x].n].to

(* on_peer_chunk adopts an ack that only moves forward, and accepts a      *)
(* chunk only if it is the one after the last consumed.                    *)
LEMMA ReceiveReceives ==
    ASSUME IInv, NEW x \in End, OnPeerChunk(x)
    PROVE  Received(x)
<1> DEFINE p == Peer(x)
           c == input[x].chunk
           n == input[x].chunk.n
<1>1. /\ TypeOK /\ p \in End /\ Peer(p) = x /\ p # x
      /\ Direction(p) /\ Direction(x)
  BY Ends DEF IInv
<1>2. /\ peerAck' = [peerAck EXCEPT ![x] = input[x].ack]
      /\ mayStage' = [mayStage EXCEPT ![x] = TRUE]
  BY DEF OnPeerChunk
<1>3. /\ peerAck' \in [End -> Tag] /\ mayStage' \in [End -> BOOLEAN]
      /\ peerAck'[x] = input[x].ack /\ peerAck'[p] = peerAck[p]
  BY <1>1, <1>2, DirectionTypes DEF TypeOK
<1>4. rxAck \in [End -> Tag] /\ rcvd \in [End -> Seq(Nat)]
  BY <1>1 DEF TypeOK
<1>5. CASE ~Acceptable(x)
  <2>1. rxAck' = rxAck /\ rcvd' = rcvd
    BY <1>5 DEF OnPeerChunk
  <2> QED
    BY <2>1, <1>3, <1>4 DEF Received
<1>6. CASE Acceptable(x)
  <2>1. /\ rxAck' = [rxAck EXCEPT ![x] = [seq |-> c.seq, n |-> c.n]]
        /\ rcvd' = [rcvd EXCEPT ![x] = @ \o Bytes(c.from, c.to)]
    BY <1>6 DEF OnPeerChunk
  <2>2. ChunkLen(c) # 0 /\ c.seq = NextSeq(rxAck[x].seq)
    BY <1>6 DEF Acceptable
  <2>3. /\ n \in 1 .. Len(log[p]) /\ c = log[p][n]
        /\ rxAck[x].n < n + Window
    BY <2>2, <1>1 DEF Direction, ImagesShow, Shows
  <2>4. /\ log[p] \in Seq(Chunk) /\ written[p] \in Nat /\ base[p] \in Nat
        /\ rxAck[x] \in Tag /\ rxAck[x].n \in Nat /\ Len(log[p]) \in Nat
        /\ c \in Chunk /\ n \in Nat
        /\ Staged(log[p], written[p]) /\ Numbered(log[p])
        /\ Names(log[p], rxAck[x])
    BY <1>1, DirectionTypes DEF Direction, AcksName
  <2>5. n <= rxAck[x].n + Window
    <3>1. Len(log[p]) <= base[p] + Window
      BY <1>1 DEF Direction, AckChain
    <3>2. base[p] <= rxAck[x].n
      BY <1>1, ChainTypes DEF Direction, AckChain
    <3> QED
      BY <3>1, <3>2, <2>3, <2>4, Sizes, SMTT(30)
  <2>6. n = rxAck[x].n + 1
    BY <2>2, <2>3, <2>4, <2>5, NextIsNext
  <2>7. /\ c.seq \in Nat /\ c.from \in Nat /\ c.to \in Nat /\ c.from < c.to
    BY <2>3, <2>4 DEF Chunk, Staged
  <2>8. rcvd[x] = Bytes(0, c.from)
    <3>1. c.from = Reach(log[p], rxAck[x].n)
      <4>1. CASE n = 1
        BY <4>1, <2>3, <2>4, <2>6 DEF Staged, Reach
      <4>2. CASE n > 1
        <5>1. c.from = log[p][n - 1].to
          BY <4>2, <2>3, <2>4 DEF Staged
        <5>2. n - 1 = rxAck[x].n /\ rxAck[x].n # 0
          BY <4>2, <2>4, <2>6
        <5> QED
          BY <5>1, <5>2 DEF Reach
      <4> QED
        BY <4>1, <4>2, <2>3, <2>4
    <3> QED
      BY <3>1, <1>1 DEF Direction
  <2>9. /\ rcvd[x] \o Bytes(c.from, c.to) = Bytes(0, c.to)
        /\ Len(rcvd[x]) = c.from
        /\ Bytes(0, c.to) \in Seq(Nat)
    <3> DEFINE low == c.from
               high == c.to
    <3>0. low \in Nat /\ high \in Nat /\ low <= high /\ high <= high
      BY <2>7
    <3> HIDE DEF low, high
    <3>1. /\ Bytes(0, low) \o Bytes(low, high) = Bytes(0, high)
          /\ Len(Bytes(0, low)) = low
      BY <3>0, BytesConcat
    <3>2. Bytes(0, high) \in Seq(Nat)
      BY <3>0, BytesConcat
    <3> USE DEF low, high
    <3> QED
      BY <3>1, <3>2, <2>8
  <2>10. [seq |-> c.seq, n |-> c.n] \in Tag
    BY <2>4, <2>7 DEF Tag
  <2>11. /\ rxAck'[x] = [seq |-> c.seq, n |-> c.n] /\ rxAck'[p] = rxAck[p]
         /\ rxAck' \in [End -> Tag]
    BY <2>1, <2>10, <1>1, <1>4
  <2>12. /\ rcvd'[x] = Bytes(0, c.to) /\ rcvd'[p] = rcvd[p]
         /\ rcvd' \in [End -> Seq(Nat)]
    BY <2>1, <2>9, <1>1, <1>4
  <2> QED
    <3>1. rxAck'[x].n = n /\ rxAck'[x].seq = c.seq
      BY <2>11
    <3>2. /\ rxAck'[x].n = rxAck[x].n + 1
          /\ rxAck'[x].n \in 1 .. Len(log[p])
          /\ rxAck'[x].seq = log[p][rxAck'[x].n].seq
          /\ c.to = log[p][rxAck'[x].n].to
      BY <3>1, <2>3, <2>6
    <3>3. /\ rcvd'[x] = rcvd[x] \o Bytes(Len(rcvd[x]), c.to)
          /\ Len(rcvd[x]) < c.to
      BY <2>7, <2>9, <2>12
    <3> QED
      BY <3>1, <3>2, <3>3, <2>11, <2>12, <1>3 DEF Received
<1> QED
  BY <1>5, <1>6

(* on_peer_chunk preserves both directions.                                *)
LEMMA ReceiveKeepsDirections ==
    ASSUME IInv, NEW x \in End, OnPeerChunk(x),
           UNCHANGED <<written, senderVars, image, input>>
    PROVE  \A e \in End : Direction(e)'
<1> DEFINE p == Peer(x)
<1>1. Received(x)
  BY ReceiveReceives
<1>2. UNCHANGED <<written, log, base, sendOffset, image, input>>
  BY DEF senderVars
<1>3. TypeOK /\ Direction(x) /\ Direction(p) /\ p \in End /\ Peer(p) = x /\ p # x
  BY Ends DEF IInv
<1>4. Direction(x)'
  <2>1. peerAck'[x] = input[x].ack /\ rxAck'[p] = rxAck[p] /\ rcvd'[p] = rcvd[p]
    BY <1>1 DEF Received
  <2>2. AckChain(x)'
    <3>1. AckChain(x)
      BY <1>3 DEF Direction
    <3>2. base[x] <= input[x].ack.n /\ input[x].ack.n <= input[x].ack.n
      BY <3>1, <1>3, ChainTypes DEF AckChain
    <3> QED
      BY <3>1, <3>2, <2>1, <1>2, <1>3 DEF AckChain
  <2>3. AcksName(x)'
    BY <2>1, <1>2, <1>3 DEF Direction, AcksName
  <2>4. ImagesShow(x)'
    BY <2>1, <1>2, <1>3 DEF Direction, ImagesShow
  <2> QED
    BY <2>1, <2>2, <2>3, <2>4, <1>2, <1>3 DEF Direction
<1>5. Direction(p)'
  <2>1. peerAck'[p] = peerAck[p]
    BY <1>1 DEF Received
  <2>2. CASE rxAck'[x] = rxAck[x] /\ rcvd'[x] = rcvd[x]
    <3>1. AckChain(p)'
      BY <2>1, <2>2, <1>2, <1>3 DEF Direction, AckChain
    <3>2. AcksName(p)'
      BY <2>1, <2>2, <1>2, <1>3 DEF Direction, AcksName
    <3>3. ImagesShow(p)'
      BY <2>2, <1>2, <1>3 DEF Direction, ImagesShow
    <3> QED
      BY <3>1, <3>2, <3>3, <2>2, <1>2, <1>3 DEF Direction
  <2>3. CASE /\ rxAck'[x].n = rxAck[x].n + 1
             /\ rxAck'[x].n \in 1 .. Len(log[p])
             /\ rxAck'[x].seq = log[p][rxAck'[x].n].seq
             /\ rxAck'[x].n = input[x].chunk.n
             /\ rcvd'[x] = Bytes(0, log[p][rxAck'[x].n].to)
    <3>1. AckChain(p)'
      <4>1. AckChain(p)
        BY <1>3 DEF Direction
      <4>2. /\ image[x].ack.n <= rxAck[x].n + 1
            /\ rxAck[x].n + 1 <= Len(log[p])
        BY <4>1, <2>3, <1>3, ChainTypes DEF AckChain
      <4> QED
        BY <4>1, <4>2, <2>1, <2>3, <1>2, <1>3 DEF AckChain
    <3>2. AcksName(p)'
      BY <2>1, <2>3, <1>2, <1>3 DEF Direction, AcksName, Names
    <3>3. ImagesShow(p)'
      BY <2>3, <1>2, <1>3, DirectionTypes, Sizes, SMTT(30) DEF Direction, ImagesShow
    <3>4. rcvd'[x] = Bytes(0, Reach(log'[p], rxAck'[x].n))
      BY <2>3, <1>2 DEF Reach
    <3> QED
      BY <3>1, <3>2, <3>3, <3>4, <1>2, <1>3 DEF Direction
  <2> QED
    BY <2>2, <2>3, <1>1 DEF Received
<1> QED
  BY <1>4, <1>5, Ends

(* ----------------------- the inductive invariant ----------------------- *)

(* Freshly reset endpoints satisfy the invariant.                          *)
LEMMA InitIInv == Init => IInv
<1> SUFFICES ASSUME Init PROVE IInv
  OBVIOUS
<1>1. TypeOK
  <2>1. 0 \in 0 .. Window /\ 0 \in 0 .. (StallFrames - 1)
    BY PdAssumption
  <2>2. ZeroImage \in Image /\ NoTag \in Tag /\ <<>> \in Seq(Chunk) /\ <<>> \in Seq(Nat)
    BY DEF ZeroImage, ZeroChunk, Image, Chunk, Tag, NoTag
  <2> QED
    BY <2>1, <2>2 DEF Init, TypeOK
<1>2. ASSUME NEW e \in End PROVE Direction(e)
  <2>1. /\ Peer(e) \in End /\ log[e] = <<>> /\ base[e] = 0 /\ sendOffset[e] = 0
        /\ peerAck[e] = NoTag /\ rxAck[Peer(e)] = NoTag
        /\ input[e] = ZeroImage /\ image[e] = ZeroImage
        /\ input[Peer(e)] = ZeroImage /\ image[Peer(e)] = ZeroImage
        /\ rcvd[Peer(e)] = <<>> /\ Len(log[e]) = 0
    BY <1>2, Ends DEF Init
  <2>2. Staged(log[e], written[e]) /\ Numbered(log[e])
    BY <2>1 DEF Staged, Numbered
  <2>3. AckChain(e) /\ AcksName(e)
    BY <2>1, Sizes DEF AckChain, AcksName, Names, ZeroImage, NoTag
  <2>4. ImagesShow(e)
    BY <2>1 DEF ImagesShow, Shows, ZeroImage, ZeroChunk, ChunkLen
  <2>5. rcvd[Peer(e)] = Bytes(0, Reach(log[e], rxAck[Peer(e)].n))
    BY <2>1 DEF Bytes, Reach, NoTag
  <2> QED
    BY <2>1, <2>2, <2>3, <2>4, <2>5 DEF Direction
<1> QED
  BY <1>1, <1>2 DEF IInv

(* Steps that touch no endpoint, no image and no input.                    *)
LEMMA IdleKeepsDirections ==
    ASSUME IInv, UNCHANGED <<senderVars, receiverVars, image>>,
           \A e \in End : written'[e] \in Nat /\ written[e] <= written'[e]
    PROVE  \A e \in End : Direction(e)'
<1> SUFFICES ASSUME NEW e \in End PROVE Direction(e)'
  OBVIOUS
<1>1. UNCHANGED <<log, base, sendOffset, peerAck, rxAck, rcvd, input, image>>
  BY DEF senderVars, receiverVars
<1>2. Direction(e) /\ TypeOK
  BY DEF IInv
<1>3. Staged(log[e], written'[e])
  <2>1. log[e] \in Seq(Chunk) /\ written[e] \in Nat /\ Staged(log[e], written[e])
    BY <1>2, DirectionTypes DEF Direction
  <2>2. \A i \in 1 .. Len(log[e]) : log[e][i] \in Chunk
    BY <2>1
  <2>3. \A i \in 1 .. Len(log[e]) : log[e][i].to \in Nat
    BY <2>2 DEF Chunk
  <2>4. written'[e] \in Nat /\ written[e] <= written'[e]
    OBVIOUS
  <2>5. \A i \in 1 .. Len(log[e]) : log[e][i].to <= written'[e]
    BY <2>1, <2>3, <2>4 DEF Staged
  <2> QED
    BY <2>1, <2>5 DEF Staged
<1>4. AckChain(e)' /\ AcksName(e)' /\ ImagesShow(e)'
  BY <1>1, <1>2 DEF Direction, AckChain, AcksName, ImagesShow
<1> QED
  BY <1>1, <1>2, <1>3, <1>4 DEF Direction

(* A frame, whichever images it samples, preserves both directions: an     *)
(* image that is sampled late shows an older state, never a wrong one.     *)
LEMMA PassKeepsDirections ==
    ASSUME IInv, FramePass
    PROVE  \A e \in End : Direction(e)'
<1> SUFFICES ASSUME NEW e \in End PROVE Direction(e)'
  OBVIOUS
<1> DEFINE p == Peer(e)
<1>1. /\ UNCHANGED <<written, log, base, sendOffset, peerAck, rxAck, rcvd, image>>
      /\ input' = [x \in End |-> image[Peer(x)]]
  BY DEF FramePass, streamVars, senderVars
<1>2. /\ Direction(e) /\ TypeOK /\ p \in End /\ Peer(p) = e
      /\ AckChain(e) /\ AcksName(e) /\ ImagesShow(e)
  BY Ends DEF IInv, Direction
<1>3. input'[e] = image[p] /\ input'[p] = image[e]
  BY <1>1, <1>2
<1>4. AckChain(e)'
  <2>1. peerAck[e].n <= image[p].ack.n /\ image[p].ack.n <= image[p].ack.n
    BY <1>2, ChainTypes DEF AckChain
  <2> QED
    BY <2>1, <1>1, <1>2, <1>3 DEF AckChain
<1>5. AcksName(e)'
  BY <1>1, <1>2, <1>3 DEF AcksName
<1>6. ImagesShow(e)'
  <2>1. Shows(log[e], base[e], image[e].chunk)
    BY <1>2 DEF ImagesShow
  <2>2. Shows(log[e], 0, image[e].chunk)
    BY <2>1, <1>2, DirectionTypes DEF Shows
  <2>3. ChunkLen(image[e].chunk) # 0 => rxAck[p].n < image[e].chunk.n + Window
    <3>1. /\ rxAck[p].n \in Nat /\ base[e] \in Nat /\ Len(log[e]) \in Nat
          /\ image[e].chunk.n \in Nat
      BY <1>2, DirectionTypes
    <3>2. rxAck[p].n <= Len(log[e]) /\ Len(log[e]) <= base[e] + Window
      BY <1>2 DEF AckChain
    <3>3. ChunkLen(image[e].chunk) # 0 => image[e].chunk.n \in (base[e] + 1) .. Len(log[e])
      BY <2>1 DEF Shows
    <3> QED
      BY <3>1, <3>2, <3>3, Sizes
  <2> QED
    BY <2>1, <2>2, <2>3, <1>1, <1>3 DEF ImagesShow
<1> QED
  BY <1>1, <1>2, <1>4, <1>5, <1>6 DEF Direction

(* Every step keeps the types.                                             *)
LEMMA StepTypeOK ==
    ASSUME IInv, [Next]_vars
    PROVE  TypeOK'
<1> TypeOK
  BY DEF IInv
<1> USE DEF TypeOK, streamVars, senderVars, receiverVars, wireVars
<1>1. ASSUME NEW e \in End, Write(e) PROVE TypeOK'
  <2>1. written' \in [End -> Nat]
    BY <1>1, PdAssumption DEF Write
  <2> QED
    BY <2>1, <1>1 DEF Write
<1>2. ASSUME NEW e \in End, Drain(e) PROVE TypeOK'
  <2>1. drained' \in [End -> Nat]
    BY <1>2 DEF Drain
  <2> QED
    BY <2>1, <1>2 DEF Drain
<1>3. ASSUME NEW x \in End, BuildOwnChunk(x),
             UNCHANGED <<registered, faults>>,
             frame' \in {"none", "out", "back", "lost"},
             event' \in BOOLEAN, isr' \in BOOLEAN, refresh' \in BOOLEAN
      PROVE  TypeOK'
  <2>1. Built(x)
    BY <1>3, BuildBuilds
  <2>2. UNCHANGED <<written, drained, peerAck, rxAck, rcvd, input>>
    BY <1>3 DEF BuildOwnChunk
  <2> QED
    BY <1>3, <2>1, <2>2 DEF Built
<1>4. ASSUME NEW x \in End, OnPeerChunk(x),
             UNCHANGED <<input, streamVars, senderVars, image, registered, faults>>,
             frame' \in {"none", "out", "back", "lost"},
             event' \in BOOLEAN, isr' \in BOOLEAN, refresh' \in BOOLEAN
      PROVE  TypeOK'
  <2>1. Received(x)
    BY <1>4, ReceiveReceives
  <2> QED
    BY <1>4, <2>1 DEF Received
<1>5. ASSUME RegisterCallback PROVE TypeOK'
  BY <1>5 DEF RegisterCallback
<1>6. ASSUME HostSend PROVE TypeOK'
  <2>1. "host" \in End
    BY DEF End
  <2> QED
    BY <2>1, <1>3, <1>6 DEF HostSend
<1>7. ASSUME HostReceive PROVE TypeOK'
  <2>1. "host" \in End
    BY DEF End
  <2>2. CASE registered
    BY <2>1, <2>2, <1>4, <1>7 DEF HostReceive
  <2>3. CASE ~registered
    BY <2>3, <1>7 DEF HostReceive
  <2> QED
    BY <2>2, <2>3
<1>8. ASSUME HostMiss PROVE TypeOK'
  BY <1>8 DEF HostMiss
<1>9. ASSUME FramePass PROVE TypeOK'
  <2>1. input' \in [End -> Image]
    BY <1>9, Ends DEF FramePass
  <2>2. faults' \in Nat
    BY <1>9 DEF FramePass
  <2> QED
    BY <2>1, <2>2, <1>9 DEF FramePass
<1>10. ASSUME FrameLost PROVE TypeOK'
  <2>1. faults' \in Nat
    BY <1>10 DEF FrameLost
  <2> QED
    BY <2>1, <1>10 DEF FrameLost
<1>11. ASSUME SlaveOutputs PROVE TypeOK'
  <2>1. "slave" \in End
    BY DEF End
  <2> QED
    BY <2>1, <1>4, <1>11 DEF SlaveOutputs
<1>12. ASSUME SlaveInputs PROVE TypeOK'
  <2>1. "slave" \in End
    BY DEF End
  <2> QED
    BY <2>1, <1>3, <1>12 DEF SlaveInputs
<1>13. ASSUME RefreshCheck PROVE TypeOK'
  BY <1>13 DEF RefreshCheck
<1>14. ASSUME RefreshBuild PROVE TypeOK'
  <2>1. "slave" \in End
    BY DEF End
  <2> QED
    BY <2>1, <1>3, <1>14 DEF RefreshBuild
<1>15. ASSUME UNCHANGED vars PROVE TypeOK'
  BY <1>15 DEF vars
<1> QED
  BY <1>1, <1>2, <1>5, <1>6, <1>7, <1>8, <1>9, <1>10, <1>11, <1>12, <1>13,
     <1>14, <1>15 DEF Next

(* Every step preserves both directions.                                   *)
LEMMA StepDirections ==
    ASSUME IInv, [Next]_vars
    PROVE  \A e \in End : Direction(e)'
<1> TypeOK /\ "host" \in End /\ "slave" \in End
  BY DEF IInv, End
<1>1. ASSUME UNCHANGED <<written, senderVars, receiverVars, image>>
      PROVE  \A e \in End : Direction(e)'
  <2>1. \A e \in End : written'[e] \in Nat /\ written[e] <= written'[e]
    BY <1>1 DEF TypeOK
  <2> QED
    BY <1>1, <2>1, IdleKeepsDirections
<1>2. ASSUME NEW x \in End, Write(x) PROVE \A e \in End : Direction(e)'
  <2>1. \A e \in End : written'[e] \in Nat /\ written[e] <= written'[e]
    <3>1. written \in [End -> Nat] /\ StreamSize[x] \in Nat
      BY PdAssumption DEF TypeOK
    <3>2. PICK to \in (written[x] + 1) .. StreamSize[x] :
             written' = [written EXCEPT ![x] = to]
      BY <1>2 DEF Write
    <3>3. to \in Nat /\ written[x] <= to
      BY <3>1
    <3>4. ASSUME NEW e \in End
          PROVE  written'[e] \in Nat /\ written[e] <= written'[e]
      <4>1. CASE e = x
        BY <4>1, <3>1, <3>2, <3>3
      <4>2. CASE e # x
        BY <4>2, <3>1, <3>2
      <4> QED
        BY <4>1, <4>2
    <3> QED
      BY <3>4
  <2> QED
    BY <1>2, <2>1, IdleKeepsDirections DEF Write
<1>3. ASSUME NEW x \in End, Drain(x) PROVE \A e \in End : Direction(e)'
  BY <1>3, <1>1 DEF Drain
<1>4. ASSUME RegisterCallback PROVE \A e \in End : Direction(e)'
  BY <1>4, <1>1 DEF RegisterCallback, streamVars
<1>5. ASSUME HostSend PROVE \A e \in End : Direction(e)'
  BY <1>5, BuildKeepsDirections DEF HostSend
<1>6. ASSUME HostReceive PROVE \A e \in End : Direction(e)'
  <2>1. CASE registered
    BY <2>1, <1>6, ReceiveKeepsDirections DEF HostReceive, streamVars
  <2>2. CASE ~registered
    BY <2>2, <1>6, <1>1 DEF HostReceive, streamVars, receiverVars
  <2> QED
    BY <2>1, <2>2
<1>7. ASSUME HostMiss PROVE \A e \in End : Direction(e)'
  BY <1>7, <1>1 DEF HostMiss, streamVars
<1>8. ASSUME FramePass PROVE \A e \in End : Direction(e)'
  BY <1>8, PassKeepsDirections
<1>9. ASSUME FrameLost PROVE \A e \in End : Direction(e)'
  BY <1>9, <1>1 DEF FrameLost, streamVars
<1>10. ASSUME SlaveOutputs PROVE \A e \in End : Direction(e)'
  BY <1>10, ReceiveKeepsDirections DEF SlaveOutputs, streamVars
<1>11. ASSUME SlaveInputs PROVE \A e \in End : Direction(e)'
  BY <1>11, BuildKeepsDirections DEF SlaveInputs
<1>12. ASSUME RefreshCheck PROVE \A e \in End : Direction(e)'
  BY <1>12, <1>1 DEF RefreshCheck, streamVars
<1>13. ASSUME RefreshBuild PROVE \A e \in End : Direction(e)'
  BY <1>13, BuildKeepsDirections DEF RefreshBuild
<1>14. ASSUME UNCHANGED vars PROVE \A e \in End : Direction(e)'
  BY <1>14, <1>1 DEF vars, streamVars
<1> QED
  BY <1>2, <1>3, <1>4, <1>5, <1>6, <1>7, <1>8, <1>9, <1>10, <1>11, <1>12,
     <1>13, <1>14 DEF Next

(* The invariant is inductive: it holds in every reachable state.          *)
THEOREM Inductive == Spec => []IInv
<1>1. IInv /\ [Next]_vars => IInv'
  BY StepTypeOK, StepDirections DEF IInv
<1> QED
  BY InitIInv, <1>1, PTL DEF Spec

(* ------------------------------ theorems ------------------------------- *)

(* Offsets, stall counts and everything else keep their types: no build    *)
(* ever reads outside the window.                                          *)
THEOREM TypeCorrect == Spec => []TypeOK
<1>1. IInv => TypeOK
  BY DEF IInv
<1> QED
  BY Inductive, <1>1, PTL

(* Whatever frames are lost or sampled twice, for every window smaller     *)
(* than the sequence space: what a receiver has handed on is a prefix of   *)
(* what the other side's user wrote.                                       *)
THEOREM DeliveryExact == Spec => []ExactlyOnceInOrder
<1>1. ASSUME IInv PROVE ExactlyOnceInOrder
  <2> SUFFICES ASSUME NEW e \in End
               PROVE  \E to \in 0 .. written[Peer(e)] : rcvd[e] = Bytes(0, to)
    BY DEF ExactlyOnceInOrder
  <2> DEFINE p == Peer(e)
             reach == Reach(log[p], rxAck[e].n)
  <2>1. /\ p \in End /\ Peer(p) = e /\ TypeOK /\ Direction(p)
    BY <1>1, Ends DEF IInv
  <2>2. /\ rcvd[e] = Bytes(0, reach) /\ rxAck[e].n <= Len(log[p])
        /\ Staged(log[p], written[p])
    BY <2>1 DEF Direction, AckChain
  <2>3. /\ rxAck[e].n \in Nat /\ log[p] \in Seq(Chunk) /\ written[p] \in Nat
        /\ Len(log[p]) \in Nat
    BY <2>1, DirectionTypes
  <2>4. reach \in 0 .. written[p]
    <3>1. CASE rxAck[e].n = 0
      BY <3>1, <2>3 DEF Reach
    <3>2. CASE rxAck[e].n # 0
      <4>1. rxAck[e].n \in 1 .. Len(log[p])
        BY <3>2, <2>2, <2>3
      <4>2. /\ log[p][rxAck[e].n] \in Chunk
            /\ log[p][rxAck[e].n].to <= written[p]
        BY <4>1, <2>2, <2>3 DEF Staged
      <4> QED
        BY <4>2, <3>2, <2>3, SMTT(30) DEF Reach, Chunk
    <3> QED
      BY <3>1, <3>2
  <2> QED
    BY <2>2, <2>4
<1> QED
  BY Inductive, <1>1, PTL

(* A chunk leaves the sender's slots only after the peer consumed it, and  *)
(* the slots never run out.                                                *)
THEOREM WindowSound == Spec => []WindowHoldsUnconsumed
<1>1. ASSUME IInv PROVE WindowHoldsUnconsumed
  <2> SUFFICES ASSUME NEW e \in End
               PROVE  /\ base[e] <= rxAck[Peer(e)].n
                      /\ rxAck[Peer(e)].n <= Len(log[e])
                      /\ Len(log[e]) <= base[e] + Window
    BY DEF WindowHoldsUnconsumed
  <2>1. AckChain(e) /\ TypeOK
    BY <1>1 DEF IInv, Direction
  <2> QED
    BY <2>1, ChainTypes DEF AckChain
<1> QED
  BY Inductive, <1>1, PTL

(* Each direction implements the abstract stream: a write puts bytes in, a *)
(* consumed chunk delivers them, and every other step leaves both alone.   *)
LEMMA StepImplements ==
    ASSUME IInv, IInv', [Next]_vars, NEW e \in End
    PROVE  \/ /\ written'[e] \in Nat /\ written'[e] > written[e]
              /\ rcvd'[Peer(e)] = rcvd[Peer(e)]
           \/ /\ written'[e] = written[e]
              /\ \E to \in (Len(rcvd[Peer(e)]) + 1) .. written[e] :
                    rcvd'[Peer(e)] = rcvd[Peer(e)] \o Bytes(Len(rcvd[Peer(e)]), to)
           \/ written'[e] = written[e] /\ rcvd'[Peer(e)] = rcvd[Peer(e)]
<1> DEFINE p == Peer(e)
<1>1. /\ TypeOK /\ p \in End /\ p # e /\ Peer(p) = e /\ Direction(e)
      /\ written \in [End -> Nat] /\ rcvd[p] \in Seq(Nat)
  BY Ends DEF IInv, TypeOK
<1>2. ASSUME NEW x \in End, Write(x)
      PROVE  /\ rcvd'[p] = rcvd[p]
             /\ \/ written'[e] \in Nat /\ written'[e] > written[e]
                \/ written'[e] = written[e]
  <2>1. StreamSize[x] \in Nat
    BY PdAssumption
  <2>2. PICK to \in (written[x] + 1) .. StreamSize[x] :
           written' = [written EXCEPT ![x] = to]
    BY <1>2 DEF Write
  <2>3. to \in Nat /\ to > written[x]
    BY <2>1, <1>1
  <2>4. CASE x = e
    BY <2>2, <2>3, <2>4, <1>1, <1>2 DEF Write, receiverVars
  <2>5. CASE x # e
    BY <2>2, <2>5, <1>1, <1>2 DEF Write, receiverVars
  <2> QED
    BY <2>4, <2>5
<1>3. ASSUME NEW x \in End, OnPeerChunk(x), written' = written
      PROVE  \/ \E to \in (Len(rcvd[p]) + 1) .. written[e] :
                   rcvd'[p] = rcvd[p] \o Bytes(Len(rcvd[p]), to)
             \/ rcvd'[p] = rcvd[p]
  <2>1. Received(x)
    BY <1>3, ReceiveReceives
  <2>2. CASE x = e
    BY <2>1, <2>2 DEF Received
  <2>3. CASE x = p
    <3>1. CASE rcvd'[p] = rcvd[p]
      BY <3>1
    <3>2. CASE rcvd'[p] # rcvd[p]
      <4> DEFINE n == rxAck'[p].n
      <4>1. /\ n \in 1 .. Len(log[e])
            /\ rcvd'[p] = rcvd[p] \o Bytes(Len(rcvd[p]), log[e][n].to)
            /\ Len(rcvd[p]) < log[e][n].to
        BY <2>1, <2>3, <3>2, <1>1 DEF Received
      <4>2. log[e] \in Seq(Chunk) /\ Staged(log[e], written[e])
        BY <1>1, DirectionTypes DEF Direction
      <4>3. log[e][n] \in Chunk /\ log[e][n].to <= written[e]
        BY <4>1, <4>2 DEF Staged
      <4>4. log[e][n].to \in (Len(rcvd[p]) + 1) .. written[e]
        <5>1. /\ log[e][n].to \in Nat /\ written[e] \in Nat
              /\ Len(rcvd[p]) \in Nat
          BY <4>3, <1>1 DEF Chunk
        <5> QED
          BY <5>1, <4>1, <4>3
      <4> QED
        BY <4>1, <4>4
    <3> QED
      BY <3>1, <3>2
  <2> QED
    BY <2>2, <2>3, Ends
<1>4. ASSUME NEW x \in End, Drain(x)
      PROVE  written' = written /\ rcvd' = rcvd
  BY <1>4 DEF Drain, receiverVars
<1>5. ASSUME NEW x \in End, BuildOwnChunk(x)
      PROVE  written' = written /\ rcvd' = rcvd
  BY <1>5 DEF BuildOwnChunk, streamVars, receiverVars
<1>6. CASE HostReceive
  BY <1>6, <1>3 DEF HostReceive, streamVars, End
<1>7. CASE SlaveOutputs
  BY <1>7, <1>3 DEF SlaveOutputs, streamVars, End
<1>8. CASE HostSend \/ SlaveInputs \/ RefreshBuild
  BY <1>8, <1>5 DEF HostSend, SlaveInputs, RefreshBuild, End
<1>9. CASE \/ RegisterCallback \/ HostMiss \/ FramePass \/ FrameLost
           \/ RefreshCheck \/ UNCHANGED vars
  BY <1>9 DEF RegisterCallback, HostMiss, FramePass, FrameLost, RefreshCheck,
              vars, streamVars, receiverVars
<1> QED
  BY <1>2, <1>4, <1>6, <1>7, <1>8, <1>9, <1>1 DEF Next

(* Both streams start empty.                                               *)
LEMMA InitImplements ==
    ASSUME Init, NEW e \in End
    PROVE  written[e] = 0 /\ rcvd[Peer(e)] = <<>>
  BY Ends DEF Init

(* The host-to-slave stream implements ReliableStream.                     *)
THEOREM DownImplements == Spec => DownReliable
<1>1. "host" \in End /\ Peer("host") = "slave"
  BY DEF End, Peer
<1>2. Init => Down!Init
  BY <1>1, InitImplements DEF Down!Init
<1>3. IInv /\ IInv' /\ [Next]_vars => [Down!Next]_Down!vars
  BY <1>1, StepImplements
     DEF Down!Next, Down!Put, Down!Deliver, Down!vars, Down!Bytes, Bytes
<1> QED
  BY <1>2, <1>3, Inductive, PTL DEF Spec, DownReliable, Down!Spec

(* The slave-to-host stream implements ReliableStream.                     *)
THEOREM UpImplements == Spec => UpReliable
<1>1. "slave" \in End /\ Peer("slave") = "host"
  BY DEF End, Peer
<1>2. Init => Up!Init
  BY <1>1, InitImplements DEF Up!Init
<1>3. IInv /\ IInv' /\ [Next]_vars => [Up!Next]_Up!vars
  BY <1>1, StepImplements
     DEF Up!Next, Up!Put, Up!Deliver, Up!vars, Up!Bytes, Bytes
<1> QED
  BY <1>2, <1>3, Inductive, PTL DEF Spec, UpReliable, Up!Spec

(* Both directions at once, as their users see them.                       *)
THEOREM StreamsImplement == Spec => BothReliable
  BY DownImplements, UpImplements DEF BothReliable
=============================================================================
