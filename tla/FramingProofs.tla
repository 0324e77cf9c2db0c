---------------------------- MODULE FramingProofs ----------------------------
(***************************************************************************)
(* TLAPS proof that Framing implements FrameChannel: for any frames, any   *)
(* width of a number, any size of the socket buffers and any splitting of  *)
(* the bytes.  The one thing asked for is what sendFrame does not check:   *)
(* that the length of a payload is a number of the wire.                   *)
(***************************************************************************)
EXTENDS Framing, TLAPS, SequenceTheorems

PayloadsFit == \A m \in Conversations : \A i \in DOMAIN m : Len(m[i].payload) < Words

-----------------------------------------------------------------------------
LEMMA Constants == Width \in Nat /\ Width > 0 /\ Words \in Nat /\ Words > 0
  BY FramingAssumption

LEMMA Numbers ==
  ASSUME NEW n \in 0..(Words - 1)
  PROVE  /\ ToWire[n] \in [1..Width -> Byte] /\ FromWire[ToWire[n]] = n
         /\ ToWire[n] \in Seq(Byte) /\ Len(ToWire[n]) = Width
  <1>1. ToWire[n] \in [1..Width -> Byte] /\ FromWire[ToWire[n]] = n
    BY FramingAssumption
  <1>2. ToWire[n] \in Seq(Byte)
    BY <1>1, Constants
  <1> QED
    BY <1>1, <1>2, Constants, LenProperties

LEMMA ModSmall ==
  ASSUME NEW n \in Nat, NEW w \in Nat, n < w
  PROVE  n % w = n
  OBVIOUS

LEMMA Concatenation ==
  ASSUME NEW s \in Seq(Byte), NEW t \in Seq(Byte), NEW n \in Nat, NEW k \in Nat,
         Len(s) = n, Len(t) = k
  PROVE  /\ s \o t \in Seq(Byte) /\ Len(s \o t) = n + k
         /\ \A j \in 1..n : (s \o t)[j] = s[j]
         /\ \A j \in 1..k : (s \o t)[n + j] = t[j]
  OBVIOUS

LEMMA Slice ==
  ASSUME NEW s \in Seq(Byte), NEW from \in Nat, NEW n \in Nat, from + n <= Len(s)
  PROVE  /\ SubSeq(s, from + 1, from + n) \in Seq(Byte)
         /\ Len(SubSeq(s, from + 1, from + n)) = n
         /\ \A j \in 1..n : SubSeq(s, from + 1, from + n)[j] = s[from + j]
  OBVIOUS

LEMMA FrameTyped ==
  ASSUME PayloadsFit, NEW m \in Conversations, NEW i \in 1..Len(m)
  PROVE  /\ m[i] \in [type : 0..(Words - 1), payload : Seq(Byte)]
         /\ Len(m[i].payload) \in 0..(Words - 1)
  <1>1. m \in Seq([type : 0..(Words - 1), payload : Seq(Byte)])
    BY FramingAssumption
  <1>2. m[i] \in [type : 0..(Words - 1), payload : Seq(Byte)] /\ i \in DOMAIN m
    BY <1>1, ElementOfSeq, LenProperties
  <1>3. Len(m[i].payload) \in Nat
    BY <1>2, LenProperties
  <1> QED
    BY <1>2, <1>3, Constants DEF PayloadsFit

(* An encoding is type, length and payload, byte by byte.                  *)
LEMMA EncodingBytes ==
  ASSUME PayloadsFit, NEW m \in Conversations, NEW i \in 1..Len(m)
  PROVE  /\ Encoding(m[i]) \in Seq(Byte)
         /\ Len(Encoding(m[i])) = 2 * Width + Len(m[i].payload)
         /\ \A j \in 1..Width : /\ Encoding(m[i])[j] = ToWire[m[i].type][j]
                                /\ Encoding(m[i])[Width + j] = ToWire[Len(m[i].payload)][j]
         /\ \A j \in 1..Len(m[i].payload) : Encoding(m[i])[2 * Width + j] = m[i].payload[j]
  <1> DEFINE f == m[i]
             t == ToWire[f.type]
             l == ToWire[Len(f.payload)]
             h == t \o l
  <1>1. /\ f.payload \in Seq(Byte) /\ Len(f.payload) \in Nat /\ Len(f.payload) < Words
        /\ f.type \in 0..(Words - 1) /\ Len(f.payload) \in 0..(Words - 1)
    BY FrameTyped, Constants
  <1>2. t \in Seq(Byte) /\ l \in Seq(Byte) /\ Len(t) = Width /\ Len(l) = Width
    BY <1>1, Numbers
  <1>3. Encoding(f) = h \o f.payload
    BY <1>1, ModSmall, Constants DEF Encoding, Header
  <1> HIDE DEF t, l
  <1>4. /\ h \in Seq(Byte) /\ Len(h) = 2 * Width /\ 2 * Width \in Nat
        /\ \A j \in 1..Width : h[j] = t[j] /\ h[Width + j] = l[j]
    <2>1. /\ h \in Seq(Byte) /\ Len(h) = Width + Width
          /\ \A j \in 1..Width : h[j] = t[j]
          /\ \A j \in 1..Width : h[Width + j] = l[j]
      BY <1>2, Concatenation, Constants
    <2> HIDE DEF h
    <2> QED
      BY <2>1, Constants
  <1> HIDE DEF h, f
  <1>5. f.payload \in Seq(Byte) /\ Len(f.payload) \in Nat
    BY <1>1
  <1>7. /\ h \o f.payload \in Seq(Byte) /\ Len(h \o f.payload) = 2 * Width + Len(f.payload)
        /\ \A j \in 1..(2 * Width) : (h \o f.payload)[j] = h[j]
        /\ \A j \in 1..Len(f.payload) : (h \o f.payload)[2 * Width + j] = f.payload[j]
    BY <1>4, <1>5, Concatenation
  <1>6. \A j \in 1..Width : j \in 1..(2 * Width) /\ Width + j \in 1..(2 * Width)
    BY Constants
  <1> QED
    BY <1>3, <1>4, <1>6, <1>7 DEF t, l, f

(* The frame that is being received is one of those written.               *)
LEMMA ReadNumber ==
  ASSUME wire \in Seq(Byte), NEW from \in Nat, NEW n \in 0..(Words - 1),
         from + Width <= Len(wire),
         \A j \in 1..Width : wire[from + j] = ToWire[n][j]
  PROVE  Number(from) = n
  <1> DEFINE s == SubSeq(wire, from + 1, from + Width)
  <1>1. s \in Seq(Byte) /\ Len(s) = Width /\ \A j \in 1..Width : s[j] = ToWire[n][j]
    BY Slice, Constants
  <1> HIDE DEF s
  <1>2. ToWire[n] \in Seq(Byte) /\ Len(ToWire[n]) = Width
    BY Numbers
  <1>3. s = ToWire[n]
    BY <1>1, <1>2, SeqEqual
  <1> QED
    BY <1>3, Numbers DEF Number, s

LEMMA ReadingFrame ==
  ASSUME PayloadsFit, FramingInv, NEW k \in Nat, k = Len(delivered) + 1, k <= Len(messages)
  PROVE  /\ base + 2 * Width <= Len(wire) =>
               Number(base) = messages[k].type /\ Announced = Len(messages[k].payload)
         /\ base + Size(k) <= Len(wire) => Received(base + Size(k)) = messages[k]
         /\ Size(k) = 2 * Width + Len(messages[k].payload)
  <1> DEFINE f == messages[k]
             e == Encoding(messages[k])
             n == Len(messages[k].payload)
             end == Len(wire)
  <1>1. /\ messages \in Conversations /\ k \in 1..Len(messages) /\ k <= frame
        /\ wire \in Seq(Byte) /\ base \in Nat /\ base = starts[k]
    <2>1. Len(messages) \in Nat
      BY FramingAssumption, LenProperties DEF FramingInv, TypeOK
    <2> QED
      BY <2>1 DEF FramingInv, TypeOK, ReaderOK
  <1>2. \A j \in 1..Size(k) : base + j <= end => wire[base + j] = e[j]
    BY <1>1 DEF FramingInv, WireOK
  <1>3. f \in [type : 0..(Words - 1), payload : Seq(Byte)] /\ n \in 0..(Words - 1)
    BY <1>1, FrameTyped
  <1>4. Size(k) = 2 * Width + n
    BY <1>1, EncodingBytes DEF Size
  <1>5. \A j \in 1..Width : e[j] = ToWire[f.type][j] /\ e[Width + j] = ToWire[n][j]
    BY <1>1, EncodingBytes
  <1>6. \A j \in 1..n : e[2 * Width + j] = f.payload[j]
    BY <1>1, EncodingBytes
  <1>7. end \in Nat /\ n \in Nat /\ base \in Nat /\ Width \in Nat /\ Width > 0
    BY <1>1, <1>3, LenProperties, Constants
  <1> HIDE DEF f, e, n, end
  <1>8. ASSUME base + 2 * Width <= end
        PROVE  Number(base) = f.type /\ Announced = n
    <2>1. ASSUME NEW j \in 1..Width
          PROVE  wire[base + j] = ToWire[f.type][j] /\ wire[(base + Width) + j] = ToWire[n][j]
      <3>1. j \in 1..(2 * Width + n) /\ base + j <= end
        BY <1>7, <1>8
      <3>2. /\ Width + j \in 1..(2 * Width + n) /\ base + (Width + j) <= end
            /\ base + (Width + j) = (base + Width) + j
        BY <1>7, <1>8
      <3>3. wire[base + j] = e[j] /\ wire[base + (Width + j)] = e[Width + j]
        BY <1>2, <1>4, <3>1, <3>2
      <3> QED
        BY <1>5, <3>2, <3>3
    <2>2. base + Width \in Nat /\ base + Width <= end /\ (base + Width) + Width <= end
      BY <1>7, <1>8
    <2>3. Number(base) = f.type
      BY <1>1, <1>3, <2>1, <2>2, ReadNumber DEF end
    <2>4. Number(base + Width) = n
      BY <1>1, <1>3, <2>1, <2>2, ReadNumber DEF end
    <2> QED
      BY <2>3, <2>4 DEF Announced
  <1>9. ASSUME base + Size(k) <= end
        PROVE  Received(base + Size(k)) = f
    <2> DEFINE from == base + 2 * Width
    <2>1. /\ from \in Nat /\ from + n <= end /\ base + Size(k) = from + n
          /\ base + 2 * Width <= end
      BY <1>4, <1>7, <1>9
    <2>2. ASSUME NEW j \in 1..n
          PROVE  wire[from + j] = f.payload[j]
      <3>1. /\ 2 * Width + j \in 1..(2 * Width + n) /\ base + (2 * Width + j) = from + j
            /\ base + (2 * Width + j) <= end
        BY <1>4, <1>7, <1>9
      <3> QED
        BY <1>2, <1>4, <1>6, <3>1
    <2> DEFINE p == SubSeq(wire, from + 1, from + n)
    <2>3. Received(base + Size(k)) = [type |-> Number(base), payload |-> p]
      BY <2>1 DEF Received
    <2> HIDE DEF from
    <2>4. p \in Seq(Byte) /\ Len(p) = n /\ \A j \in 1..n : p[j] = wire[from + j]
      BY <1>1, <1>7, <2>1, Slice DEF end
    <2>5. f.payload \in Seq(Byte) /\ Len(f.payload) = n
      BY <1>3 DEF n, f
    <2> HIDE DEF p
    <2>6. p = f.payload
      BY <2>2, <2>4, <2>5, SeqEqual
    <2> QED
      BY <1>3, <1>8, <2>1, <2>3, <2>6
  <1> QED
    BY <1>4, <1>8, <1>9 DEF f, n, end

-----------------------------------------------------------------------------
(* What is known in every state, without quantifiers over bytes.           *)
LEMMA Bounds ==
  ASSUME PayloadsFit, FramingInv
  PROVE  /\ messages \in Conversations /\ Len(messages) \in Nat
         /\ frame \in 1..(Len(messages) + 1) /\ put \in Nat /\ taken \in Nat /\ base \in Nat
         /\ wire \in Seq(Byte) /\ Len(wire) \in Nat
         /\ delivered \in Seq([type : 0..(Words - 1), payload : Seq(Byte)])
         /\ Len(delivered) \in Nat /\ Len(delivered) < frame
         /\ frame \in Nat /\ starts \in Seq(Nat) /\ Len(starts) = frame
         /\ \A i \in 1..Len(messages) : Size(i) \in Nat /\ Size(i) >= 2 * Width /\ Size(i) > 0
         /\ \A i \in 1..frame : starts[i] \in Nat
  <1>1. messages \in Conversations /\ Len(messages) \in Nat
    BY FramingAssumption, LenProperties DEF FramingInv, TypeOK
  <1>2. ASSUME NEW i \in 1..Len(messages)
        PROVE  Size(i) \in Nat /\ Size(i) >= 2 * Width /\ Size(i) > 0
    <2>1. Size(i) = 2 * Width + Len(messages[i].payload)
      BY <1>1, EncodingBytes DEF Size
    <2>2. Len(messages[i].payload) \in 0..(Words - 1)
      BY <1>1, FrameTyped
    <2> DEFINE p == Len(messages[i].payload)
    <2>3. p \in Nat /\ Size(i) = 2 * Width + p
      BY <2>1, <2>2, Constants
    <2> HIDE DEF p
    <2> QED
      BY <2>3, Constants
  <1>3. /\ wire \in Seq(Byte) /\ frame \in 1..(Len(messages) + 1) /\ put \in Nat
        /\ taken \in Nat /\ base \in Nat
        /\ delivered \in Seq([type : 0..(Words - 1), payload : Seq(Byte)])
        /\ Len(delivered) < frame /\ starts \in Seq(Nat) /\ Len(starts) = frame
    BY DEF FramingInv, TypeOK, ReaderOK
  <1>4. Len(wire) \in Nat /\ Len(delivered) \in Nat
    BY <1>3, LenProperties
  <1>5. frame \in Nat
    BY <1>1, <1>3
  <1>6. \A i \in 1..frame : starts[i] \in Nat
    BY <1>3, <1>5, ElementOfSeq
  <1> QED
    BY <1>1, <1>2, <1>3, <1>4, <1>5, <1>6

(* A write puts the next n bytes of the current frame on the wire.         *)
LEMMA WriteStep ==
  ASSUME PayloadsFit, FramingInv, Write
  PROVE  /\ FramingInv'
         /\ delivered' = delivered /\ messages' = messages
         /\ frame' = frame \/ (frame' = frame + 1 /\ frame <= Len(messages))
  <1> DEFINE c == Encoding(messages[frame])
             M == Len(messages)
             D == Len(delivered)
  <1>1. PICK n \in 1..(BufferEnd(put, Len(c)) - put) :
          /\ wire' = wire \o SubSeq(c, put + 1, put + n)
          /\ put + n < Len(c) => put' = put + n /\ frame' = frame /\ starts' = starts
          /\ ~(put + n < Len(c)) =>
                put' = 0 /\ frame' = frame + 1 /\ starts' = Append(starts, Len(wire'))
    BY DEF Write, Current, Written
  <1>2. /\ messages' = messages /\ wpc' = wpc /\ taken' = taken /\ base' = base
        /\ delivered' = delivered /\ rpc' = rpc /\ lost' = lost /\ frame <= M
    BY DEF Write, reader
  <1>b. /\ messages \in Conversations /\ M \in Nat /\ frame \in 1..(M + 1) /\ frame \in Nat
        /\ put \in Nat /\ wire \in Seq(Byte) /\ Len(wire) \in Nat /\ taken \in Nat /\ base \in Nat
        /\ D \in Nat /\ D < frame /\ starts \in Seq(Nat) /\ Len(starts) = frame
    BY Bounds
  <1>s. \A i \in 1..M : Size(i) \in Nat /\ Size(i) >= 2 * Width /\ Size(i) > 0
    BY Bounds
  <1>r. \A i \in 1..frame : starts[i] \in Nat
    BY Bounds
  <1>i. M \in Nat /\ frame \in Nat /\ put \in Nat /\ taken \in Nat /\ base \in Nat /\ D \in Nat
    BY <1>b
  <1>f. frame \in 1..M
    BY <1>2, <1>b
  <1>3. c \in Seq(Byte) /\ Len(c) = Size(frame) /\ Len(c) \in Nat /\ Len(c) >= 2 * Width
    <2>1. c \in Seq(Byte)
      BY <1>b, <1>f, EncodingBytes
    <2> QED
      BY <2>1, <1>f, <1>s DEF Size
  <1>4. put < Len(c) /\ starts[frame] + put = Len(wire)
    BY <1>2, <1>3 DEF FramingInv, WireOK
  <1>w. /\ \A i \in 1..frame : starts[i] <= Len(wire)
        /\ \A i \in 1..(frame - 1) : starts[i + 1] = starts[i] + Size(i)
        /\ \A i \in 1..M : i <= frame => \A j \in 1..Size(i) :
             starts[i] + j <= Len(wire) => wire[starts[i] + j] = Encoding(messages[i])[j]
    BY DEF FramingInv, WireOK
  <1>d. /\ base = starts[D + 1] /\ base <= taken /\ taken <= Len(wire)
        /\ taken - base < (IF D < M THEN Size(D + 1) ELSE 1)
        /\ \A i \in 1..D : delivered[i] = messages[i]
    BY DEF FramingInv, ReaderOK
  <1> HIDE DEF c, M, D
  <1>5. n \in Nat /\ n > 0 /\ put + n <= Len(c)
    <2>1. n \in Nat /\ n > 0 /\ n <= BufferEnd(put, Len(c)) - put
      BY <1>1, <1>3, <1>b, Constants DEF BufferEnd
    <2>2. BufferEnd(put, Len(c)) <= Len(c) /\ BufferEnd(put, Len(c)) \in Nat
      BY <1>3, <1>b, Constants DEF BufferEnd
    <2> HIDE DEF BufferEnd
    <2> QED
      BY <2>1, <2>2, <1>3, <1>b
  <1>6. /\ wire' \in Seq(Byte) /\ Len(wire') = Len(wire) + n /\ Len(wire') \in Nat
        /\ \A j \in 1..Len(wire) : wire'[j] = wire[j]
        /\ \A j \in 1..n : wire'[Len(wire) + j] = c[put + j]
    <2> DEFINE s == SubSeq(c, put + 1, put + n)
    <2>1. s \in Seq(Byte) /\ Len(s) = n /\ \A j \in 1..n : s[j] = c[put + j]
      BY <1>3, <1>b, <1>5, Slice
    <2> HIDE DEF s
    <2>2. wire' = wire \o s
      BY <1>1 DEF s
    <2> DEFINE k == Len(wire)
    <2>4. k \in Nat /\ Len(wire) = k
      BY <1>b
    <2> HIDE DEF k
    <2>3. /\ wire \o s \in Seq(Byte) /\ Len(wire \o s) = k + n
          /\ \A j \in 1..k : (wire \o s)[j] = wire[j]
          /\ \A j \in 1..n : (wire \o s)[k + j] = s[j]
      <3>1. wire \in Seq(Byte) /\ n \in Nat
        BY <1>5, <1>b
      <3>2. s \in Seq(Byte) /\ Len(s) = n
        BY <2>1
      <3> QED
        BY <2>4, <3>1, <3>2, Concatenation
    <2>5. k + n \in Nat
      BY <1>5, <2>4
    <2> QED
      BY <2>1, <2>2, <2>3, <2>4, <2>5
  <1> DEFINE L == Len(wire)
             N == Len(wire')
  <1>7. L \in Nat /\ N \in Nat /\ N = L + n /\ L <= N
    BY <1>b, <1>5, <1>6
  <1>8. ASSUME NEW i \in 1..frame, NEW j \in 1..Size(i), starts[i] + j <= N
        PROVE  wire'[starts[i] + j] = Encoding(messages[i])[j]
    <2>i. i \in 1..M /\ i <= frame /\ Size(i) \in Nat /\ starts[i] \in Nat /\ j \in Nat /\ j > 0
      <3>1. i \in 1..M
        BY <1>b, <1>f
      <3>2. Size(i) \in Nat /\ starts[i] \in Nat
        BY <3>1, <1>s, <1>r
      <3> QED
        BY <3>1, <3>2, <1>b
    <2>1. CASE starts[i] + j <= L
      <3>1. wire[starts[i] + j] = Encoding(messages[i])[j]
        BY <1>w, <2>i, <2>1
      <3>2. starts[i] + j \in 1..L
        BY <1>7, <2>i, <2>1
      <3> QED
        BY <1>6, <3>1, <3>2
    <2>2. CASE starts[i] + j > L
      <3>1. i = frame
        <4>1. ASSUME i # frame PROVE FALSE
          <5>1. i \in 1..(frame - 1) /\ i + 1 \in 1..frame
            BY <1>b, <4>1
          <5>2. starts[i + 1] = starts[i] + Size(i) /\ starts[i + 1] <= L
            BY <1>w, <5>1
          <5>3. j <= Size(i)
            BY <2>i
          <5> HIDE DEF L
          <5> QED
            BY <1>7, <2>2, <2>i, <5>2, <5>3
        <4> QED
          BY <4>1
      <3>2. j - put \in 1..n /\ starts[i] + j = L + (j - put) /\ put + (j - put) = j
        <4>1. starts[i] + put = L
          BY <1>4, <3>1
        <4>2. /\ starts[i] \in Nat /\ j \in Nat /\ put \in Nat /\ n \in Nat /\ L \in Nat /\ N = L + n
              /\ starts[i] + j <= N /\ starts[i] + j > L
          BY <1>7, <1>i, <1>5, <1>8, <2>2, <2>i
        <4> HIDE DEF L, N
        <4> QED
          BY <4>1, <4>2
      <3>3. wire'[L + (j - put)] = c[put + (j - put)]
        BY <1>6, <3>2
      <3> QED
        BY <3>1, <3>2, <3>3 DEF c
    <2> QED
      BY <1>7, <2>i, <2>1, <2>2
  <1>9. CASE put + n < Len(c)
    <2>1. put' = put + n /\ frame' = frame /\ starts' = starts
      BY <1>1, <1>9
    <2>2. TypeOK'
      BY <1>2, <1>5, <1>6, <2>1 DEF FramingInv, TypeOK
    <2>3. WireOK'
      <3>1. /\ starts[frame] + (put + n) = N /\ put + n < Size(frame)
            /\ \A i \in 1..frame : starts[i] <= N
        <4>1. starts[frame] \in Nat
          BY <1>r, <1>b
        <4>2. ASSUME NEW i \in 1..frame PROVE starts[i] <= N
          <5>1. starts[i] \in Nat /\ starts[i] <= L
            BY <1>r, <1>w
          <5> HIDE DEF L, N
          <5> QED
            BY <5>1, <1>7
        <4>3. put + n < Size(frame)
          BY <1>3, <1>9
        <4>4. starts[frame] + put = L /\ put \in Nat /\ n \in Nat
          BY <1>4, <1>5, <1>i DEF L
        <4> HIDE DEF L, N
        <4>5. starts[frame] + (put + n) = N
          BY <1>7, <4>1, <4>4
        <4> QED
          BY <4>2, <4>3, <4>5
      <3> QED
        BY <1>2, <1>8, <1>f, <1>w, <1>b, <2>1, <3>1 DEF WireOK, Size, M
    <2>4. ReaderOK'
      <3>1. taken <= N
        BY <1>7, <1>b, <1>d
      <3> QED
        BY <1>2, <1>b, <1>d, <2>1, <3>1 DEF ReaderOK, Size, D, M
    <2> QED
      BY <1>2, <2>1, <2>2, <2>3, <2>4 DEF FramingInv
  <1>10. CASE put + n = Len(c)
    <2>1. put' = 0 /\ frame' = frame + 1 /\ starts' = Append(starts, N)
      <3>1. ~(put + n < Len(c))
        BY <1>3, <1>10
      <3> QED
        BY <1>1, <3>1
    <2>2. /\ starts' \in Seq(Nat) /\ Len(starts') = frame + 1
          /\ \A i \in 1..frame : starts'[i] = starts[i]
          /\ starts'[frame + 1] = N
      <3> HIDE DEF N
      <3> QED
        BY <1>7, <1>b, <2>1, AppendProperties
    <2>3. TypeOK'
      <3>1. frame + 1 \in 1..(M + 1)
        BY <1>b, <1>f
      <3> QED
        BY <1>2, <1>6, <2>1, <2>2, <3>1 DEF FramingInv, TypeOK, M
    <2>4. WireOK'
      <3>1. starts[frame] + Size(frame) = N
        <4>1. starts[frame] \in Nat
          BY <1>r, <1>b
        <4>2. starts[frame] + put = L /\ put \in Nat /\ n \in Nat /\ Size(frame) = put + n
          BY <1>3, <1>4, <1>5, <1>10, <1>i DEF L
        <4> HIDE DEF N, L
        <4> QED
          BY <1>7, <4>1, <4>2
      <3>2. ASSUME NEW i \in 1..frame
            PROVE  starts'[i + 1] = starts'[i] + Size(i)
        <4>1. CASE i = frame
          BY <2>2, <3>1, <4>1, <1>b
        <4>2. CASE i # frame
          <5>1. i \in 1..(frame - 1) /\ i + 1 \in 1..frame
            BY <1>b, <4>2
          <5> QED
            BY <1>w, <2>2, <5>1
        <4> QED
          BY <4>1, <4>2
      <3>3. ASSUME NEW i \in 1..(frame + 1)
            PROVE  starts'[i] <= N
        <4> HIDE DEF N, L
        <4>1. CASE i = frame + 1
          BY <2>2, <4>1, <1>7
        <4>2. CASE i # frame + 1
          <5>1. i \in 1..frame
            BY <1>b, <4>2
          <5>2. starts'[i] = starts[i] /\ starts[i] \in Nat /\ starts[i] <= L
            BY <1>w, <1>r, <2>2, <5>1 DEF L
          <5> QED
            BY <5>2, <1>7
        <4> QED
          BY <4>1, <4>2
      <3>4. ASSUME NEW i \in 1..M, i <= frame + 1, NEW j \in 1..Size(i), starts'[i] + j <= N
            PROVE  wire'[starts'[i] + j] = Encoding(messages[i])[j]
        <4>1. CASE i \in 1..frame
          BY <1>8, <2>2, <3>4, <4>1
        <4>2. CASE i \notin 1..frame
          <5>1. i = frame + 1 /\ Size(i) \in Nat
            BY <1>b, <1>s, <3>4, <4>2
          <5>2. j > 0 /\ j \in Nat /\ N + j <= N
            BY <2>2, <3>4, <5>1
          <5> HIDE DEF N
          <5> QED
            BY <5>2, <1>7
        <4> QED
          BY <4>1, <4>2
      <3>5. frame + 1 <= M => 0 < Size(frame + 1)
        BY <1>b, <1>s
      <3>6. starts'[frame + 1] + 0 = N
        BY <1>7, <2>2
      <3>7. (frame + 1) - 1 = frame
        BY <1>b
      <3> QED
        BY <1>2, <2>1, <3>2, <3>3, <3>4, <3>5, <3>6, <3>7 DEF WireOK, Size, M
    <2>5. ReaderOK'
      <3>1. taken <= N /\ D < frame + 1 /\ D + 1 \in 1..frame
        BY <1>7, <1>b, <1>d
      <3>2. starts'[D + 1] = starts[D + 1]
        BY <2>2, <3>1
      <3> QED
        BY <1>2, <1>b, <1>d, <2>1, <3>1, <3>2 DEF ReaderOK, Size, D, M
    <2> QED
      BY <1>2, <2>1, <2>3, <2>4, <2>5, <1>f DEF FramingInv, M
  <1> QED
    BY <1>3, <1>b, <1>5, <1>9, <1>10

(* A read takes the next n bytes of the frame after those delivered, and   *)
(* when they are its last ones the frame is one of those written.          *)
LEMMA ReadStep ==
  ASSUME PayloadsFit, FramingInv, Read
  PROVE  /\ FramingInv'
         /\ messages' = messages /\ frame' = frame
         /\ \/ delivered' = delivered
            \/ /\ Len(delivered) < frame - 1
               /\ delivered' = Append(delivered, messages[Len(delivered) + 1])
  <1> DEFINE M == Len(messages)
             D == Len(delivered)
             L == Len(wire)
             k == D + 1
             got == taken - base
  <1>1. PICK n \in 1..(BufferEnd(got, FrameEnd) - got) :
          /\ taken + n <= L /\ taken' = taken + n
          /\ Complete(got, n) => /\ delivered' = Append(delivered, Received(taken + n))
                                 /\ base' = taken + n
          /\ ~Complete(got, n) => delivered' = delivered /\ base' = base
    BY DEF Read
  <1>2. /\ messages' = messages /\ wire' = wire /\ frame' = frame /\ put' = put
        /\ starts' = starts /\ wpc' = wpc /\ rpc' = rpc /\ lost' = lost
    BY DEF Read, writer
  <1>i. /\ M \in Nat /\ frame \in Nat /\ frame <= M + 1 /\ put \in Nat /\ taken \in Nat
        /\ base \in Nat /\ D \in Nat /\ D < frame /\ L \in Nat /\ k \in Nat /\ k <= frame
    BY Bounds
  <1>b. /\ messages \in Conversations
        /\ delivered \in Seq([type : 0..(Words - 1), payload : Seq(Byte)])
        /\ \A i \in 1..frame : starts[i] \in Nat
    BY Bounds
  <1>d. /\ base = starts[k] /\ base <= taken /\ taken <= L
        /\ got < (IF D < M THEN Size(k) ELSE 1)
        /\ \A i \in 1..D : delivered[i] = messages[i]
    BY DEF FramingInv, ReaderOK
  <1>w. /\ starts[frame] + put = L
        /\ frame <= M => put < Size(frame)
        /\ frame > M => put = 0
        /\ \A i \in 1..(frame - 1) : starts[i + 1] = starts[i] + Size(i)
    BY DEF FramingInv, WireOK
  <1>g. got \in Nat
    BY <1>i, <1>d
  <1>3. D < M
    <2> SUFFICES ASSUME ~(D < M) PROVE FALSE
      OBVIOUS
    <2>1. D = M /\ frame = k /\ frame > M /\ got = 0
      <3> HIDE DEF M, D
      <3> QED
        BY <1>i, <1>d, <1>g
    <2>2. BufferEnd(got, FrameEnd) = Width
      BY <2>1, Constants DEF BufferEnd
    <2>3. n \in Nat /\ n > 0
      BY <1>1, <2>1, <2>2, Constants
    <2>4. base = L
      BY <1>w, <1>d, <1>i, <2>1
    <2> HIDE DEF L, M, D
    <2> QED
      BY <1>1, <1>d, <1>i, <2>3, <2>4
  <1>4. k \in 1..M /\ k <= M
    BY <1>3, <1>i
  <1> DEFINE p == Len(messages[k].payload)
  <1>5. /\ base + 2 * Width <= L => FrameEnd = Size(k)
        /\ base + Size(k) <= L => Received(base + Size(k)) = messages[k]
        /\ Size(k) = 2 * Width + p
    BY <1>i, <1>4, ReadingFrame DEF FrameEnd
  <1>6. /\ messages[k] \in [type : 0..(Words - 1), payload : Seq(Byte)]
        /\ p \in Nat /\ Size(k) \in Nat /\ Width \in Nat /\ Width > 0
    <2>1. p \in 0..(Words - 1) /\ messages[k] \in [type : 0..(Words - 1), payload : Seq(Byte)]
      BY <1>b, <1>4, FrameTyped
    <2>2. Size(k) \in Nat
      BY <1>4, Bounds
    <2> QED
      BY <2>1, <2>2, Constants
  <1>e. got < Size(k) /\ taken = base + got
    BY <1>3, <1>d, <1>i
  <1> HIDE DEF M, D, L, p, got
  <1>7. n \in Nat /\ n > 0 /\ got + n <= Size(k)
    <2>1. CASE got < 2 * Width
      <3>1. BufferEnd(got, FrameEnd) \in {Width, 2 * Width}
        BY <2>1 DEF BufferEnd
      <3>2. n \in 1..(Width - got) \/ n \in 1..(2 * Width - got)
        BY <1>1, <3>1
      <3> QED
        BY <1>5, <1>6, <1>g, <3>2
    <2>2. CASE got >= 2 * Width
      <3>1. base + 2 * Width <= L /\ ~(got < Width) /\ ~(got < 2 * Width)
        BY <1>i, <1>d, <1>e, <1>g, <1>6, <2>2
      <3>2. BufferEnd(got, FrameEnd) = Size(k)
        BY <1>5, <3>1 DEF BufferEnd
      <3>3. n \in 1..(Size(k) - got)
        BY <1>1, <3>2
      <3> QED
        BY <1>6, <1>g, <3>3
    <2> QED
      BY <1>6, <1>g, <2>1, <2>2
  <1>8. got + n >= 2 * Width => base + 2 * Width <= L /\ FrameEnd = Size(k)
    BY <1>1, <1>5, <1>6, <1>7, <1>e, <1>g, <1>i
  <1>9. Complete(got, n) <=> got + n = Size(k)
    <2>1. Size(k) >= 2 * Width
      BY <1>5, <1>6
    <2> QED
      BY <1>8, <2>1 DEF Complete
  <1>t. taken' \in Nat /\ taken' <= L /\ taken' = base + (got + n)
    BY <1>1, <1>7, <1>e, <1>g, <1>i
  <1>W. WireOK'
    BY <1>2 DEF FramingInv, WireOK, Size
  <1>10. CASE got + n = Size(k)
    <2>1. /\ delivered' = Append(delivered, Received(base + Size(k)))
          /\ base' = base + Size(k) /\ taken' = base'
      BY <1>1, <1>9, <1>10, <1>t
    <2>2. base + Size(k) <= L
      BY <1>10, <1>t
    <2>3. delivered' = Append(delivered, messages[k])
      BY <1>5, <2>1, <2>2
    <2>4. k < frame
      <3>1. ASSUME k = frame PROVE FALSE
        <4>1. base + put = L /\ put < Size(k)
          BY <1>d, <1>w, <1>4, <3>1
        <4> QED
          BY <1>6, <1>i, <2>2, <4>1
      <3> QED
        BY <1>i, <3>1
    <2>5. base' = starts[k + 1]
      <3>1. k \in 1..(frame - 1)
        BY <1>4, <1>i, <2>4
      <3> QED
        BY <1>d, <1>w, <2>1, <3>1
    <2>6. /\ delivered' \in Seq([type : 0..(Words - 1), payload : Seq(Byte)])
          /\ Len(delivered') = k /\ delivered'[k] = messages[k]
          /\ \A i \in 1..D : delivered'[i] = delivered[i]
      BY <1>b, <1>6, <2>3, AppendProperties DEF D
    <2>7. \A i \in 1..k : delivered'[i] = messages[i]
      <3> TAKE i \in 1..k
      <3>1. i = k \/ i \in 1..D
        BY <1>i
      <3> QED
        BY <1>d, <2>6, <3>1
    <2>8. TypeOK'
      BY <1>2, <1>t, <2>1, <2>6 DEF FramingInv, TypeOK
    <2>9. ReaderOK'
      <3>1. /\ k < frame' /\ base' = starts'[k + 1] /\ base' <= taken' /\ taken' <= Len(wire')
            /\ taken' - base' = 0
        BY <1>2, <1>t, <1>i, <2>1, <2>4, <2>5 DEF L
      <3>2. k < M => 0 < Size(k + 1)
        <4>1. k < M => k + 1 \in 1..M
          BY <1>i
        <4> QED
          BY <4>1, Bounds DEF M
      <3> QED
        BY <1>2, <2>6, <2>7, <3>1, <3>2 DEF ReaderOK, Size, M
    <2>10. D < frame - 1
      BY <1>i, <2>4
    <2> QED
      BY <1>2, <1>W, <2>3, <2>8, <2>9, <2>10 DEF FramingInv, D
  <1>11. CASE got + n # Size(k)
    <2>1. delivered' = delivered /\ base' = base
      BY <1>1, <1>9, <1>11
    <2>2. TypeOK'
      BY <1>2, <1>t, <2>1 DEF FramingInv, TypeOK
    <2>3. ReaderOK'
      <3>1. base <= taken' /\ taken' <= L /\ taken' - base < Size(k)
        BY <1>6, <1>7, <1>11, <1>t, <1>g, <1>i
      <3> QED
        BY <1>2, <1>3, <1>d, <1>i, <2>1, <3>1 DEF ReaderOK, Size, M, D, L
    <2> QED
      BY <1>2, <1>W, <2>1, <2>2, <2>3 DEF FramingInv
  <1> QED
    BY <1>10, <1>11

(* The steps that move no byte.                                            *)
LEMMA QuietStep ==
  ASSUME FramingInv,
         WriteFails \/ Close \/ Crash \/ ReadFails \/ StopReading \/ Reset \/ UNCHANGED vars
  PROVE  FramingInv' /\ UNCHANGED <<messages, frame, delivered>>
  <1>1. UNCHANGED <<messages, wire, frame, put, starts, taken, base, delivered>>
    BY DEF WriteFails, Close, Crash, ReadFails, StopReading, Reset, vars, writer, reader
  <1>2. wpc' \in {"writing", "closed", "failed"}
    BY DEF WriteFails, Close, Crash, ReadFails, StopReading, Reset, vars, writer, reader,
           FramingInv, TypeOK
  <1>3. rpc' \in {"reading", "failed", "stopped"} /\ lost' \in BOOLEAN
    BY DEF WriteFails, Close, Crash, ReadFails, StopReading, Reset, vars, writer, reader,
           FramingInv, TypeOK
  <1>4. TypeOK'
    BY <1>1, <1>2, <1>3 DEF FramingInv, TypeOK
  <1>5. WireOK' /\ ReaderOK'
    BY <1>1 DEF FramingInv, WireOK, ReaderOK, Size
  <1> QED
    BY <1>1, <1>4, <1>5 DEF FramingInv

LEMMA Step ==
  ASSUME PayloadsFit, FramingInv, [Next]_vars
  PROVE  FramingInv' /\ [Channel!Next]_(Channel!vars)
  <1>1. CASE Write
    <2>1. /\ FramingInv' /\ delivered' = delivered /\ messages' = messages
          /\ frame' = frame \/ (frame' = frame + 1 /\ frame <= Len(messages))
      BY <1>1, WriteStep
    <2>2. frame \in Nat /\ Len(messages) \in Nat
      BY Bounds
    <2>3. CASE frame' = frame
      BY <2>1, <2>3 DEF Channel!vars
    <2>4. CASE frame' = frame + 1 /\ frame <= Len(messages)
      <3>1. frame - 1 < Len(messages) /\ frame' - 1 = (frame - 1) + 1
        BY <2>2, <2>4
      <3> QED
        BY <2>1, <3>1 DEF Channel!Next, Channel!Send
    <2> QED
      BY <2>1, <2>3, <2>4
  <1>2. CASE Read
    BY <1>2, ReadStep DEF Channel!Next, Channel!Deliver, Channel!vars
  <1>3. CASE WriteFails \/ Close \/ Crash \/ ReadFails \/ StopReading \/ Reset \/ UNCHANGED vars
    BY <1>3, QuietStep DEF Channel!vars
  <1> QED
    BY <1>1, <1>2, <1>3 DEF Next

LEMMA Initially ==
  ASSUME PayloadsFit, Init
  PROVE  FramingInv /\ Channel!Init
  <1>1. /\ messages \in Conversations /\ wire = <<>> /\ frame = 1 /\ put = 0 /\ starts = <<0>>
        /\ wpc = "writing" /\ taken = 0 /\ base = 0 /\ delivered = <<>> /\ rpc = "reading"
        /\ lost = FALSE
    BY DEF Init
  <1>2. Len(messages) \in Nat
    BY <1>1, FramingAssumption, LenProperties
  <1>3. ASSUME NEW i \in 1..Len(messages) PROVE Size(i) \in Nat /\ Size(i) > 0
    <2> DEFINE p == Len(messages[i].payload)
    <2>1. Size(i) = 2 * Width + p /\ p \in 0..(Words - 1)
      BY <1>1, EncodingBytes, FrameTyped DEF Size
    <2> HIDE DEF p
    <2>2. p \in Nat
      BY <2>1, Constants
    <2> QED
      BY <2>1, <2>2, Constants
  <1>4. TypeOK
    <2>1. /\ wire \in Seq(Byte) /\ starts \in Seq(Nat) /\ Len(starts) = 1
          /\ delivered \in Seq([type : 0..(Words - 1), payload : Seq(Byte)])
      BY <1>1
    <2>2. frame \in 1..(Len(messages) + 1)
      BY <1>1, <1>2
    <2> QED
      BY <1>1, <2>1, <2>2 DEF TypeOK
  <1>5. WireOK
    <2>1. 1 <= Len(messages) => 0 < Size(1)
      BY <1>2, <1>3
    <2>2. Len(wire) = 0 /\ starts[1] = 0
      BY <1>1
    <2>3. ASSUME NEW i \in 1..Len(messages), i <= 1, NEW j \in 1..Size(i), starts[i] + j <= 0
          PROVE  FALSE
      BY <1>1, <1>3, <2>3
    <2> QED
      BY <1>1, <2>1, <2>2, <2>3 DEF WireOK
  <1>6. ReaderOK
    <2>1. 0 < Len(messages) => 0 < Size(1)
      BY <1>2, <1>3
    <2> QED
      BY <1>1, <2>1 DEF ReaderOK
  <1> QED
    BY <1>1, <1>4, <1>5, <1>6 DEF FramingInv, Channel!Init

-----------------------------------------------------------------------------
(* The bytes written are the frames, and the reader is in the one after    *)
(* those it delivered (sendFrame and recvFrame, transport.cpp:65-98).      *)
THEOREM Framed ==
  ASSUME PayloadsFit
  PROVE  Spec => []FramingInv
  <1>1. Init => FramingInv
    BY Initially
  <1>2. FramingInv /\ [Next]_vars => FramingInv'
    BY Step
  <1> QED
    BY <1>1, <1>2, PTL DEF Spec

(* A connection carries frames, whole, in order and unchanged, whatever    *)
(* the reads and writes return (transport.cpp:25-98).                      *)
THEOREM FramingRefines ==
  ASSUME PayloadsFit
  PROVE  Spec => ImplementsChannel
  <1>1. Init => Channel!Init
    BY Initially
  <1>2. FramingInv /\ [Next]_vars => [Channel!Next]_(Channel!vars)
    BY Step
  <1>3. Spec => []FramingInv
    BY Framed
  <1> QED
    BY <1>1, <1>2, <1>3, PTL DEF Spec, ImplementsChannel, Channel!Spec
=============================================================================
