-------------------------- MODULE FileWriterProofs --------------------------
(***************************************************************************)
(* The buffered writer puts every byte where it belongs, and what was      *)
(* flushed is read back, for buffers of every size, appends of every       *)
(* length, and any number of bytes and short writes; and no byte comes     *)
(* before an earlier one, whichever writes are short.                      *)
(***************************************************************************)
EXTENDS FileWriter, TLAPS

USE FileWriterAssumption

\* What byte number i may be
May(i) == IF shared THEN {0, i} ELSE {i}

\* The buffer goes on where the file ends.
Placed ==
    short = 0 =>
        /\ Len(file) + pos = total
        /\ \A i \in 1 .. Len(file) : file[i] \in May(i)
        /\ \A i \in 1 .. pos : buf[i] \in May(Len(file) + i)

\* What was flushed is in the file.
Reached == short = 0 => flushed <= Len(file)

FileInv == TypeOK /\ Placed /\ Reached

Calls == {"none", "append", "flush", "sync", "close", "destroy"}

-----------------------------------------------------------------------------
(* Helpers                                                                  *)

LEMMA Concat ==
    ASSUME NEW S, NEW a \in Seq(S), NEW b \in Seq(S)
    PROVE  /\ a \o b \in Seq(S) /\ Len(a \o b) = Len(a) + Len(b)
           /\ \A i \in 1 .. Len(a) : (a \o b)[i] = a[i]
           /\ \A i \in 1 .. Len(b) : (a \o b)[Len(a) + i] = b[i]
  OBVIOUS

\* Bytes in their places, and behind them more.
LEMMA Joined ==
    ASSUME NEW S, NEW a \in Seq(S), NEW b \in Seq(S),
           \A i \in 1 .. Len(a) : a[i] \in May(i),
           \A i \in 1 .. Len(b) : b[i] \in May(Len(a) + i)
    PROVE  \A i \in 1 .. Len(a \o b) : (a \o b)[i] \in May(i)
<1> SUFFICES ASSUME NEW i \in 1 .. Len(a \o b) PROVE (a \o b)[i] \in May(i)
  OBVIOUS
<1>1. Len(a) \in Nat /\ Len(b) \in Nat /\ Len(a \o b) = Len(a) + Len(b)
  BY Concat
<1>2. CASE i \in 1 .. Len(a)
  BY <1>2, Concat
<1>3. CASE i \notin 1 .. Len(a)
  <2> DEFINE j == i - Len(a)
  <2>1. j \in 1 .. Len(b) /\ i = Len(a) + j
    BY <1>1, <1>3
  <2>2. (a \o b)[i] = b[j]
    BY <2>1, Concat
  <2> QED
    BY <2>1, <2>2
<1> QED
  BY <1>2, <1>3

LEMMA ReturnsType ==
    ASSUME NEW c \in Calls, NEW ok \in BOOLEAN, Returns(c, ok)
    PROVE  did' \in [call : Calls, ok : BOOLEAN]
  BY DEF Returns

\* While no write has come up short, all of them were complete.
LEMMA WriteEffect ==
    ASSUME TypeOK, NEW s \in Seq(Bytes), NEW more \in Seq(Bytes), WrittenThen(s, more)
    PROVE  /\ file' \in Seq(Bytes) /\ short' \in 0 .. MaxShort
           /\ short' = 0 => short = 0 /\ file' = file \o s \o more
<1>1. CASE file' = file \o s \o more /\ short' = short
  BY <1>1 DEF TypeOK
<1>2. ASSUME short < MaxShort, short' = short + 1,
             NEW k \in 0 .. Len(s) - 1, file' = file \o SubSeq(s, 1, k) \o more
      PROVE  /\ file' \in Seq(Bytes) /\ short' \in 0 .. MaxShort /\ short' # 0
  <2>1. SubSeq(s, 1, k) \in Seq(Bytes)
    OBVIOUS
  <2> QED
    BY <1>2, <2>1 DEF TypeOK
<1> QED
  BY <1>1, <1>2 DEF WrittenThen

LEMMA FilledType ==
    ASSUME TypeOK, NEW n \in Nat, total + n <= MaxBytes, pos + n >= KBufferSize
    PROVE  /\ Filled \in Seq(Bytes) /\ Len(Filled) = KBufferSize
           /\ Filled \in [Index -> Bytes]
           /\ \A i \in Index : Filled[i] = IF i <= pos THEN buf[i] ELSE total + i - pos
<1>1. Filled \in [Index -> Bytes]
  BY DEF Filled, Index, Bytes, TypeOK
<1> QED
  BY <1>1 DEF Filled, Index

LEMMA DataType ==
    ASSUME TypeOK, NEW n \in Nat, total + n <= MaxBytes, NEW k \in 1 .. n
    PROVE  /\ Data(k, n) \in Seq(Bytes) /\ Len(Data(k, n)) = n - k + 1
           /\ \A i \in 1 .. n - k + 1 : Data(k, n)[i] = total + k - 1 + i
<1>1. Data(k, n) \in [1 .. n - k + 1 -> Bytes]
  BY DEF Data, Bytes, TypeOK
<1> QED
  BY <1>1 DEF Data

\* A flush leaves everything that was appended in the file.
LEMMA FlushEffect ==
    ASSUME FileInv, FlushBuffer
    PROVE  /\ file' \in Seq(Bytes) /\ short' \in 0 .. MaxShort
           /\ short' = 0 => /\ Len(file') = total
                            /\ \A i \in 1 .. total : file'[i] \in May(i)
<1> USE DEF FileInv
<1>1. CASE pos > 0
  <2> DEFINE s == SubSeq(buf, 1, pos)
  <2>1. /\ s \in Seq(Bytes) /\ Len(s) = pos
        /\ \A i \in 1 .. pos : s[i] = buf[i]
    <3>1. buf \in Seq(Bytes) /\ Len(buf) = KBufferSize
      BY DEF TypeOK, Index
    <3> QED
      BY <3>1, <1>1 DEF TypeOK
  <2>2. WrittenThen(s, <<>>)
    BY <1>1 DEF FlushBuffer, Written
  <2>3. <<>> \in Seq(Bytes)
    OBVIOUS
  <2>4. /\ file' \in Seq(Bytes) /\ short' \in 0 .. MaxShort
        /\ short' = 0 => short = 0 /\ file' = file \o s \o <<>>
    BY <2>1, <2>2, <2>3, WriteEffect
  <2>5. ASSUME short' = 0
        PROVE  Len(file') = total /\ \A i \in 1 .. total : file'[i] \in May(i)
    <3> HIDE DEF s
    <3>1. /\ file \in Seq(Bytes) /\ pos \in Nat /\ total \in Nat
          /\ short = 0 /\ file' = file \o s
      BY <2>1, <2>4, <2>5 DEF TypeOK, Bytes
    <3>2. /\ Len(file) + pos = total
          /\ \A i \in 1 .. Len(file) : file[i] \in May(i)
          /\ \A i \in 1 .. pos : buf[i] \in May(Len(file) + i)
      BY <3>1 DEF Placed
    <3>3. \A i \in 1 .. Len(s) : s[i] \in May(Len(file) + i)
      BY <2>1, <3>2
    <3>4. \A i \in 1 .. Len(file') : file'[i] \in May(i)
      BY <2>1, <3>1, <3>2, <3>3, Joined
    <3>5. Len(file') = total
      BY <2>1, <3>1, <3>2, Concat
    <3> QED
      BY <3>4, <3>5
  <2> QED
    BY <2>4, <2>5
<1>2. CASE pos = 0
  BY <1>2 DEF FlushBuffer, TypeOK, Placed
<1> QED
  BY <1>1, <1>2 DEF TypeOK

-----------------------------------------------------------------------------
(* The steps                                                                *)

LEMMA InitFile == Init => FileInv
<1> SUFFICES ASSUME Init PROVE FileInv
  OBVIOUS
<1>1. /\ file = <<>> /\ total = 0 /\ pos = 0 /\ short = 0 /\ flushed = 0
      /\ buf = [i \in Index |-> 0]
  BY DEF Init
<1>2. /\ open \in BOOLEAN /\ closed \in BOOLEAN /\ shared \in BOOLEAN /\ astray \in BOOLEAN
      /\ fate = "live" /\ did \in [call : Calls, ok : BOOLEAN]
  BY DEF Init, Calls
<1>3. TypeOK
  BY <1>1, <1>2 DEF TypeOK, Bytes, Calls
<1> QED
  BY <1>1, <1>3 DEF FileInv, Placed, Reached

LEMMA BufferedKeeps == ASSUME FileInv, NEW n \in Lengths, AppendBuffered(n) PROVE FileInv'
<1> USE DEF FileInv
<1>1. /\ total + n <= MaxBytes /\ pos + n < KBufferSize /\ n \in Nat
      /\ pos' = pos + n /\ total' = total + n
      /\ buf' = [i \in Index |-> IF pos < i /\ i <= pos + n THEN total + i - pos ELSE 0]
      /\ UNCHANGED <<file, open, closed, short, flushed, astray, fate>>
  BY DEF AppendBuffered
<1>2. /\ shared' \in BOOLEAN /\ (shared => shared') /\ (pos > 0 => shared')
  BY DEF AppendBuffered, TypeOK
<1>3. did' \in [call : Calls, ok : BOOLEAN]
  BY ReturnsType DEF AppendBuffered, Calls
<1>4. buf' \in [Index -> Bytes]
  BY <1>1 DEF TypeOK, Bytes, Index
<1>5. TypeOK'
  BY <1>1, <1>2, <1>3, <1>4 DEF TypeOK, Bytes, Calls
<1>6. Placed'
  <2> SUFFICES ASSUME short' = 0
               PROVE  /\ Len(file') + pos' = total'
                      /\ \A i \in 1 .. Len(file') : file'[i] \in May(i)'
                      /\ \A i \in 1 .. pos' : buf'[i] \in May(Len(file) + i)'
    BY DEF Placed
  <2>1. /\ Len(file) + pos = total /\ Len(file) \in Nat /\ pos \in Nat
        /\ \A i \in 1 .. Len(file) : file[i] \in May(i)
    BY <1>1 DEF Placed, TypeOK
  <2>2. \A i : May(i) \subseteq May(i)'
    BY <1>2 DEF May
  <2>3. ASSUME NEW i \in 1 .. pos' PROVE buf'[i] \in May(Len(file) + i)'
    <3>1. i \in Index /\ i <= pos + n
      BY <1>1, <2>1 DEF TypeOK, Index
    <3>2. CASE i <= pos
      <4>1. buf'[i] = 0 /\ pos > 0
        BY <1>1, <2>1, <3>1, <3>2 DEF Index
      <4>2. shared'
        BY <1>2, <4>1
      <4> QED
        BY <4>1, <4>2 DEF May
    <3>3. CASE i > pos
      <4>1. buf'[i] = Len(file) + i
        BY <1>1, <2>1, <3>1, <3>3 DEF Index
      <4> QED
        BY <1>1, <4>1 DEF May
    <3> QED
      BY <2>1, <3>2, <3>3
  <2>4. Len(file') + pos' = total'
    BY <1>1, <2>1 DEF TypeOK, Bytes
  <2>5. ASSUME NEW i \in 1 .. Len(file') PROVE file'[i] \in May(i)'
    <3>1. file'[i] = file[i] /\ i \in 1 .. Len(file)
      BY <1>1
    <3> QED
      BY <2>1, <2>2, <3>1
  <2> QED
    BY <2>3, <2>4, <2>5
<1>7. Reached'
  BY <1>1 DEF Reached
<1> QED
  BY <1>5, <1>6, <1>7

\* With nothing in the buffer the file alone is what was appended.
LEMMA EmptyPlaced ==
    ASSUME pos' = 0, shared' = shared, file' \in Seq(Bytes),
           short' = 0 => /\ Len(file') = total'
                         /\ \A i \in 1 .. Len(file') : file'[i] \in May(i)
    PROVE  Placed'
<1> SUFFICES ASSUME short' = 0
             PROVE  /\ Len(file') + pos' = total'
                    /\ \A i \in 1 .. Len(file') : file'[i] \in May(i)'
                    /\ \A i \in 1 .. pos' : buf'[i] \in May(Len(file) + i)'
  BY DEF Placed
<1>1. Len(file') + pos' = total'
  OBVIOUS
<1>2. \A i : May(i)' = May(i)
  BY DEF May
<1>3. \A i \in 1 .. Len(file') : file'[i] \in May(i)'
  BY <1>2
<1>4. 1 .. pos' = {}
  OBVIOUS
<1> QED
  BY <1>1, <1>3, <1>4

\* A write of a filled buffer, and of what may follow it
LEMMA FilledWritten ==
    ASSUME FileInv, NEW n \in Nat, total + n <= MaxBytes, pos + n >= KBufferSize,
           NEW more \in Seq(Bytes), WrittenThen(Filled, more),
           \A i \in 1 .. Len(more) : more[i] = total + Room + i
    PROVE  /\ file' \in Seq(Bytes) /\ short' \in 0 .. MaxShort
           /\ short' = 0 =>
                /\ short = 0 /\ Len(file') = total + Room + Len(more)
                /\ \A i \in 1 .. Len(file') : file'[i] \in May(i)
<1> USE DEF FileInv
<1>1. /\ Filled \in Seq(Bytes) /\ Len(Filled) = KBufferSize
      /\ \A i \in Index : Filled[i] = IF i <= pos THEN buf[i] ELSE total + i - pos
  BY FilledType
<1>2. /\ file' \in Seq(Bytes) /\ short' \in 0 .. MaxShort
      /\ short' = 0 => short = 0 /\ file' = file \o Filled \o more
  BY <1>1, WriteEffect
<1>3. ASSUME short' = 0
      PROVE  /\ Len(file') = total + Room + Len(more)
             /\ \A i \in 1 .. Len(file') : file'[i] \in May(i)
  <2> DEFINE front == file \o Filled
  <2>1. /\ file \in Seq(Bytes) /\ Len(file) \in Nat /\ pos \in Nat /\ total \in Nat
        /\ short = 0 /\ file' = front \o more /\ pos < KBufferSize
    BY <1>2, <1>3 DEF TypeOK, Bytes
  <2>2. /\ Len(file) + pos = total
        /\ \A i \in 1 .. Len(file) : file[i] \in May(i)
        /\ \A i \in 1 .. pos : buf[i] \in May(Len(file) + i)
    BY <2>1 DEF Placed
  <2>8. /\ Len(file) \in Nat /\ pos \in Nat /\ total = Len(file) + pos
        /\ Len(file) + KBufferSize = total + Room
    <3>1. /\ Len(file) \in Nat /\ pos \in Nat /\ total \in Nat /\ KBufferSize \in Nat
          /\ Len(file) + pos = total
      BY <2>1, <2>2
    <3> QED
      BY ONLY <3>1 DEF Room
  <2>3. \A i \in 1 .. Len(Filled) : Filled[i] \in May(Len(file) + i)
    <3> SUFFICES ASSUME NEW i \in 1 .. Len(Filled) PROVE Filled[i] \in May(Len(file) + i)
      OBVIOUS
    <3>1. i \in Index
      BY <1>1 DEF Index
    <3>2. CASE i <= pos
      BY <1>1, <2>2, <3>1, <3>2 DEF Index
    <3>3. CASE i > pos
      <4>1. Filled[i] = total + i - pos
        BY <1>1, <2>1, <3>1, <3>3 DEF Index
      <4>2. i \in Int /\ total + i - pos = Len(file) + i
        BY <2>8, <3>1 DEF Index
      <4> QED
        BY <4>1, <4>2 DEF May
    <3> QED
      BY <2>1, <3>1, <3>2, <3>3 DEF Index
  <2>4. /\ front \in Seq(Bytes) /\ Len(front) = Len(file) + KBufferSize
        /\ \A i \in 1 .. Len(front) : front[i] \in May(i)
    BY <1>1, <2>1, <2>2, <2>3, Concat, Joined
  <2>5. \A i \in 1 .. Len(more) : more[i] \in May(Len(front) + i)
    <3> SUFFICES ASSUME NEW i \in 1 .. Len(more) PROVE more[i] \in May(Len(front) + i)
      OBVIOUS
    <3>1. more[i] = Len(front) + i
      <4>1. Len(file) + KBufferSize + i = total + Room + i /\ i \in Int
        BY <2>8
      <4> QED
        BY <2>4, <4>1
    <3> QED
      BY <3>1 DEF May
  <2> HIDE DEF front
  <2>6. \A i \in 1 .. Len(file') : file'[i] \in May(i)
    BY <2>1, <2>4, <2>5, Joined
  <2>7. Len(file') = Len(front) + Len(more)
    BY <2>1, <2>4, Concat
  <2> QED
    BY <2>4, <2>6, <2>7, <2>8
<1> QED
  BY <1>2, <1>3

LEMMA FullKeeps == ASSUME FileInv, NEW n \in Lengths, AppendFull(n) PROVE FileInv'
<1> USE DEF FileInv
<1>1. /\ n \in Nat /\ total + n <= MaxBytes /\ pos + n >= KBufferSize /\ n - Room < KBufferSize
      /\ buf' = [i \in Index |-> IF i <= n - Room THEN total + Room + i ELSE 0]
      /\ pos' = n - Room /\ total' = total + n
      /\ UNCHANGED <<open, closed, shared, flushed, astray, fate>>
  BY DEF AppendFull
<1>2. /\ total \in 0 .. MaxBytes /\ pos \in 0 .. KBufferSize - 1 /\ flushed \in 0 .. total
      /\ Room \in 1 .. KBufferSize /\ n - Room \in 0 .. KBufferSize - 1
  BY <1>1 DEF TypeOK, Bytes, Room
<1>3. WrittenThen(Filled, <<>>) /\ <<>> \in Seq(Bytes)
  BY DEF AppendFull, Written
<1>4. /\ file' \in Seq(Bytes) /\ short' \in 0 .. MaxShort
      /\ short' = 0 =>
            /\ short = 0 /\ Len(file') = total + Room
            /\ \A i \in 1 .. Len(file') : file'[i] \in May(i)
  <2>1. /\ Len(<<>>) = 0 /\ total + Room + 0 = total + Room
        /\ \A i \in 1 .. 0 : <<>>[i] = total + Room + i
    BY ONLY <1>2
  <2>2. /\ file' \in Seq(Bytes) /\ short' \in 0 .. MaxShort
        /\ short' = 0 =>
              /\ short = 0 /\ Len(file') = total + Room + Len(<<>>)
              /\ \A i \in 1 .. Len(file') : file'[i] \in May(i)
    BY <1>1, <1>3, <2>1, FilledWritten
  <2> QED
    BY <2>1, <2>2
<1>5. did' \in [call : Calls, ok : BOOLEAN]
  BY ReturnsType DEF AppendFull, Calls
<1>6. buf' \in [Index -> Bytes]
  BY <1>1, <1>2 DEF Bytes, Index
<1>7. TypeOK'
  <2>1. pos' \in 0 .. KBufferSize - 1 /\ total' \in Bytes /\ flushed' \in 0 .. total'
    BY <1>1, <1>2 DEF Bytes
  <2> QED
    BY <1>1, <1>4, <1>5, <1>6, <2>1 DEF TypeOK, Calls
<1>8. ASSUME short' = 0
      PROVE  /\ Len(file') + pos' = total'
             /\ \A i \in 1 .. Len(file') : file'[i] \in May(i)'
             /\ \A i \in 1 .. pos' : buf'[i] \in May(Len(file') + i)
  <2>1. \A i : May(i)' = May(i)
    BY <1>1 DEF May
  <2>2. Len(file') = total + Room
    BY <1>4, <1>8
  <2>3. Len(file') + pos' = total'
    BY ONLY <1>1, <1>2, <2>2
  <2>4. ASSUME NEW i \in 1 .. pos' PROVE buf'[i] \in May(Len(file') + i)
    <3>1. buf'[i] = Len(file') + i
      BY <1>1, <1>2, <2>2 DEF Index
    <3> QED
      BY <3>1 DEF May
  <2> QED
    BY <1>4, <1>8, <2>1, <2>3, <2>4
<1>9. Placed'
  BY <1>1, <1>8 DEF Placed, May
<1>10. Reached'
  BY <1>1, <1>2, <1>4 DEF Reached
<1> QED
  BY <1>7, <1>9, <1>10

LEMMA LargeKeeps == ASSUME FileInv, NEW n \in Lengths, AppendLarge(n) PROVE FileInv'
<1> USE DEF FileInv
<1>1. /\ n \in Nat /\ total + n <= MaxBytes /\ pos + n >= KBufferSize /\ n - Room >= KBufferSize
      /\ buf' = Filled /\ pos' = 0 /\ total' = total + n
      /\ UNCHANGED <<open, closed, shared, flushed, astray, fate>>
      /\ WrittenThen(Filled, Data(Room + 1, n))
  BY DEF AppendLarge
<1>2. /\ total \in 0 .. MaxBytes /\ pos \in 0 .. KBufferSize - 1 /\ flushed \in 0 .. total
      /\ Room \in 1 .. KBufferSize /\ Room + 1 \in 1 .. n
  BY <1>1 DEF TypeOK, Bytes, Room
<1>3. /\ Data(Room + 1, n) \in Seq(Bytes) /\ Len(Data(Room + 1, n)) = n - Room
      /\ \A i \in 1 .. n - Room : Data(Room + 1, n)[i] = total + Room + i
  <2>1. n - (Room + 1) + 1 = n - Room /\ \A i \in Int : total + (Room + 1) - 1 + i = total + Room + i
    BY ONLY <1>1, <1>2
  <2>2. /\ Data(Room + 1, n) \in Seq(Bytes) /\ Len(Data(Room + 1, n)) = n - (Room + 1) + 1
        /\ \A i \in 1 .. n - (Room + 1) + 1 : Data(Room + 1, n)[i] = total + (Room + 1) - 1 + i
    BY <1>1, <1>2, DataType
  <2> QED
    BY ONLY <2>1, <2>2
<1>4. /\ file' \in Seq(Bytes) /\ short' \in 0 .. MaxShort
      /\ short' = 0 =>
            /\ short = 0 /\ Len(file') = total + Room + (n - Room)
            /\ \A i \in 1 .. Len(file') : file'[i] \in May(i)
  BY <1>1, <1>2, <1>3, FilledWritten
<1>5. did' \in [call : Calls, ok : BOOLEAN]
  BY ReturnsType DEF AppendLarge, Calls
<1>6. buf' \in [Index -> Bytes]
  BY <1>1, FilledType
<1>7. TypeOK'
  <2>1. pos' \in 0 .. KBufferSize - 1 /\ total' \in Bytes /\ flushed' \in 0 .. total'
    BY <1>1, <1>2 DEF Bytes
  <2> QED
    BY <1>1, <1>4, <1>5, <1>6, <2>1 DEF TypeOK, Calls
<1>8. total + Room + (n - Room) = total + n /\ total + n + 0 = total + n
  BY ONLY <1>1, <1>2
<1>9. Placed'
  BY <1>1, <1>4, <1>8, EmptyPlaced
<1>10. Reached'
  BY <1>1, <1>2, <1>4, <1>8 DEF Reached
<1> QED
  BY <1>7, <1>9, <1>10

\* A short write is one that aborts, and promises nothing after it.
LEMMA AbortKeeps == ASSUME FileInv, NEW n \in Lengths, AppendLargeAborts(n) PROVE FileInv'
<1> USE DEF FileInv
<1>1. /\ n \in Nat /\ total + n <= MaxBytes /\ pos + n >= KBufferSize /\ n - Room >= KBufferSize
      /\ buf' = Filled /\ pos' = 0 /\ total' = total + n
      /\ short < MaxShort /\ short' = short + 1 /\ fate' = "aborted"
      /\ UNCHANGED <<open, closed, shared, flushed, astray, did>>
  BY DEF AppendLargeAborts
<1>2. /\ total \in 0 .. MaxBytes /\ pos \in 0 .. KBufferSize - 1 /\ flushed \in 0 .. total
      /\ Room \in 1 .. KBufferSize /\ Room + 1 \in 1 .. n /\ short \in 0 .. MaxShort
  BY <1>1 DEF TypeOK, Bytes, Room
<1>3. PICK k \in 0 .. n - Room - 1 :
        file' = file \o Filled \o SubSeq(Data(Room + 1, n), 1, k)
  BY DEF AppendLargeAborts
<1>4. file' \in Seq(Bytes)
  <2>1. Data(Room + 1, n) \in Seq(Bytes) /\ Len(Data(Room + 1, n)) = n - Room
    <3>1. n - (Room + 1) + 1 = n - Room
      BY ONLY <1>1, <1>2
    <3> QED
      BY <1>1, <1>2, <3>1, DataType
  <2>2. SubSeq(Data(Room + 1, n), 1, k) \in Seq(Bytes)
    BY <1>1, <1>2, <2>1
  <2>3. Filled \in Seq(Bytes)
    BY <1>1, FilledType
  <2> QED
    BY <1>3, <2>2, <2>3 DEF TypeOK
<1>5. buf' \in [Index -> Bytes]
  BY <1>1, FilledType
<1>6. TypeOK'
  <2>1. /\ pos' \in 0 .. KBufferSize - 1 /\ total' \in Bytes /\ flushed' \in 0 .. total'
        /\ short' \in 0 .. MaxShort /\ short' # 0
    BY <1>1, <1>2 DEF Bytes
  <2> QED
    BY <1>1, <1>4, <1>5, <2>1 DEF TypeOK
<1>7. Placed' /\ Reached'
  BY <1>1, <1>2 DEF Placed, Reached
<1> QED
  BY <1>6, <1>7

\* After a flush: nothing is in the buffer, and everything is in the file.
LEMMA FlushedKeeps ==
    ASSUME FileInv, FlushBuffer, pos' = 0, flushed' = total, UNCHANGED <<total, buf, shared>>,
           open' \in BOOLEAN, closed' \in BOOLEAN, astray' \in BOOLEAN,
           did' \in [call : Calls, ok : BOOLEAN], fate' \in {"live", "destroyed", "aborted"}
    PROVE  FileInv'
<1> USE DEF FileInv
<1>1. /\ file' \in Seq(Bytes) /\ short' \in 0 .. MaxShort
      /\ short' = 0 => /\ Len(file') = total
                       /\ \A i \in 1 .. total : file'[i] \in May(i)
  BY FlushEffect
<1>2. TypeOK'
  <2>1. pos' \in 0 .. KBufferSize - 1 /\ total' \in Bytes /\ flushed' \in 0 .. total'
    BY DEF TypeOK, Bytes
  <2> QED
    BY <1>1, <2>1 DEF TypeOK, Calls
<1>3. total + 0 = total /\ total <= total
  BY DEF TypeOK, Bytes
<1>4. Placed'
  BY <1>1, <1>3, EmptyPlaced
<1>5. Reached'
  BY <1>1, <1>3 DEF Reached
<1> QED
  BY <1>2, <1>4, <1>5

LEMMA CallKeeps ==
    ASSUME FileInv, NEW c \in Calls, CloseOrFlush(c), UNCHANGED <<total, buf, shared>>,
           fate' \in {"live", "destroyed", "aborted"}
    PROVE  FileInv'
<1> USE DEF FileInv
<1>1. CASE pos > 0
  <2>1. FlushBuffer /\ pos' = 0 /\ flushed' = total /\ UNCHANGED <<open, closed, astray>>
    BY <1>1 DEF CloseOrFlush
  <2>2. did' \in [call : Calls, ok : BOOLEAN]
    BY <1>1, ReturnsType DEF CloseOrFlush
  <2>3. open' \in BOOLEAN /\ closed' \in BOOLEAN /\ astray' \in BOOLEAN
    BY <2>1 DEF TypeOK
  <2> QED
    BY <2>1, <2>2, <2>3, FlushedKeeps
<1>2. CASE ~(pos > 0)
  <2>1. /\ CloseDescriptor(c) /\ flushed' = total /\ UNCHANGED <<file, short, pos>>
        /\ pos = 0
    BY <1>2 DEF CloseOrFlush, TypeOK
  <2>2. open' \in BOOLEAN /\ closed' \in BOOLEAN /\ astray' \in BOOLEAN
    BY <2>1 DEF CloseDescriptor, TypeOK
  <2>3. did' \in [call : Calls, ok : BOOLEAN]
    BY <2>1, ReturnsType DEF CloseDescriptor
  <2>4. FlushBuffer /\ pos' = 0
    BY <1>2, <2>1 DEF FlushBuffer
  <2> QED
    BY <2>1, <2>2, <2>3, <2>4, FlushedKeeps
<1> QED
  BY <1>1, <1>2

LEMMA FlushKeeps == ASSUME FileInv, Flush PROVE FileInv'
<1>1. /\ FlushBuffer /\ pos' = 0 /\ flushed' = total
      /\ UNCHANGED <<total, buf, open, closed, shared, astray, fate>>
  BY DEF Flush
<1>2. did' \in [call : Calls, ok : BOOLEAN]
  BY ReturnsType DEF Flush, Calls
<1>3. open' \in BOOLEAN /\ closed' \in BOOLEAN /\ astray' \in BOOLEAN
  BY <1>1 DEF FileInv, TypeOK
<1>4. fate' \in {"live", "destroyed", "aborted"}
  BY <1>1 DEF FileInv, TypeOK
<1> QED
  BY <1>1, <1>2, <1>3, <1>4, FlushedKeeps

LEMMA SyncKeeps == ASSUME FileInv, Sync PROVE FileInv'
<1>1. /\ FlushBuffer /\ pos' = 0 /\ flushed' = total
      /\ UNCHANGED <<total, buf, open, closed, shared, astray, fate>>
  BY DEF Sync
<1>2. did' \in [call : Calls, ok : BOOLEAN]
  BY ReturnsType DEF Sync, Calls
<1>3. open' \in BOOLEAN /\ closed' \in BOOLEAN /\ astray' \in BOOLEAN
  BY <1>1 DEF FileInv, TypeOK
<1>4. fate' \in {"live", "destroyed", "aborted"}
  BY <1>1 DEF FileInv, TypeOK
<1> QED
  BY <1>1, <1>2, <1>3, <1>4, FlushedKeeps

LEMMA CloseKeeps == ASSUME FileInv, Close PROVE FileInv'
  BY CallKeeps DEF Close, Calls, FileInv, TypeOK

LEMMA StutterFile == ASSUME FileInv, UNCHANGED vars PROVE FileInv'
<1>1. TypeOK'
  BY DEF FileInv, vars, TypeOK
<1>2. Placed'
  BY DEF FileInv, vars, Placed, May
<1>3. Reached'
  BY DEF FileInv, vars, Reached, May
<1> QED
  BY <1>1, <1>2, <1>3 DEF FileInv, vars

LEMMA DestroyKeeps == ASSUME FileInv, Destroy PROVE FileInv'
<1>1. CASE closed
  <2>1. /\ UNCHANGED <<file, short, pos, open, closed, flushed, astray, did>>
        /\ UNCHANGED <<total, buf, shared>> /\ fate' = "destroyed"
    BY <1>1 DEF Destroy
  <2> QED
    BY <2>1 DEF FileInv, TypeOK, Placed, Reached, May
<1>2. CASE ~closed
  BY <1>2, CallKeeps DEF Destroy, Calls
<1> QED
  BY <1>1, <1>2

-----------------------------------------------------------------------------
(* The theorems                                                             *)

\* The invariant holds of every behavior.
THEOREM FileInvariant == Spec => []FileInv
<1>1. FileInv /\ [Next]_vars => FileInv'
  <2> SUFFICES ASSUME FileInv, [Next]_vars PROVE FileInv'
    OBVIOUS
  <2>1. ASSUME NEW n \in Lengths,
               AppendBuffered(n) \/ AppendFull(n) \/ AppendLarge(n) \/ AppendLargeAborts(n)
        PROVE  FileInv'
    BY <2>1, BufferedKeeps, FullKeeps, LargeKeeps, AbortKeeps
  <2> QED
    BY <2>1, FlushKeeps, SyncKeeps, CloseKeeps, DestroyKeeps, StutterFile DEF Next
<1> QED
  BY InitFile, <1>1, PTL DEF Spec

\* While every write is complete, file and buffer hold every byte that was appended, in its
\* place or, behind another append in the buffer, cleared (FileWriter::append).
THEOREM BytesKeepPlace == Spec => []PlacedRight
<1>1. FileInv => PlacedRight
  <2> SUFFICES ASSUME FileInv PROVE PlacedRight
    OBVIOUS
  <2> DEFINE s == SubSeq(buf, 1, pos)
  <2>1. /\ s \in Seq(Bytes) /\ Len(s) = pos
        /\ \A i \in 1 .. pos : s[i] = buf[i]
    <3>1. buf \in Seq(Bytes) /\ Len(buf) = KBufferSize /\ pos \in 0 .. KBufferSize - 1
      BY DEF FileInv, TypeOK, Index
    <3> QED
      BY <3>1
  <2> HIDE DEF s
  <2>2. ASSUME short = 0
        PROVE  Len(file \o s) = total /\ \A i \in 1 .. total : (file \o s)[i] \in May(i)
    <3>1. /\ file \in Seq(Bytes) /\ Len(file) + pos = total
          /\ \A i \in 1 .. Len(file) : file[i] \in May(i)
          /\ \A i \in 1 .. pos : buf[i] \in May(Len(file) + i)
      BY <2>2 DEF FileInv, TypeOK, Placed
    <3>2. Len(file \o s) = total
      BY <2>1, <3>1, Concat
    <3>3. \A i \in 1 .. Len(s) : s[i] \in May(Len(file) + i)
      BY <2>1, <3>1
    <3>4. \A i \in 1 .. Len(file \o s) : (file \o s)[i] \in May(i)
      BY <2>1, <3>1, <3>3, Joined
    <3> QED
      BY <3>2, <3>4
  <2>3. Content = file \o s
    BY DEF Content, s
  <2> QED
    BY <2>2, <2>3 DEF PlacedRight, FileInv, May
<1> QED
  BY FileInvariant, <1>1, PTL

\* What was appended before a flush, a sync, a close or the destructor is what
\* ReadBlockFromFile gives back, while every write is complete.
THEOREM FlushedReadsBack == Spec => []FlushedIsRead
<1>1. FileInv => FlushedIsRead
  <2> SUFFICES ASSUME FileInv, short = 0, NEW offset \in 0 .. flushed, NEW size \in 0 .. offset
               PROVE  LET r == ReadBlockFromFile([offset |-> offset, size |-> size])
                          At(i) == offset - size + i
                      IN  r.ok /\ \A i \in 1 .. size : r.result[i] \in May(At(i))
    BY DEF FlushedIsRead, May
  <2> DEFINE at == offset - size
             f  == [i \in 1 .. size |-> IF at + i <= Len(file) THEN file[at + i] ELSE Garbage]
  <2>1. /\ file \in Seq(Bytes) /\ flushed \in Nat /\ flushed <= Len(file) /\ Len(file) \in Nat
        /\ pos \in Nat /\ \A i \in 1 .. Len(file) : file[i] \in May(i)
    BY DEF FileInv, TypeOK, Bytes, Placed, Reached
  <2>2. at \in Nat /\ size \in Nat /\ ~(at < 0)
    BY <2>1
  <2>3. Read(size, at).ok /\ Read(size, at).result = f
    <3>1. at >= 0
      BY <2>2
    <3> QED
      BY <2>2, <3>1 DEF Read
  <2>4. f \in Seq(Bytes) /\ Len(f) = size /\ \A i \in 1 .. size : f[i] = file[at + i]
    BY <2>1, <2>2
  <2> HIDE DEF f
  <2>5. LET r == ReadBlockFromFile([offset |-> offset, size |-> size])
        IN  r.ok /\ r.result = f
    <3> DEFINE h == [offset |-> offset, size |-> size]
    <3>1. h.offset - h.size = at /\ h.size = size
      OBVIOUS
    <3> HIDE DEF h, at
    <3>2. Len(f) >= size
      BY <2>4
    <3>3. ReadBlockFromFile(h) =
              [ok |-> Read(size, at).ok /\ Len(Read(size, at).result) >= size,
               result |-> Read(size, at).result]
      BY <3>1, Zenon DEF ReadBlockFromFile
    <3>4. ReadBlockFromFile(h).result = f
      BY ONLY <2>3, <3>3
    <3>5. ReadBlockFromFile(h).ok
      <4>1. Len(Read(size, at).result) >= size
        BY <2>3, <3>2, Zenon
      <4>2. (Read(size, at).ok /\ Len(Read(size, at).result) >= size) = TRUE
        BY <2>3, <4>1, Zenon
      <4>3. ReadBlockFromFile(h) = [ok |-> TRUE, result |-> Read(size, at).result]
        BY ONLY <3>3, <4>2, Zenon
      <4> QED
        BY ONLY <4>3
    <3> QED
      BY <3>4, <3>5 DEF h
  <2>6. ASSUME NEW i \in 1 .. size PROVE f[i] \in May(at + i)
    BY <2>1, <2>2, <2>4
  <2> QED
    BY <2>5, <2>6
<1> QED
  BY FileInvariant, <1>1, PTL

-----------------------------------------------------------------------------
(* The order of the bytes                                                   *)

\* The bytes of s that were appended lie above low, up to high, and ascend.
Ascends(s, low, high) ==
    /\ \A i \in DOMAIN s : s[i] # 0 => low < s[i] /\ s[i] <= high
    /\ \A i, j \in DOMAIN s : i < j /\ s[i] # 0 /\ s[j] # 0 => s[i] < s[j]

\* The bytes of the buffer are later ones than those of the file.
OrderInv ==
    \E mid \in 0 .. total : Ascends(file, 0, mid) /\ Ascends(SubSeq(buf, 1, pos), mid, total)

LEMMA Part ==
    ASSUME NEW b \in [Index -> Bytes], NEW p \in 0 .. KBufferSize - 1
    PROVE  /\ SubSeq(b, 1, p) \in Seq(Bytes) /\ Len(SubSeq(b, 1, p)) = p
           /\ \A i \in 1 .. p : SubSeq(b, 1, p)[i] = b[i]
<1>1. b \in Seq(Bytes) /\ Len(b) = KBufferSize
  BY DEF Index
<1> QED
  BY <1>1

LEMMA Buffer ==
    ASSUME TypeOK
    PROVE  /\ SubSeq(buf, 1, pos) \in Seq(Bytes) /\ Len(SubSeq(buf, 1, pos)) = pos
           /\ \A i \in 1 .. pos : SubSeq(buf, 1, pos)[i] = buf[i]
  BY Part DEF TypeOK

LEMMA AscendJoin ==
    ASSUME NEW a \in Seq(Bytes), NEW b \in Seq(Bytes), NEW low \in Nat, NEW mid \in Nat,
           NEW high \in Nat, low <= mid, mid <= high,
           Ascends(a, low, mid), Ascends(b, mid, high)
    PROVE  Ascends(a \o b, low, high)
<1> DEFINE c == a \o b
<1>1. /\ c \in Seq(Bytes) /\ Len(a) \in Nat /\ Len(b) \in Nat /\ Len(c) = Len(a) + Len(b)
      /\ DOMAIN c = 1 .. Len(c) /\ DOMAIN a = 1 .. Len(a) /\ DOMAIN b = 1 .. Len(b)
  BY Concat
<1>2. ASSUME NEW i \in DOMAIN c
      PROVE  \/ i \in DOMAIN a /\ c[i] = a[i]
             \/ i > Len(a) /\ i - Len(a) \in DOMAIN b /\ c[i] = b[i - Len(a)]
  <2>1. CASE i \in 1 .. Len(a)
    BY <1>1, <2>1, Concat
  <2>2. CASE i \notin 1 .. Len(a)
    <3>1. i - Len(a) \in 1 .. Len(b) /\ Len(a) + (i - Len(a)) = i /\ i > Len(a)
      BY <1>1, <2>2
    <3>2. c[Len(a) + (i - Len(a))] = b[i - Len(a)]
      BY <3>1, Concat
    <3> QED
      BY <1>1, <3>1, <3>2
  <2> QED
    BY <2>1, <2>2
<1>3. \A i \in DOMAIN a : a[i] \in Nat
  BY DEF Bytes
<1>4. \A i \in DOMAIN b : b[i] \in Nat
  BY DEF Bytes
<1> HIDE DEF c
<1>5. ASSUME NEW i \in DOMAIN c, c[i] # 0 PROVE low < c[i] /\ c[i] <= high
  <2>1. CASE i \in DOMAIN a /\ c[i] = a[i]
    BY <1>3, <1>5, <2>1 DEF Ascends
  <2>2. CASE i - Len(a) \in DOMAIN b /\ c[i] = b[i - Len(a)]
    BY <1>4, <1>5, <2>2 DEF Ascends
  <2> QED
    BY <1>2, <2>1, <2>2
<1>6. ASSUME NEW i \in DOMAIN c, NEW j \in DOMAIN c, i < j, c[i] # 0, c[j] # 0
      PROVE  c[i] < c[j]
  <2>1. CASE j \in DOMAIN a /\ c[j] = a[j]
    <3>1. i \in DOMAIN a /\ c[i] = a[i]
      BY <1>1, <1>2, <1>6, <2>1
    <3> QED
      BY <1>6, <2>1, <3>1 DEF Ascends
  <2>2. CASE j > Len(a) /\ j - Len(a) \in DOMAIN b /\ c[j] = b[j - Len(a)]
    <3>1. CASE i \in DOMAIN a /\ c[i] = a[i]
      <4>1. c[i] <= mid /\ c[i] \in Nat
        BY <1>3, <1>6, <3>1 DEF Ascends
      <4>2. mid < c[j] /\ c[j] \in Nat
        BY <1>4, <1>6, <2>2 DEF Ascends
      <4> QED
        BY <4>1, <4>2
    <3>2. CASE i > Len(a) /\ i - Len(a) \in DOMAIN b /\ c[i] = b[i - Len(a)]
      <4>1. i - Len(a) < j - Len(a)
        BY <1>1, <1>6
      <4> QED
        BY <1>6, <2>2, <3>2, <4>1 DEF Ascends
    <3> QED
      BY <1>2, <3>1, <3>2
  <2> QED
    BY <1>2, <2>1, <2>2
<1>7. Ascends(c, low, high)
  BY <1>5, <1>6 DEF Ascends
<1> QED
  BY <1>7 DEF c

LEMMA AscendFront ==
    ASSUME NEW s \in Seq(Bytes), NEW k \in 0 .. Len(s), NEW low, NEW high, Ascends(s, low, high)
    PROVE  SubSeq(s, 1, k) \in Seq(Bytes) /\ Ascends(SubSeq(s, 1, k), low, high)
<1> DEFINE f == SubSeq(s, 1, k)
<1>1. f \in Seq(Bytes) /\ Len(f) = k /\ \A i \in 1 .. k : f[i] = s[i]
  OBVIOUS
<1>2. DOMAIN f = 1 .. k /\ 1 .. k \subseteq DOMAIN s
  BY <1>1
<1> HIDE DEF f
<1>3. Ascends(f, low, high)
  BY <1>1, <1>2 DEF Ascends
<1> QED
  BY <1>1, <1>3 DEF f

LEMMA AscendNone ==
    ASSUME NEW low, NEW high
    PROVE  <<>> \in Seq(Bytes) /\ Ascends(<<>>, low, high)
<1>1. <<>> \in Seq(Bytes) /\ DOMAIN <<>> = {}
  OBVIOUS
<1> QED
  BY <1>1 DEF Ascends

\* A run of bytes that follow one another
LEMMA AscendRun ==
    ASSUME NEW s \in Seq(Bytes), NEW low \in Nat, NEW high \in Nat, low + Len(s) <= high,
           \A i \in 1 .. Len(s) : s[i] = low + i
    PROVE  Ascends(s, low, high)
<1>1. DOMAIN s = 1 .. Len(s) /\ Len(s) \in Nat
  OBVIOUS
<1> QED
  BY <1>1 DEF Ascends

\* A write, complete or short, of what comes after the file
LEMMA WriteAscends ==
    ASSUME TypeOK, NEW s \in Seq(Bytes), NEW more \in Seq(Bytes), WrittenThen(s, more),
           NEW mid \in Nat, NEW high \in Nat, NEW top \in Nat, mid <= high, high <= top,
           Ascends(file, 0, mid), Ascends(s, mid, high), Ascends(more, high, top)
    PROVE  Ascends(file', 0, top)
<1>1. file \in Seq(Bytes) /\ 0 \in Nat /\ 0 <= mid /\ 0 <= high
  BY DEF TypeOK
<1>2. ASSUME NEW t \in Seq(Bytes), Ascends(t, mid, high), file' = file \o t \o more
      PROVE  Ascends(file', 0, top)
  <2>1. file \o t \in Seq(Bytes)
    BY <1>1, Concat
  <2>2. Ascends(file \o t, 0, high)
    BY <1>1, <1>2, AscendJoin
  <2> QED
    BY <1>1, <1>2, <2>1, <2>2, AscendJoin
<1>3. CASE file' = file \o s \o more
  BY <1>2, <1>3
<1>4. ASSUME NEW k \in 0 .. Len(s) - 1, file' = file \o SubSeq(s, 1, k) \o more
      PROVE  Ascends(file', 0, top)
  <2>1. k \in 0 .. Len(s)
    OBVIOUS
  <2> QED
    BY <1>2, <1>4, <2>1, AscendFront
<1> QED
  BY <1>3, <1>4 DEF WrittenThen

\* The filled buffer goes on where the file ends.
LEMMA FilledAscends ==
    ASSUME TypeOK, NEW n \in Nat, total + n <= MaxBytes, pos + n >= KBufferSize,
           NEW mid \in 0 .. total, Ascends(SubSeq(buf, 1, pos), mid, total)
    PROVE  Filled \in Seq(Bytes) /\ Ascends(Filled, mid, total + Room)
<1>1. /\ Filled \in Seq(Bytes) /\ Len(Filled) = KBufferSize
      /\ \A i \in Index : Filled[i] = IF i <= pos THEN buf[i] ELSE total + i - pos
  BY FilledType
<1>2. total \in Nat /\ pos \in Nat /\ Room \in Nat /\ Room = KBufferSize - pos /\ mid \in Nat
  BY DEF TypeOK, Bytes, Room
<1>3. DOMAIN Filled = Index
  BY <1>1 DEF Index
<1>4. ASSUME NEW i \in Index
      PROVE  \/ i <= pos /\ i \in DOMAIN SubSeq(buf, 1, pos) /\ Filled[i] = SubSeq(buf, 1, pos)[i]
             \/ i > pos /\ Filled[i] = total + i - pos
  <2>1. DOMAIN SubSeq(buf, 1, pos) = 1 .. pos
    BY Buffer
  <2>2. CASE i <= pos
    <3>1. i \in 1 .. pos
      BY <1>2, <2>2 DEF Index
    <3> QED
      BY <1>1, <2>1, <2>2, <3>1, Buffer
  <2>3. CASE i > pos
    BY <1>1, <1>2, <2>3 DEF Index
  <2> QED
    BY <1>2, <2>2, <2>3 DEF Index
<1> DEFINE b == SubSeq(buf, 1, pos)
<1>5. \A i \in DOMAIN b : b[i] \in Nat /\ (b[i] # 0 => mid < b[i] /\ b[i] <= total)
  BY Buffer DEF Ascends, Bytes
<1>6. \A i, j \in DOMAIN b : i < j /\ b[i] # 0 /\ b[j] # 0 => b[i] < b[j]
  BY DEF Ascends
<1> HIDE DEF b
<1>7. ASSUME NEW i \in Index, Filled[i] # 0 PROVE mid < Filled[i] /\ Filled[i] <= total + Room
  <2>1. CASE i <= pos /\ i \in DOMAIN b /\ Filled[i] = b[i]
    BY <1>2, <1>5, <1>7, <2>1
  <2>2. CASE i > pos /\ Filled[i] = total + i - pos
    BY <1>2, <2>2 DEF Index
  <2> QED
    BY <1>4, <2>1, <2>2 DEF b
<1>8. ASSUME NEW i \in Index, NEW j \in Index, i < j, Filled[i] # 0, Filled[j] # 0
      PROVE  Filled[i] < Filled[j]
  <2>1. CASE j <= pos /\ j \in DOMAIN b /\ Filled[j] = b[j]
    <3>1. i <= pos
      BY <1>2, <1>8, <2>1 DEF Index
    <3>2. i \in DOMAIN b /\ Filled[i] = b[i]
      BY <1>2, <1>4, <3>1 DEF b, Index
    <3> QED
      BY <1>6, <1>8, <2>1, <3>2
  <2>2. CASE j > pos /\ Filled[j] = total + j - pos
    <3>1. CASE i <= pos /\ i \in DOMAIN b /\ Filled[i] = b[i]
      BY <1>2, <1>5, <1>8, <2>2, <3>1 DEF Index
    <3>2. CASE i > pos /\ Filled[i] = total + i - pos
      BY <1>2, <1>8, <2>2, <3>2 DEF Index
    <3> QED
      BY <1>4, <3>1, <3>2 DEF b
  <2> QED
    BY <1>4, <2>1, <2>2 DEF b
<1> QED
  BY <1>1, <1>3, <1>7, <1>8 DEF Ascends

\* With nothing in the buffer the order is that of the file.
LEMMA EmptyOrdered ==
    ASSUME pos' = 0, total' \in Nat, Ascends(file', 0, total')
    PROVE  OrderInv'
<1>1. SubSeq(buf', 1, pos') = <<>>
  OBVIOUS
<1>2. Ascends(SubSeq(buf', 1, pos'), total', total')
  BY <1>1, AscendNone
<1>3. total' \in 0 .. total'
  OBVIOUS
<1> QED
  BY <1>2, <1>3 DEF OrderInv, Ascends

LEMMA BufferedOrdered ==
    ASSUME FileInv, FileInv', OrderInv, NEW n \in Lengths, AppendBuffered(n)
    PROVE  OrderInv'
<1>1. /\ n \in Nat /\ pos + n < KBufferSize /\ pos' = pos + n /\ total' = total + n
      /\ buf' = [i \in Index |-> IF pos < i /\ i <= pos + n THEN total + i - pos ELSE 0]
      /\ UNCHANGED file
  BY DEF AppendBuffered
<1>2. TypeOK /\ TypeOK' /\ total \in Nat /\ pos \in Nat
  BY DEF FileInv, TypeOK, Bytes
<1>3. PICK mid \in 0 .. total : Ascends(file, 0, mid)
  BY DEF OrderInv
<1> DEFINE s == SubSeq(buf', 1, pos')
<1>4. Len(s) = pos' /\ DOMAIN s = 1 .. pos' /\ \A i \in 1 .. pos' : s[i] = buf'[i]
  <2>1. buf' \in [Index -> Bytes] /\ pos' \in 0 .. KBufferSize - 1
    BY <1>2 DEF TypeOK
  <2>2. s \in Seq(Bytes) /\ Len(s) = pos' /\ \A i \in 1 .. pos' : s[i] = buf'[i]
    BY <2>1, Part
  <2> HIDE DEF s
  <2> QED
    BY <2>2
<1> HIDE DEF s
<1>5. \A i \in 1 .. pos' : s[i] = IF pos < i THEN total + i - pos ELSE 0
  <2> SUFFICES ASSUME NEW i \in 1 .. pos'
               PROVE  s[i] = IF pos < i THEN total + i - pos ELSE 0
    OBVIOUS
  <2>1. i \in Index /\ i <= pos + n
    BY <1>1, <1>2 DEF Index
  <2>2. buf'[i] = IF pos < i /\ i <= pos + n THEN total + i - pos ELSE 0
    BY <1>1, <2>1
  <2> QED
    BY <1>4, <2>1, <2>2
<1>6. Ascends(s, mid, total')
  <2>1. \A i \in 1 .. pos' : s[i] # 0 => s[i] = total + (i - pos) /\ i - pos \in 1 .. n
    BY <1>1, <1>2, <1>5
  <2> QED
    BY <1>1, <1>2, <1>4, <2>1 DEF Ascends
<1>7. mid \in 0 .. total' /\ Ascends(file', 0, mid)
  BY <1>1, <1>2, <1>3
<1>8. Ascends(SubSeq(buf', 1, pos'), mid, total')
  BY <1>6 DEF s
<1> QED
  BY <1>7, <1>8 DEF OrderInv, Ascends

LEMMA FullOrdered ==
    ASSUME FileInv, FileInv', OrderInv, NEW n \in Lengths, AppendFull(n)
    PROVE  OrderInv'
<1>1. /\ n \in Nat /\ total + n <= MaxBytes /\ pos + n >= KBufferSize /\ n - Room < KBufferSize
      /\ buf' = [i \in Index |-> IF i <= n - Room THEN total + Room + i ELSE 0]
      /\ pos' = n - Room /\ total' = total + n
      /\ WrittenThen(Filled, <<>>)
  BY DEF AppendFull, Written
<1>2. /\ TypeOK /\ TypeOK' /\ total \in Nat /\ Room \in Nat /\ n - Room \in Nat
      /\ total + Room \in Nat /\ total + Room + (n - Room) = total + n
  BY <1>1 DEF FileInv, TypeOK, Bytes, Room
<1>3. PICK mid \in 0 .. total : Ascends(file, 0, mid) /\ Ascends(SubSeq(buf, 1, pos), mid, total)
  BY DEF OrderInv
<1>4. Filled \in Seq(Bytes) /\ Ascends(Filled, mid, total + Room)
  BY <1>1, <1>2, <1>3, FilledAscends
<1>5. Ascends(file', 0, total + Room)
  <2>1. mid \in Nat /\ mid <= total + Room /\ total + Room <= total + Room
    BY <1>2
  <2> QED
    BY <1>1, <1>2, <1>3, <1>4, <2>1, AscendNone, WriteAscends
<1> DEFINE s == SubSeq(buf', 1, pos')
<1>6. s \in Seq(Bytes) /\ Len(s) = pos' /\ \A i \in 1 .. pos' : s[i] = buf'[i]
  <2>1. buf' \in [Index -> Bytes] /\ pos' \in 0 .. KBufferSize - 1
    BY <1>2 DEF TypeOK
  <2> QED
    BY <2>1, Part
<1> HIDE DEF s
<1>7. \A i \in 1 .. Len(s) : s[i] = (total + Room) + i
  <2> SUFFICES ASSUME NEW i \in 1 .. pos' PROVE s[i] = (total + Room) + i
    BY <1>6
  <2>1. i \in Index /\ i <= n - Room
    BY <1>1, <1>2 DEF Index
  <2>2. buf'[i] = total + Room + i
    BY <1>1, <2>1
  <2> QED
    BY <1>6, <2>2
<1>8. Ascends(s, total + Room, total')
  <2>1. (total + Room) + Len(s) <= total' /\ total' \in Nat
    BY <1>1, <1>2, <1>6
  <2> QED
    BY <1>2, <1>6, <1>7, <2>1, AscendRun
<1>9. total + Room \in 0 .. total'
  BY <1>1, <1>2
<1>10. Ascends(SubSeq(buf', 1, pos'), total + Room, total')
  BY <1>8 DEF s
<1>11. \E m \in 0 .. total' : Ascends(file', 0, m) /\ Ascends(SubSeq(buf', 1, pos'), m, total')
  BY <1>5, <1>9, <1>10
<1> QED
  BY <1>11 DEF OrderInv, Ascends

\* An append of more than a buffer, that of which the write came up short included
LEMMA LargeOrdered ==
    ASSUME FileInv, OrderInv, NEW n \in Lengths, AppendLarge(n) \/ AppendLargeAborts(n)
    PROVE  OrderInv'
<1>1. /\ n \in Nat /\ total + n <= MaxBytes /\ pos + n >= KBufferSize /\ n - Room >= KBufferSize
      /\ pos' = 0 /\ total' = total + n
  BY DEF AppendLarge, AppendLargeAborts
<1>2. /\ TypeOK /\ total \in Nat /\ total + n \in Nat /\ Room \in Nat /\ Room + 1 \in 1 .. n
      /\ total + Room \in Nat /\ total + Room <= total + n
  BY <1>1 DEF FileInv, TypeOK, Bytes, Room
<1>3. PICK mid \in 0 .. total : Ascends(file, 0, mid) /\ Ascends(SubSeq(buf, 1, pos), mid, total)
  BY DEF OrderInv
<1>4. mid \in Nat /\ mid <= total + Room /\ 0 <= mid /\ 0 <= total + Room /\ 0 \in Nat
  BY <1>2
<1>5. Filled \in Seq(Bytes) /\ Ascends(Filled, mid, total + Room)
  BY <1>1, <1>2, <1>3, FilledAscends
<1> DEFINE d == Data(Room + 1, n)
<1>6. /\ d \in Seq(Bytes) /\ Len(d) = n - Room
      /\ \A i \in 1 .. Len(d) : d[i] = (total + Room) + i
  <2>1. n - (Room + 1) + 1 = n - Room /\ \A i \in Int : total + (Room + 1) - 1 + i = (total + Room) + i
    BY ONLY <1>1, <1>2
  <2>2. /\ d \in Seq(Bytes) /\ Len(d) = n - (Room + 1) + 1
        /\ \A i \in 1 .. n - (Room + 1) + 1 : d[i] = total + (Room + 1) - 1 + i
    BY <1>1, <1>2, DataType
  <2> QED
    BY ONLY <2>1, <2>2
<1> HIDE DEF d
<1>7. Ascends(d, total + Room, total + n)
  <2>1. (total + Room) + Len(d) <= total + n
    BY <1>1, <1>2, <1>6
  <2> QED
    BY <1>2, <1>6, <2>1, AscendRun
<1>8. Ascends(file', 0, total + n)
  <2>1. CASE AppendLarge(n)
    <3>1. WrittenThen(Filled, d)
      BY <2>1 DEF AppendLarge, d
    <3> QED
      BY <1>2, <1>3, <1>4, <1>5, <1>6, <1>7, <3>1, WriteAscends
  <2>2. CASE AppendLargeAborts(n)
    <3>1. PICK k \in 0 .. n - Room - 1 : file' = file \o Filled \o SubSeq(d, 1, k)
      BY <2>2 DEF AppendLargeAborts, d
    <3>2. k \in 0 .. Len(d)
      BY <1>1, <1>2, <1>6
    <3>3. SubSeq(d, 1, k) \in Seq(Bytes) /\ Ascends(SubSeq(d, 1, k), total + Room, total + n)
      BY <1>6, <1>7, <3>2, AscendFront
    <3>4. file \in Seq(Bytes)
      BY <1>2 DEF TypeOK
    <3>5. file \o Filled \in Seq(Bytes)
      BY <1>5, <3>4, Concat
    <3>6. Ascends(file \o Filled, 0, total + Room)
      BY <1>2, <1>3, <1>4, <1>5, <3>4, AscendJoin
    <3> QED
      BY <1>2, <1>4, <3>1, <3>3, <3>5, <3>6, AscendJoin
  <2> QED
    BY <2>1, <2>2
<1> QED
  BY <1>1, <1>2, <1>8, EmptyOrdered

LEMMA FlushOrdered ==
    ASSUME FileInv, OrderInv, FlushBuffer, pos' = 0, total' = total
    PROVE  OrderInv'
<1>1. TypeOK /\ total \in Nat /\ pos \in Nat
  BY DEF FileInv, TypeOK, Bytes
<1>2. PICK mid \in 0 .. total : Ascends(file, 0, mid) /\ Ascends(SubSeq(buf, 1, pos), mid, total)
  BY DEF OrderInv
<1> DEFINE s == SubSeq(buf, 1, pos)
<1>3. s \in Seq(Bytes) /\ Len(s) = pos /\ Ascends(s, mid, total)
  BY <1>1, <1>2, Buffer
<1>4. CASE pos > 0
  <2>1. WrittenThen(s, <<>>)
    BY <1>4 DEF FlushBuffer, Written
  <2>2. mid \in Nat /\ mid <= total /\ total <= total
    BY <1>1
  <2> HIDE DEF s
  <2>3. Ascends(file', 0, total)
    BY <1>1, <1>2, <1>3, <2>1, <2>2, AscendNone, WriteAscends
  <2> QED
    BY <1>1, <2>3, EmptyOrdered
<1>5. CASE pos = 0
  <2>1. file' = file
    BY <1>5 DEF FlushBuffer
  <2>2. \A i \in DOMAIN file : file[i] \in Nat
    BY <1>1 DEF TypeOK, Bytes
  <2>3. Ascends(file', 0, total)
    BY <1>1, <1>2, <2>1, <2>2 DEF Ascends
  <2> QED
    BY <1>1, <2>3, EmptyOrdered
<1> QED
  BY <1>1, <1>4, <1>5

LEMMA CallOrdered ==
    ASSUME FileInv, OrderInv, NEW c, CloseOrFlush(c), UNCHANGED <<total, buf>>
    PROVE  OrderInv'
<1>1. CASE pos > 0
  BY <1>1, FlushOrdered DEF CloseOrFlush
<1>2. CASE ~(pos > 0)
  <2>1. UNCHANGED <<file, pos>>
    BY <1>2 DEF CloseOrFlush
  <2> QED
    BY <2>1 DEF OrderInv, Ascends
<1> QED
  BY <1>1, <1>2

LEMMA InitOrdered == Init => OrderInv
<1> SUFFICES ASSUME Init PROVE OrderInv
  OBVIOUS
<1>1. file = <<>> /\ total = 0 /\ SubSeq(buf, 1, pos) = <<>>
  BY DEF Init
<1>2. /\ 0 \in 0 .. total
      /\ Ascends(file, 0, 0) /\ Ascends(SubSeq(buf, 1, pos), 0, total)
  <2>1. Ascends(<<>>, 0, 0) /\ Ascends(<<>>, 0, total)
    BY AscendNone
  <2>2. 0 \in 0 .. total
    BY <1>1
  <2> QED
    BY <1>1, <2>1, <2>2, Zenon
<1>3. \E mid \in 0 .. total : Ascends(file, 0, mid) /\ Ascends(SubSeq(buf, 1, pos), mid, total)
  BY <1>2, Zenon
<1> QED
  BY <1>3 DEF OrderInv

\* No byte comes twice or before an earlier one, in the file and then the buffer, whichever
\* writes were short (FileWriter::append, FileWriter::flush).
THEOREM BytesAscend == Spec => []BytesInOrder
<1>1. FileInv /\ FileInv' /\ OrderInv /\ [Next]_vars => OrderInv'
  <2> SUFFICES ASSUME FileInv, FileInv', OrderInv, [Next]_vars PROVE OrderInv'
    OBVIOUS
  <2>1. ASSUME NEW n \in Lengths,
               AppendBuffered(n) \/ AppendFull(n) \/ AppendLarge(n) \/ AppendLargeAborts(n)
        PROVE  OrderInv'
    BY <2>1, BufferedOrdered, FullOrdered, LargeOrdered
  <2>2. CASE Flush \/ Sync
    BY <2>2, FlushOrdered DEF Flush, Sync
  <2>3. CASE Close
    BY <2>3, CallOrdered DEF Close
  <2>4. CASE Destroy
    <3>1. CASE closed
      <4>1. UNCHANGED <<file, pos, buf, total>>
        BY <2>4, <3>1 DEF Destroy
      <4> QED
        BY <4>1 DEF OrderInv, Ascends
    <3>2. CASE ~closed
      BY <2>4, <3>2, CallOrdered DEF Destroy
    <3> QED
      BY <3>1, <3>2
  <2>5. CASE UNCHANGED vars
    BY <2>5 DEF OrderInv, Ascends, vars
  <2> QED
    BY <2>1, <2>2, <2>3, <2>4, <2>5 DEF Next
<1>2. FileInv /\ OrderInv => BytesInOrder
  <2> SUFFICES ASSUME FileInv, OrderInv PROVE BytesInOrder
    OBVIOUS
  <2>1. TypeOK /\ file \in Seq(Bytes) /\ total \in Nat
    BY DEF FileInv, TypeOK, Bytes
  <2>2. PICK mid \in 0 .. total : Ascends(file, 0, mid) /\ Ascends(SubSeq(buf, 1, pos), mid, total)
    BY DEF OrderInv
  <2>3. SubSeq(buf, 1, pos) \in Seq(Bytes) /\ mid \in Nat /\ mid <= total /\ 0 \in Nat /\ 0 <= mid
    BY <2>1, Buffer
  <2>4. Ascends(Content, 0, total)
    BY <2>1, <2>2, <2>3, AscendJoin DEF Content
  <2> QED
    BY <2>4 DEF Ascends, BytesInOrder
<1> QED
  BY FileInvariant, InitOrdered, <1>1, <1>2, PTL DEF Spec
=============================================================================
