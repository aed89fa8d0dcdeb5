--------------- MODULE DynamicByteArrayInputStreamProofs ---------------
(***************************************************************************)
(* Proofs about the reassembled stream: for any capacity and any number of *)
(* bytes, no byte is lost, repeated or reordered between the picker thread *)
(* that appends and the user's thread that reads, the end of a part never  *)
(* comes before its bytes, and no reader sleeps through a wakeup.          *)
(***************************************************************************)
EXTENDS DynamicByteArrayInputStream, TLAPS

-----------------------------------------------------------------------------
(* Runs of consecutive bytes *)

\* s holds the bytes that follow the first b bytes of the stream.
From(s, b) == s \in Seq(Nat) /\ \A i \in 1..Len(s) : s[i] = b + i

\* Two runs one behind the other are a run.
LEMMA FromConcat ==
    ASSUME NEW s, NEW t, NEW b \in Int, From(s, b), From(t, b + Len(s))
    PROVE  From(s \o t, b) /\ Len(s \o t) = Len(s) + Len(t)
<1>1. s \in Seq(Nat) /\ t \in Seq(Nat) /\ Len(s) \in Nat /\ Len(t) \in Nat
  BY DEF From
<1>2. s \o t \in Seq(Nat) /\ Len(s \o t) = Len(s) + Len(t)
  BY <1>1
<1>3. ASSUME NEW i \in 1..Len(s \o t) PROVE (s \o t)[i] = b + i
  <2>1. CASE i <= Len(s)
    BY <1>1, <1>2, <2>1 DEF From
  <2>2. CASE i > Len(s)
    <3>1. i - Len(s) \in 1..Len(t) /\ (s \o t)[i] = t[i - Len(s)]
      BY <1>1, <1>2, <2>2
    <3>2. t[i - Len(s)] = b + Len(s) + (i - Len(s))
      BY <3>1 DEF From
    <3> QED
      BY <1>1, <3>1, <3>2
  <2> QED
    BY <1>1, <1>2, <2>1, <2>2
<1> QED
  BY <1>2, <1>3 DEF From

\* A part of a run is a run.
LEMMA FromSub ==
    ASSUME NEW s, NEW b \in Int, From(s, b), NEW p \in Int, NEW q \in Int,
           0 <= p, p <= q, q <= Len(s)
    PROVE  From(SubSeq(s, p + 1, q), b + p) /\ Len(SubSeq(s, p + 1, q)) = q - p
<1>1. s \in Seq(Nat) /\ Len(s) \in Nat
  BY DEF From
<1>2. /\ SubSeq(s, p + 1, q) \in Seq(Nat)
      /\ Len(SubSeq(s, p + 1, q)) = q - p
      /\ \A i \in 1..(q - p) : SubSeq(s, p + 1, q)[i] = s[p + i]
  BY <1>1
<1>3. \A i \in 1..(q - p) : s[p + i] = b + (p + i)
  BY <1>1 DEF From
<1> QED
  BY <1>2, <1>3 DEF From

\* So is its beginning.
LEMMA FromPrefix ==
    ASSUME NEW s, From(s, 0), NEW q \in Nat, q <= Len(s)
    PROVE  From(SubSeq(s, 1, q), 0) /\ Len(SubSeq(s, 1, q)) = q
<1>1. s \in Seq(Nat) /\ Len(s) \in Nat
  BY DEF From
<1>2. /\ SubSeq(s, 1, q) \in Seq(Nat) /\ Len(SubSeq(s, 1, q)) = q
      /\ \A i \in 1..q : SubSeq(s, 1, q)[i] = s[i]
  BY <1>1
<1> QED
  BY <1>1, <1>2 DEF From

\* Nothing is left behind the end of the buffer.
LEMMA NothingLeft ==
    ASSUME NEW s \in Seq(Nat), NEW p \in Int, p >= Len(s)
    PROVE  SubSeq(s, p + 1, Len(s)) = <<>>
OBVIOUS

\* The empty run starts anywhere.
LEMMA EmptyFrom == ASSUME NEW b \in Int PROVE From(<<>>, b)
BY DEF From

\* The numbers up to n are the run from the start ...
LEMMA FromNumbers ==
    ASSUME NEW n \in Nat
    PROVE  From(Numbers(n), 0) /\ Len(Numbers(n)) = n
BY DEF From, Numbers

\* ... and the only one of its length.
LEMMA FromIsNumbers ==
    ASSUME NEW s, From(s, 0)
    PROVE  s = Numbers(Len(s))
BY DEF From, Numbers

\* append() is given the bytes that come next.
LEMMA FromNewBytes ==
    ASSUME written \in Nat, NEW n \in Nat
    PROVE  From(NewBytes(n), written) /\ Len(NewBytes(n)) = n
BY DEF From, NewBytes

\* moveForwardMarks subtracts from every mark ...
LEMMA Moved ==
    ASSUME NEW marks \in Seq(Int), NEW n \in Int
    PROVE  /\ moveForwardMarks(marks, n) \in Seq(Int)
           /\ Len(moveForwardMarks(marks, n)) = Len(marks)
           /\ \A i \in 1..Len(marks) : moveForwardMarks(marks, n)[i] = marks[i] - n
BY DEF moveForwardMarks

\* ... and so when the first mark was dropped.
LEMMA MovedTail ==
    ASSUME NEW marks \in Seq(Int), marks # <<>>, NEW n \in Int
    PROVE  /\ moveForwardMarks(Tail(marks), n) \in Seq(Int)
           /\ Len(moveForwardMarks(Tail(marks), n)) = Len(marks) - 1
           /\ \A i \in 1..(Len(marks) - 1) :
                 moveForwardMarks(Tail(marks), n)[i] = marks[i + 1] - n
<1>1. /\ Tail(marks) \in Seq(Int) /\ Len(Tail(marks)) = Len(marks) - 1
      /\ \A i \in 1..(Len(marks) - 1) : Tail(marks)[i] = marks[i + 1]
  OBVIOUS
<1>2. /\ moveForwardMarks(Tail(marks), n) \in Seq(Int)
      /\ Len(moveForwardMarks(Tail(marks), n)) = Len(Tail(marks))
      /\ \A i \in 1..Len(Tail(marks)) :
            moveForwardMarks(Tail(marks), n)[i] = Tail(marks)[i] - n
  BY <1>1, Moved, Zenon
<1> QED
  BY <1>1, <1>2

\* The first of the marks.
LEMMA FirstMark ==
    ASSUME NEW marks \in Seq(Int)
    PROVE  /\ marks = <<>> <=> Len(marks) = 0
           /\ marks # <<>> => Head(marks) = marks[1] /\ Head(marks) \in Int /\ 1 \in 1..Len(marks)
OBVIOUS

\* One element more at the end of a sequence.
LEMMA Appended ==
    ASSUME NEW s \in Seq(Int), NEW e \in Int
    PROVE  /\ Append(s, e) \in Seq(Int)
           /\ Len(Append(s, e)) = Len(s) + 1
           /\ \A i \in 1..Len(s) : Append(s, e)[i] = s[i]
           /\ Append(s, e)[Len(s) + 1] = e
           /\ Append(s, e) # <<>>
OBVIOUS
-----------------------------------------------------------------------------
(***************************************************************************)
(* The inductive invariant.  The buffer holds the last bytes that were     *)
(* appended.  Without marks the current part reaches to the end of the     *)
(* buffer, and with marks at least to the first of them.  The reader whose *)
(* marks were good was given every byte before its cursor, and the marks   *)
(* that are left are the ends it was not told of.  The part ends behind    *)
(* the cursor unless count was moved below 0 with the marks.               *)
(***************************************************************************)
Base == written - bufferSize

Typed ==
    /\ buf \in Seq(Nat) /\ got \in Seq(Nat)
    /\ newInputStreamMarks \in Seq(Int) /\ writtenEnds \in Seq(Int) /\ gotEnds \in Seq(Int)
    /\ pos \in Int /\ count \in Int /\ written \in Nat /\ gotMark \in Nat
    /\ markedPos \in -1..MaxBytes
    /\ strayed \in BOOLEAN /\ failed \in BOOLEAN

Held ==
    /\ written <= MaxBytes /\ bufferSize <= MAX_BUFFER_SIZE
    /\ Base >= 0 /\ From(buf, Base)

Parted ==
    /\ count <= bufferSize
    /\ newInputStreamMarks = <<>> => count = bufferSize
    /\ newInputStreamMarks # <<>> => Head(newInputStreamMarks) <= count
    /\ \A i \in 1..Len(newInputStreamMarks) : newInputStreamMarks[i] <= bufferSize

Following == ~ strayed /\ ~ failed

Followed ==
    /\ ~ failed => pos \in 0..MaxBytes
    /\ gotMark <= Len(got)
    /\ Following => /\ pos <= bufferSize
                    /\ pos <= count \/ count < 0
                    /\ Len(got) = Base + pos /\ From(got, 0)

Ended ==
    Following =>
        /\ Len(gotEnds) + Len(newInputStreamMarks) = Len(writtenEnds)
        /\ \A j \in 1..Len(newInputStreamMarks) :
              writtenEnds[Len(gotEnds) + j] = Base + newInputStreamMarks[j]
        /\ \A i \in 1..Len(gotEnds) : gotEnds[i] >= writtenEnds[i]

Core == Typed /\ Held /\ Parted /\ Followed /\ Ended

Sizes == bufferSize \in Nat /\ Len(got) \in Nat /\ Len(newInputStreamMarks) \in Nat
            /\ Len(writtenEnds) \in Nat /\ Len(gotEnds) \in Nat /\ Base \in Int

\* Lengths are natural numbers.
LEMMA SizesNat == Typed => Sizes
BY DEF Typed, Sizes, Base, bufferSize

\* So are the bounds.
LEMMA BoundsNat ==
    /\ MAX_BUFFER_SIZE \in Nat /\ MaxBytes \in Nat /\ MaxLen \in Nat
    /\ MaxLen <= MAX_BUFFER_SIZE
BY StreamAssumption

\* A new stream is in order.
LEMMA InitCore == Init => Core
<1> SUFFICES ASSUME Init PROVE Core
  OBVIOUS
<1>1. Typed
  <2>1. strayed \in BOOLEAN /\ failed \in BOOLEAN
    BY DEF Init
  <2>2. /\ buf \in Seq(Nat) /\ got \in Seq(Nat)
        /\ newInputStreamMarks \in Seq(Int) /\ writtenEnds \in Seq(Int) /\ gotEnds \in Seq(Int)
    BY DEF Init
  <2>3. /\ pos \in Int /\ count \in Int /\ written \in Nat /\ gotMark \in Nat
        /\ markedPos \in -1..MaxBytes
    BY BoundsNat DEF Init
  <2> QED
    BY <2>1, <2>2, <2>3 DEF Typed
<1>2. From(buf, 0) /\ From(got, 0) /\ bufferSize = 0 /\ Base = 0
  <2>1. buf = <<>> /\ got = <<>> /\ written = 0
    BY DEF Init
  <2>2. Len(buf) = 0 /\ From(buf, 0) /\ From(got, 0)
    BY <2>1, EmptyFrom
  <2>3. bufferSize = 0
    BY <2>2 DEF bufferSize
  <2> QED
    BY <2>1, <2>2, <2>3 DEF Base
<1> QED
  BY <1>1, <1>2, BoundsNat DEF Init, Core, Held, Parted, Followed, Ended, Following

\* Nothing that Core speaks of changes.
LEMMA StillCore ==
    ASSUME Core, UNCHANGED <<content, markedPos, input, output, gotMark, strayed, failed>>
    PROVE  Core'
BY DEF Core, content, input, output, Typed, Held, Base, bufferSize, Parted, Following,
   Followed, Ended, From
-----------------------------------------------------------------------------
(* The writer *)

\* What both ways of appending n bytes do: the first p bytes are dropped from
\* the buffer, rest bytes stay, and the new bytes are put behind them.
Appends(n, p, rest) ==
    /\ From(buf', written - rest)
    /\ bufferSize' = rest + n /\ bufferSize' <= MAX_BUFFER_SIZE
    /\ pos' = pos - p
    /\ newInputStreamMarks' \in Seq(Int)
    /\ Len(newInputStreamMarks') = Len(newInputStreamMarks)
    /\ \A i \in 1..Len(newInputStreamMarks) :
          newInputStreamMarks'[i] = newInputStreamMarks[i] - p
    /\ count' = IF count - p = 0 \/ newInputStreamMarks = <<>> THEN rest + n ELSE count - p

\* append() drops nothing while a mark has to be kept.
LEMMA AppendOnlyShape ==
    ASSUME Core, NEW n \in Nat, appendOnly(n)
    PROVE  Appends(n, 0, bufferSize)
<1>1. Sizes /\ written \in Nat /\ count \in Int /\ newInputStreamMarks \in Seq(Int)
  BY SizesNat DEF Core, Typed
<1>2. From(NewBytes(n), written) /\ Len(NewBytes(n)) = n
  BY <1>1, FromNewBytes
<1>3. From(buf, written - Len(buf)) /\ written - Len(buf) \in Int /\ written - Len(buf) + Len(buf) = written
  BY <1>1 DEF Core, Held, Base, bufferSize, Sizes
<1>4. From(buf \o NewBytes(n), written - Len(buf)) /\ Len(buf \o NewBytes(n)) = Len(buf) + n
  BY <1>2, <1>3, FromConcat
<1>5. buf' = buf \o NewBytes(n) /\ Len(buf) + n <= MAX_BUFFER_SIZE
  BY DEF appendOnly, bufferSize
<1>6. From(buf', written - Len(buf)) /\ Len(buf') = Len(buf) + n
  BY <1>4, <1>5
<1>7. /\ UNCHANGED <<pos, newInputStreamMarks>>
      /\ count' = IF count = 0 \/ newInputStreamMarks = <<>> THEN bufferSize + n ELSE count
  BY DEF appendOnly
<1> QED
  BY <1>1, <1>5, <1>6, <1>7 DEF Appends, bufferSize, Core, Typed

\* Otherwise it drops what was read.
LEMMA AppendAndShrinkShape ==
    ASSUME Core, pos \in Nat, NEW n \in Nat, n <= MaxLen, appendAndShrink(n)
    PROVE  \E rest \in Nat : /\ Appends(n, pos, rest)
                             /\ pos <= bufferSize => rest = bufferSize - pos
                             /\ pos > bufferSize => rest = 0
<1> DEFINE r == SubSeq(buf, pos + 1, bufferSize)
<1>1. Sizes /\ written \in Nat /\ count \in Int /\ newInputStreamMarks \in Seq(Int)
        /\ buf \in Seq(Nat)
  BY SizesNat DEF Core, Typed
<1>2. From(NewBytes(n), written) /\ Len(NewBytes(n)) = n
  BY <1>1, FromNewBytes
<1>3. /\ From(r, written - Len(r)) /\ Len(r) \in Nat
      /\ pos <= bufferSize => Len(r) = bufferSize - pos
      /\ pos > bufferSize => Len(r) = 0
  <2>1. CASE pos <= bufferSize
    <3>1. From(r, Base + pos) /\ Len(r) = bufferSize - pos
      BY <1>1, <2>1, FromSub DEF Core, Held, bufferSize, Sizes
    <3>2. Base + pos = written - (bufferSize - pos)
      BY <1>1 DEF Base, Sizes
    <3> HIDE DEF r
    <3>3. From(r, written - Len(r))
      BY <3>1, <3>2
    <3> QED
      BY <1>1, <2>1, <3>1, <3>3 DEF Sizes
  <2>2. CASE pos > bufferSize
    <3>1. r = <<>>
      BY <1>1, <2>2, NothingLeft DEF bufferSize, Sizes
    <3> HIDE DEF r
    <3>2. Len(r) = 0
      BY <3>1
    <3>3. From(r, written)
      BY <1>1, <3>1, EmptyFrom
    <3>4. written - Len(r) = written
      BY <1>1, <3>2
    <3> QED
      BY <1>1, <2>2, <3>2, <3>3, <3>4 DEF Sizes
  <2> QED
    BY <1>1, <2>1, <2>2 DEF Sizes
<1>4. /\ buf' = r \o NewBytes(n) /\ bufferSize - pos + n <= MAX_BUFFER_SIZE
      /\ pos' = 0
      /\ newInputStreamMarks' = moveForwardMarks(newInputStreamMarks, pos)
      /\ count' = IF count - pos = 0 \/ newInputStreamMarks = <<>> THEN Len(r) + n ELSE count - pos
  BY DEF appendAndShrink
<1> HIDE DEF r
<1>5. From(buf', written - Len(r)) /\ Len(buf') = Len(r) + n
  <2>1. written - Len(r) \in Int /\ written - Len(r) + Len(r) = written
    BY <1>1, <1>3
  <2> QED
    BY <1>2, <1>3, <1>4, <2>1, FromConcat
<1>6. bufferSize' <= MAX_BUFFER_SIZE
  BY <1>1, <1>3, <1>4, <1>5, BoundsNat DEF bufferSize, Sizes
<1>7. /\ newInputStreamMarks' \in Seq(Int)
      /\ Len(newInputStreamMarks') = Len(newInputStreamMarks)
      /\ \A i \in 1..Len(newInputStreamMarks) :
            newInputStreamMarks'[i] = newInputStreamMarks[i] - pos
  BY <1>1, <1>4, Moved
<1>8. Appends(n, pos, Len(r))
  BY <1>1, <1>4, <1>5, <1>6, <1>7 DEF Appends, bufferSize
<1> QED
  BY <1>3, <1>8

\* Either keeps the stream in order ...
LEMMA AppendsCore ==
    ASSUME Core, ~ failed, UNCHANGED failed, NEW n \in Nat, n > 0,
           NEW p \in Nat, NEW rest \in Nat, Appends(n, p, rest),
           p \in {0, pos},
           p <= bufferSize => rest = bufferSize - p, p > bufferSize => rest = 0,
           written' = written + n, written' <= MaxBytes,
           UNCHANGED <<markedPos, gotMark, strayed, got, gotEnds, writtenEnds>>
    PROVE  Core'
<1>1. Sizes /\ pos \in Nat /\ written \in Nat /\ count \in Int /\ newInputStreamMarks \in Seq(Int)
  BY SizesNat DEF Core, Typed, Followed
<1>2. count' \in Int /\ pos' \in Nat /\ pos' <= pos
  BY <1>1 DEF Appends
<1>3. Typed'
  BY <1>1, <1>2 DEF Core, Typed, Appends, From
<1>4. Base' = written - rest /\ Sizes'
  BY <1>1, <1>3, SizesNat DEF Base, Appends, Sizes
<1>5. Held'
  BY <1>1, <1>4 DEF Core, Held, Appends, Base, Sizes
<1>6. Parted'
  <2>1. newInputStreamMarks' = <<>> <=> newInputStreamMarks = <<>>
    BY <1>1, FirstMark DEF Appends
  <2>2. newInputStreamMarks # <<>> =>
            Head(newInputStreamMarks') = Head(newInputStreamMarks) - p
    BY <1>1, <2>1, FirstMark DEF Appends
  <2>3. count' <= bufferSize'
    BY <1>1 DEF Appends, Core, Parted, Sizes
  <2>4. newInputStreamMarks = <<>> => count' = bufferSize'
    BY DEF Appends
  <2>5. newInputStreamMarks # <<>> => Head(newInputStreamMarks) - p <= count'
    BY <1>1, FirstMark DEF Appends, Core, Parted, Sizes
  <2>6. ASSUME NEW i \in 1..Len(newInputStreamMarks)
        PROVE  newInputStreamMarks[i] - p <= bufferSize'
    BY <1>1 DEF Appends, Core, Parted, Sizes
  <2> QED
    BY <2>1, <2>2, <2>3, <2>4, <2>5, <2>6 DEF Parted, Appends
<1>7. Followed'
  <2>1. pos' \in 0..MaxBytes
    BY <1>1, <1>2, BoundsNat DEF Core, Followed
  <2>2. (gotMark <= Len(got))'
    BY DEF Core, Followed
  <2>3. ASSUME ~ strayed
        PROVE  /\ pos' <= bufferSize' /\ (pos' <= count' \/ count' < 0)
               /\ Len(got') = Base' + pos' /\ From(got', 0)
    <3>1. /\ pos <= bufferSize /\ (pos <= count \/ count < 0)
          /\ Len(got) = Base + pos /\ From(got, 0)
      BY <2>3 DEF Core, Followed, Following
    <3>2. rest = bufferSize - p
      BY <1>1, <3>1 DEF Sizes
    <3>3. pos' <= bufferSize' /\ (pos' <= count' \/ count' < 0)
      BY <1>1, <3>1, <3>2 DEF Appends, Sizes
    <3>4. Base' + pos' = Base + pos
      BY <1>1, <1>4, <3>2 DEF Appends, Base, Sizes
    <3> QED
      BY <3>1, <3>3, <3>4
  <2> QED
    BY <2>1, <2>2, <2>3 DEF Followed, Following
<1>8. Ended'
  <2> SUFFICES ASSUME ~ strayed, ~ failed'
               PROVE  /\ Len(gotEnds) + Len(newInputStreamMarks) = Len(writtenEnds)
                      /\ \A j \in 1..Len(newInputStreamMarks) :
                            writtenEnds[Len(gotEnds) + j] = Base' + newInputStreamMarks'[j]
                      /\ \A i \in 1..Len(gotEnds) : gotEnds[i] >= writtenEnds[i]
    BY DEF Ended, Following, Appends
  <2>1. pos <= bufferSize
    BY DEF Core, Followed, Following
  <2>2. rest = bufferSize - p
    BY <1>1, <2>1 DEF Sizes
  <2>3. Base' = Base + p
    <3>1. written - rest = Base + p
      BY <1>1, <2>2 DEF Base, Sizes
    <3> QED
      BY <1>4, <3>1
  <2>4. ASSUME NEW j \in 1..Len(newInputStreamMarks)
        PROVE  Base' + newInputStreamMarks'[j] = Base + newInputStreamMarks[j]
    BY <1>1, <2>3 DEF Appends, Sizes
  <2> QED
    BY <2>4 DEF Core, Ended, Following
<1> QED
  BY <1>3, <1>5, <1>6, <1>7, <1>8 DEF Core

\* ... and so does append().
LEMMA AppendCore ==
    ASSUME Core, ~ failed, NEW n \in 1..MaxLen, append(n), UNCHANGED failed
    PROVE  Core'
<1>1. Sizes /\ n \in Nat /\ n <= MaxLen /\ n > 0 /\ pos \in Nat
  BY SizesNat, BoundsNat DEF Core, Followed
<1>2. /\ written' = written + n /\ written' <= MaxBytes
      /\ UNCHANGED <<markedPos, gotMark, strayed, got, gotEnds, writtenEnds>>
  BY DEF append, marker, output
<1>3. CASE keepsMark
  <2>1. appendOnly(n)
    BY <1>3 DEF append
  <2> QED
    BY <1>1, <1>2, <2>1, AppendOnlyShape, AppendsCore DEF Sizes
<1>4. CASE ~ keepsMark
  <2>1. appendAndShrink(n)
    BY <1>4 DEF append
  <2> QED
    BY <1>1, <1>2, <2>1, AppendAndShrinkShape, AppendsCore DEF Sizes
<1> QED
  BY <1>3, <1>4

\* An end of part is marked, or not because it is marked already.
LEMMA FinishCore ==
    ASSUME Core, addMarkPos,
           UNCHANGED <<buf, pos, count, markedPos, written, output, gotMark, strayed, failed>>
    PROVE  Core'
<1>1. CASE ~ addsMarkPos
  BY <1>1, StillCore DEF addMarkPos, content, input
<1>2. CASE addsMarkPos
  <2>1. /\ newInputStreamMarks' = Append(newInputStreamMarks, bufferSize)
        /\ writtenEnds' = Append(writtenEnds, written)
        /\ UNCHANGED <<buf, pos, count, markedPos, written, got, gotEnds, gotMark, strayed, failed>>
        /\ UNCHANGED bufferSize
    BY <1>2 DEF addMarkPos, output, bufferSize
  <2>2. Sizes /\ newInputStreamMarks \in Seq(Int) /\ writtenEnds \in Seq(Int) /\ written \in Nat
    BY SizesNat DEF Core, Typed
  <2>3. /\ newInputStreamMarks' \in Seq(Int) /\ newInputStreamMarks' # <<>>
        /\ Len(newInputStreamMarks') = Len(newInputStreamMarks) + 1
        /\ \A i \in 1..Len(newInputStreamMarks) : newInputStreamMarks'[i] = newInputStreamMarks[i]
        /\ newInputStreamMarks'[Len(newInputStreamMarks) + 1] = bufferSize
    <3>1. bufferSize \in Int
      BY <2>2 DEF Sizes
    <3> QED
      BY <2>1, <2>2, <3>1, Appended
  <2>4. /\ writtenEnds' \in Seq(Int) /\ Len(writtenEnds') = Len(writtenEnds) + 1
        /\ \A i \in 1..Len(writtenEnds) : writtenEnds'[i] = writtenEnds[i]
        /\ writtenEnds'[Len(writtenEnds) + 1] = written
    BY <2>1, <2>2, Appended
  <2>5. Typed'
    BY <2>1, <2>3, <2>4 DEF Core, Typed
  <2>6. Base' = Base /\ written = Base + bufferSize
    BY <2>1, <2>2 DEF Base, Sizes
  <2>7. Held'
    BY <2>1, <2>6 DEF Core, Held
  <2>8. Parted'
    <3>1. Head(newInputStreamMarks') <= count
      BY <2>2, <2>3, FirstMark DEF Core, Parted, Typed, Sizes
    <3>2. ASSUME NEW i \in 1..Len(newInputStreamMarks') PROVE newInputStreamMarks'[i] <= bufferSize
      <4>1. CASE i = Len(newInputStreamMarks) + 1
        BY <2>2, <2>3, <4>1 DEF Sizes
      <4>2. CASE i \in 1..Len(newInputStreamMarks)
        BY <2>3, <4>2 DEF Core, Parted
      <4> QED
        BY <2>2, <2>3, <4>1, <4>2 DEF Sizes
    <3> QED
      BY <2>1, <2>3, <3>1, <3>2 DEF Core, Parted
  <2>9. Followed'
    BY <2>1, <2>6 DEF Core, Followed, Following
  <2>10. Ended'
    <3>0. strayed' = strayed /\ failed' = failed
      BY <2>1
    <3> SUFFICES ASSUME Following
                 PROVE  /\ Len(gotEnds') + Len(newInputStreamMarks') = Len(writtenEnds')
                        /\ \A j \in 1..Len(newInputStreamMarks') :
                              writtenEnds'[Len(gotEnds') + j] = Base' + newInputStreamMarks'[j]
                        /\ \A i \in 1..Len(gotEnds') : gotEnds'[i] >= writtenEnds'[i]
      BY <3>0 DEF Ended, Following
    <3>1. /\ Len(gotEnds) + Len(newInputStreamMarks) = Len(writtenEnds)
          /\ \A j \in 1..Len(newInputStreamMarks) :
                writtenEnds[Len(gotEnds) + j] = Base + newInputStreamMarks[j]
          /\ \A i \in 1..Len(gotEnds) : gotEnds[i] >= writtenEnds[i]
      BY DEF Core, Ended
    <3>2. ASSUME NEW j \in 1..Len(newInputStreamMarks')
          PROVE  writtenEnds'[Len(gotEnds) + j] = Base + newInputStreamMarks'[j]
      <4>1. CASE j = Len(newInputStreamMarks) + 1
        BY <2>2, <2>3, <2>4, <2>6, <3>1, <4>1 DEF Sizes
      <4>2. CASE j \in 1..Len(newInputStreamMarks)
        <5>1. Len(gotEnds) + j \in 1..Len(writtenEnds)
          BY <2>2, <3>1, <4>2 DEF Sizes
        <5> QED
          BY <2>3, <2>4, <3>1, <4>2, <5>1
      <4> QED
        BY <2>2, <2>3, <4>1, <4>2 DEF Sizes
    <3>3. ASSUME NEW i \in 1..Len(gotEnds) PROVE gotEnds[i] >= writtenEnds'[i]
      <4>1. i \in 1..Len(writtenEnds)
        BY <2>2, <3>1 DEF Sizes
      <4> QED
        BY <2>4, <3>1, <4>1
    <3>4. Len(gotEnds) + Len(newInputStreamMarks') = Len(writtenEnds')
      <4>1. Len(newInputStreamMarks') = Len(newInputStreamMarks) + 1
        BY <2>3
      <4>2. Len(writtenEnds') = Len(writtenEnds) + 1
        BY <2>4
      <4>3. Len(gotEnds) + Len(newInputStreamMarks) = Len(writtenEnds)
        BY <3>1
      <4>4. Len(gotEnds) \in Nat /\ Len(newInputStreamMarks) \in Nat /\ Len(writtenEnds) \in Nat
        BY <2>2 DEF Sizes
      <4> QED
        BY <4>1, <4>2, <4>3, <4>4
    <3>5. gotEnds' = gotEnds /\ Base' = Base
      BY <2>1, <2>6
    <3> QED
      BY <3>2, <3>3, <3>4, <3>5
  <2> QED
    BY <2>5, <2>7, <2>8, <2>9, <2>10 DEF Core
<1> QED
  BY <1>1, <1>2

-----------------------------------------------------------------------------
(* The reader *)

\* The history of what the reader was given, up to cursor p.
GivenTo(p) ==
    /\ got' \in Seq(Nat) /\ gotMark <= Len(got')
    /\ strayed => got' = got
    /\ ~ strayed => From(got', 0) /\ Len(got') = Base + p

\* Giving the reader the bytes up to p extends what it was given.
LEMMA GiveUpTo ==
    ASSUME Core, ~ failed, NEW p \in Int, pos <= p, p <= bufferSize, NEW atEnd \in BOOLEAN,
           Give(SubSeq(buf, pos + 1, p), atEnd)
    PROVE  /\ GivenTo(p)
           /\ strayed => gotEnds' = gotEnds
           /\ ~ strayed => gotEnds' = IF atEnd THEN Append(gotEnds, Base + p) ELSE gotEnds
<1>1. Sizes /\ pos \in Nat /\ got \in Seq(Nat) /\ gotMark \in Nat /\ strayed \in BOOLEAN
  BY SizesNat DEF Core, Typed, Followed
<1>2. CASE strayed
  BY <1>1, <1>2 DEF Give, output, GivenTo, Core, Followed
<1>3. CASE ~ strayed
  <2> DEFINE r == SubSeq(buf, pos + 1, p)
  <2>1. From(r, Base + pos) /\ Len(r) = p - pos
    BY <1>1, FromSub DEF Core, Held, bufferSize, Sizes
  <2>2. /\ got' = got \o r
        /\ gotEnds' = IF atEnd THEN Append(gotEnds, Len(got \o r)) ELSE gotEnds
    BY <1>3 DEF Give
  <2>3. From(got, 0) /\ Len(got) = Base + pos /\ gotMark <= Len(got)
    BY <1>3 DEF Core, Followed, Following
  <2> HIDE DEF r
  <2>4. From(got \o r, 0) /\ Len(got \o r) = Len(got) + Len(r)
    <3>1. 0 + Len(got) = Base + pos
      BY <1>1, <2>3 DEF Sizes
    <3> QED
      BY <2>1, <2>3, <3>1, FromConcat
  <2>5. Len(got) + Len(r) = Base + p
    BY <1>1, <2>1, <2>3 DEF Sizes
  <2>6. gotMark <= Base + p
    BY <1>1, <2>3 DEF Sizes
  <2> QED
    BY <1>3, <2>2, <2>4, <2>5, <2>6 DEF GivenTo, From
<1> QED
  BY <1>2, <1>3

\* Bytes are read or skipped.
LEMMA AdvanceCore ==
    ASSUME Core, ~ failed, NEW m \in Nat, pos + m <= count,
           pos' = pos + m, Give(SubSeq(buf, pos + 1, pos + m), FALSE),
           UNCHANGED <<buf, count, newInputStreamMarks, markedPos, input, gotMark, strayed, failed>>
    PROVE  Core'
<1>1. Sizes /\ pos \in Nat /\ count \in Int /\ count <= bufferSize /\ written \in Nat
        /\ bufferSize <= MaxBytes
  BY SizesNat, BoundsNat DEF Core, Typed, Followed, Parted, Held, Base, Sizes
<1>2. GivenTo(pos + m) /\ gotEnds' = gotEnds
  <2>1. pos + m \in Int /\ pos <= pos + m /\ pos + m <= bufferSize
    BY <1>1 DEF Sizes
  <2>2. /\ GivenTo(pos + m)
        /\ strayed => gotEnds' = gotEnds
        /\ ~ strayed => gotEnds' = IF FALSE THEN Append(gotEnds, Base + (pos + m)) ELSE gotEnds
    BY <2>1, GiveUpTo
  <2> QED
    BY <2>2
<1>3. UNCHANGED <<bufferSize, Base, written, writtenEnds>>
  BY DEF bufferSize, Base, input
<1>4. Typed'
  BY <1>1, <1>2, <1>3 DEF Core, Typed, GivenTo
<1>5. Held' /\ Parted' /\ Ended'
  BY <1>2, <1>3 DEF Core, Held, Parted, Ended, Following
<1>6. Followed'
  BY <1>1, <1>2, <1>3, BoundsNat DEF Followed, Following, GivenTo, Sizes
<1> QED
  BY <1>4, <1>5, <1>6 DEF Core

\* The reader goes on to the next part, from cursor p.
LEMMA ShrinkCore ==
    ASSUME Core, ~ failed, newInputStreamMarks # <<>>,
           NEW p \in Int, 0 <= p, p <= bufferSize, Head(newInputStreamMarks) <= p,
           shrinkToNextInputStream(p), GivenTo(p),
           strayed => gotEnds' = gotEnds,
           ~ strayed => gotEnds' = Append(gotEnds, Base + p),
           UNCHANGED <<input, failed>>
    PROVE  Core'
<1>1. Sizes /\ newInputStreamMarks \in Seq(Int) /\ gotEnds \in Seq(Int) /\ written \in Nat
        /\ buf \in Seq(Nat) /\ strayed \in BOOLEAN
  BY SizesNat DEF Core, Typed
<1> DEFINE marks == moveForwardMarks(Tail(newInputStreamMarks), p)
<1>2. /\ buf' = SubSeq(buf, p + 1, bufferSize) /\ newInputStreamMarks' = marks
      /\ count' = IF marks # <<>> THEN Head(marks) ELSE bufferSize - p
      /\ pos' = 0 /\ markedPos' = -1
      /\ UNCHANGED <<gotMark, strayed, written, writtenEnds, failed>>
  BY DEF shrinkToNextInputStream, input
<1>3. /\ marks \in Seq(Int) /\ Len(marks) = Len(newInputStreamMarks) - 1
      /\ \A i \in 1..(Len(newInputStreamMarks) - 1) : marks[i] = newInputStreamMarks[i + 1] - p
  BY <1>1, MovedTail
<1> HIDE DEF marks
<1>4. From(buf', Base + p) /\ bufferSize' = bufferSize - p
  BY <1>1, <1>2, FromSub DEF Core, Held, bufferSize, Sizes
<1>5. Base' = Base + p /\ Base' >= 0
  <2>1. written - (bufferSize - p) = Base + p
    BY <1>1 DEF Base, Sizes
  <2>2. Base' = written - (bufferSize - p)
    BY <1>2, <1>4 DEF Base
  <2> QED
    BY <1>1, <2>1, <2>2 DEF Core, Held, Sizes
<1>6. /\ marks # <<>> => Head(marks) = marks[1] /\ Head(marks) \in Int /\ 1 \in 1..Len(marks)
      /\ count' \in Int
  <2>1. marks # <<>> => Head(marks) = marks[1] /\ Head(marks) \in Int /\ 1 \in 1..Len(marks)
    BY <1>3, FirstMark
  <2> QED
    BY <1>1, <1>2, <2>1 DEF Sizes
<1>7. ASSUME NEW i \in 1..Len(marks) PROVE marks[i] <= bufferSize'
  <2>1. i + 1 \in 1..Len(newInputStreamMarks) /\ marks[i] = newInputStreamMarks[i + 1] - p
    BY <1>1, <1>3 DEF Sizes
  <2>2. newInputStreamMarks[i + 1] <= bufferSize /\ newInputStreamMarks[i + 1] \in Int
    BY <1>1, <2>1 DEF Core, Parted
  <2> QED
    BY <1>1, <1>4, <2>1, <2>2 DEF Sizes
<1>8. gotEnds' \in Seq(Int)
  <2>1. Base + p \in Int
    BY <1>1 DEF Sizes
  <2> QED
    BY <1>1, <2>1, Appended
<1>9. Typed'
  BY <1>1, <1>2, <1>3, <1>4, <1>6, <1>8, BoundsNat DEF Core, Typed, GivenTo, From
<1>10. Held'
  BY <1>1, <1>2, <1>4, <1>5, BoundsNat DEF Core, Held, Sizes
<1>11. Parted'
  <2>1. marks # <<>> => count' = marks[1] /\ marks[1] <= bufferSize' /\ Head(marks) <= count'
    BY <1>2, <1>6, <1>7
  <2>2. marks = <<>> => count' = bufferSize'
    BY <1>2, <1>4
  <2>3. bufferSize' \in Int
    BY <1>1, <1>4 DEF Sizes
  <2> QED
    BY <1>2, <1>7, <2>1, <2>2, <2>3 DEF Parted
<1>12. Followed'
  <2>1. pos' \in 0..MaxBytes /\ pos' <= bufferSize' /\ (pos' <= count' \/ count' < 0)
    BY <1>1, <1>2, <1>4, <1>6, BoundsNat DEF Sizes
  <2>2. ~ strayed => Len(got') = Base' + pos' /\ From(got', 0)
    BY <1>1, <1>2, <1>5 DEF GivenTo, Sizes
  <2> QED
    BY <1>2, <2>1, <2>2 DEF Followed, Following, GivenTo
<1>13. Ended'
  <2> SUFFICES ASSUME ~ strayed
               PROVE  /\ Len(gotEnds') + Len(marks) = Len(writtenEnds)
                      /\ \A j \in 1..Len(marks) : writtenEnds[Len(gotEnds') + j] = Base' + marks[j]
                      /\ \A i \in 1..Len(gotEnds') : gotEnds'[i] >= writtenEnds[i]
    BY <1>2 DEF Ended, Following
  <2>1. /\ Len(gotEnds) + Len(newInputStreamMarks) = Len(writtenEnds)
        /\ \A j \in 1..Len(newInputStreamMarks) :
              writtenEnds[Len(gotEnds) + j] = Base + newInputStreamMarks[j]
        /\ \A i \in 1..Len(gotEnds) : gotEnds[i] >= writtenEnds[i]
    BY DEF Core, Ended, Following
  <2>2. /\ Len(gotEnds') = Len(gotEnds) + 1
        /\ \A i \in 1..Len(gotEnds) : gotEnds'[i] = gotEnds[i]
        /\ gotEnds'[Len(gotEnds) + 1] = Base + p
    <3>1. Base + p \in Int
      BY <1>1 DEF Sizes
    <3> QED
      BY <1>1, <3>1, Appended
  <2>3. 1 \in 1..Len(newInputStreamMarks) /\ newInputStreamMarks[1] <= p
          /\ newInputStreamMarks[1] \in Int
    BY <1>1, FirstMark
  <2>4. ASSUME NEW j \in 1..Len(marks) PROVE writtenEnds[Len(gotEnds') + j] = Base' + marks[j]
    <3>1. /\ j + 1 \in 1..Len(newInputStreamMarks)
          /\ marks[j] = newInputStreamMarks[j + 1] - p
          /\ newInputStreamMarks[j + 1] \in Int
      BY <1>1, <1>3 DEF Sizes
    <3>2. writtenEnds[Len(gotEnds) + (j + 1)] = Base + newInputStreamMarks[j + 1]
      BY <2>1, <3>1
    <3>3. Len(gotEnds') + j = Len(gotEnds) + (j + 1)
      BY <1>1, <1>3, <2>2 DEF Sizes
    <3>4. Base' + marks[j] = Base + newInputStreamMarks[j + 1]
      BY <1>1, <1>5, <3>1 DEF Sizes
    <3> QED
      BY <3>2, <3>3, <3>4
  <2>5. ASSUME NEW i \in 1..Len(gotEnds') PROVE gotEnds'[i] >= writtenEnds[i]
    <3>1. CASE i = Len(gotEnds) + 1
      BY <1>1, <2>1, <2>2, <2>3, <3>1 DEF Sizes
    <3>2. CASE i \in 1..Len(gotEnds)
      BY <2>1, <2>2, <3>2
    <3>3. Len(gotEnds) \in Nat
      BY <1>1 DEF Sizes
    <3> QED
      BY <2>2, <3>1, <3>2, <3>3
  <2>6. Len(gotEnds') + Len(marks) = Len(writtenEnds)
    <3>1. /\ Len(gotEnds) \in Nat /\ Len(newInputStreamMarks) \in Nat
          /\ Len(writtenEnds) \in Nat
      BY <1>1 DEF Sizes
    <3>2. Len(marks) = Len(newInputStreamMarks) - 1
      BY <1>3
    <3>3. Len(gotEnds) + Len(newInputStreamMarks) = Len(writtenEnds)
      BY <2>1
    <3>4. Len(gotEnds') = Len(gotEnds) + 1
      BY <2>2
    <3> QED
      BY <3>1, <3>2, <3>3, <3>4
  <2> QED
    BY <2>4, <2>5, <2>6
<1> QED
  BY <1>9, <1>10, <1>11, <1>12, <1>13 DEF Core

\* The end of a part is told.
LEMMA ReadEOFCore ==
    ASSUME Core, ~ failed, ReadEOF, UNCHANGED <<input, failed>>
    PROVE  Core'
<1>1. CASE ~ atMark
  BY <1>1, StillCore DEF ReadEOF, marker
<1>2. CASE atMark
  <2>1. Sizes /\ pos \in Nat /\ newInputStreamMarks \in Seq(Int) /\ gotEnds \in Seq(Int)
          /\ got \in Seq(Nat) /\ strayed \in BOOLEAN
    BY SizesNat DEF Core, Typed, Followed
  <2>2. /\ shrinkToNextInputStream(pos) /\ Give(<<>>, TRUE)
        /\ newInputStreamMarks # <<>> /\ Head(newInputStreamMarks) <= pos
        /\ pos <= bufferSize
    <3>1. newInputStreamMarks # <<>> /\ pos >= Head(newInputStreamMarks)
      BY <1>2 DEF atMark
    <3>2. shrinkToNextInputStream(pos) /\ Give(<<>>, TRUE) /\ ~ shrinkThrows(pos)
      BY <1>2 DEF ReadEOF
    <3>3. pos \in 0..bufferSize
      BY <3>1, <3>2 DEF shrinkThrows
    <3>4. Head(newInputStreamMarks) \in Int
      BY <2>1, <3>1, FirstMark
    <3>5. Head(newInputStreamMarks) <= pos /\ pos <= bufferSize
      BY <2>1, <3>1, <3>3, <3>4 DEF Sizes
    <3> QED
      BY <3>1, <3>2, <3>5
  <2>3. SubSeq(buf, pos + 1, pos) = <<>>
    BY <2>1
  <2>4. /\ GivenTo(pos)
        /\ strayed => gotEnds' = gotEnds
        /\ ~ strayed => gotEnds' = IF TRUE THEN Append(gotEnds, Base + pos) ELSE gotEnds
    <3>1. Give(SubSeq(buf, pos + 1, pos), TRUE)
      BY <2>2, <2>3
    <3>2. pos \in Int /\ pos <= pos /\ TRUE \in BOOLEAN
      BY <2>1
    <3> QED
      BY <2>2, <3>1, <3>2, GiveUpTo
  <2> QED
    BY <2>1, <2>2, <2>4, ShrinkCore
<1> QED
  BY <1>1, <1>2

\* close() of the current part.
LEMMA FinishPartCore ==
    ASSUME Core, ~ failed, finishCurrentInputStream
    PROVE  Core'
<1>1. Sizes /\ pos \in Nat /\ count \in Int /\ count <= bufferSize /\ strayed \in BOOLEAN
        /\ newInputStreamMarks \in Seq(Int) /\ written \in Nat /\ bufferSize <= MaxBytes
  BY SizesNat, BoundsNat DEF Core, Typed, Followed, Parted, Held, Base, Sizes
<1>2. UNCHANGED input
  BY DEF finishCurrentInputStream
<1>3. CASE shrinkThrows(count)
  <2>1. /\ pos' = count /\ failed' = TRUE
        /\ UNCHANGED <<buf, count, newInputStreamMarks, markedPos, gotMark, strayed, got, gotEnds,
                       written, writtenEnds>>
    BY <1>2, <1>3 DEF finishCurrentInputStream, marker, output, input
  <2>2. UNCHANGED <<bufferSize, Base>>
    BY <2>1 DEF bufferSize, Base
  <2>3. Typed'
    BY <1>1, <2>1 DEF Core, Typed
  <2>4. Held' /\ Parted'
    BY <2>1, <2>2 DEF Core, Held, Parted
  <2>5. Followed' /\ Ended'
    BY <2>1, <2>2 DEF Core, Followed, Ended, Following
  <2> QED
    BY <2>3, <2>4, <2>5 DEF Core
<1>4. CASE ~ shrinkThrows(count)
  <2>1. /\ shrinkToNextInputStream(count)
        /\ Give(SubSeq(buf, pos + 1, count), newInputStreamMarks # <<>>)
        /\ UNCHANGED failed
    BY <1>4 DEF finishCurrentInputStream
  <2>2. 0 <= count /\ (~ strayed => pos <= count)
    BY <1>1, <1>4 DEF shrinkThrows, Core, Parted, Followed, Following, Sizes
  <2>3. /\ GivenTo(count)
        /\ strayed => gotEnds' = gotEnds
        /\ ~ strayed => gotEnds' = IF newInputStreamMarks # <<>>
                                   THEN Append(gotEnds, Base + count) ELSE gotEnds
    <3>1. CASE strayed
      BY <1>1, <3>1, <2>1 DEF Give, output, GivenTo, Core, Typed, Followed
    <3>2. CASE ~ strayed
      <4>1. (newInputStreamMarks # <<>>) \in BOOLEAN
        OBVIOUS
      <4> QED
        BY <1>1, <2>1, <2>2, <3>2, <4>1, GiveUpTo
    <3> QED
      BY <3>1, <3>2
  <2>4. CASE newInputStreamMarks # <<>>
    <3>1. Head(newInputStreamMarks) <= count
      BY <2>4 DEF Core, Parted
    <3> QED
      BY <1>1, <1>2, <2>1, <2>2, <2>3, <2>4, <3>1, ShrinkCore
  <2>5. CASE newInputStreamMarks = <<>>
    <3>1. /\ pos' = count /\ gotEnds' = gotEnds
          /\ UNCHANGED <<buf, count, newInputStreamMarks, markedPos, gotMark, strayed, failed,
                         written, writtenEnds>>
      BY <1>1, <1>2, <2>1, <2>3, <2>5 DEF shrinkToNextInputStream, marker, input
    <3>2. UNCHANGED <<bufferSize, Base>>
      BY <3>1 DEF bufferSize, Base
    <3>3. Typed'
      BY <1>1, <2>3, <3>1 DEF Core, Typed, GivenTo
    <3>4. Held' /\ Parted' /\ Ended'
      BY <3>1, <3>2 DEF Core, Held, Parted, Ended, Following
    <3>5. Followed'
      BY <1>1, <2>2, <2>3, <3>1, <3>2, BoundsNat DEF Followed, Following, GivenTo, Sizes
    <3> QED
      BY <3>3, <3>4, <3>5 DEF Core
  <2> QED
    BY <2>4, <2>5
<1> QED
  BY <1>3, <1>4

\* mark() remembers how much the reader was given.
LEMMA MarkCore ==
    ASSUME Core, ~ failed, NEW n, mark(n), UNCHANGED failed
    PROVE  Core'
<1>1. /\ markedPos' = pos /\ gotMark' = Len(got)
      /\ UNCHANGED <<buf, pos, count, newInputStreamMarks, strayed, failed, got, gotEnds,
                     written, writtenEnds>>
  BY DEF mark, content, input, output
<1>2. UNCHANGED <<bufferSize, Base>>
  BY <1>1 DEF bufferSize, Base
<1>3. Sizes /\ pos \in 0..MaxBytes
  BY SizesNat DEF Core, Followed
<1>4. Typed'
  BY <1>1, <1>3, BoundsNat DEF Core, Typed, Sizes
<1>5. Held' /\ Parted' /\ Ended'
  BY <1>1, <1>2 DEF Core, Held, Parted, Ended, Following
<1>6. Followed'
  BY <1>1, <1>2, <1>3 DEF Core, Followed, Following, Sizes
<1> QED
  BY <1>4, <1>5, <1>6 DEF Core

\* reset() takes it back to there, or astray.
LEMMA ResetCore ==
    ASSUME Core, ~ failed, reset, UNCHANGED failed
    PROVE  Core'
<1>1. /\ markedPos \in 0..MaxBytes /\ pos' = markedPos /\ markedPos' = -1
      /\ UNCHANGED <<buf, count, newInputStreamMarks, gotEnds, gotMark, written, writtenEnds, failed>>
  BY BoundsNat DEF reset, input, Core, Typed
<1>2. UNCHANGED <<bufferSize, Base>>
  BY <1>1 DEF bufferSize, Base
<1>3. Sizes /\ pos \in Nat /\ markedPos \in Nat /\ gotMark \in Nat /\ got \in Seq(Nat)
        /\ strayed \in BOOLEAN /\ failed \in BOOLEAN /\ gotMark <= Len(got)
  BY <1>1, SizesNat, BoundsNat DEF Core, Typed, Followed
<1>4. /\ got' \in Seq(Nat) /\ strayed' \in BOOLEAN /\ gotMark <= Len(got')
      /\ ~ strayed' => /\ ~ strayed /\ markedPos <= pos
                       /\ Len(got') = Base + markedPos /\ From(got', 0)
  <2>1. CASE markIsGood /\ ~ strayed
    <3>1. /\ got' = SubSeq(got, 1, gotMark) /\ strayed' = strayed
          /\ Len(got) - gotMark = pos - markedPos
      BY <2>1 DEF reset, markIsGood
    <3>2. From(got, 0) /\ Len(got) = Base + pos
      BY <2>1 DEF Core, Followed, Following
    <3>3. From(SubSeq(got, 1, gotMark), 0) /\ Len(SubSeq(got, 1, gotMark)) = gotMark
      BY <1>3, <3>2, FromPrefix
    <3>4. From(got', 0) /\ Len(got') = gotMark
      BY <1>3, <3>1, <3>3
    <3>5. gotMark = Base + markedPos /\ markedPos <= pos
      BY <1>3, <3>1, <3>2 DEF Sizes
    <3> QED
      BY <1>3, <2>1, <3>1, <3>4, <3>5 DEF From
  <2>2. CASE ~ (markIsGood /\ ~ strayed)
    BY <1>3, <2>2 DEF reset
  <2> QED
    BY <2>1, <2>2
<1>5. Typed'
  BY <1>1, <1>3, <1>4, BoundsNat DEF Core, Typed
<1>6. Held' /\ Parted'
  BY <1>1, <1>2 DEF Core, Held, Parted
<1>7. Followed'
  <2>1. ~ strayed' => markedPos <= bufferSize /\ (markedPos <= count \/ count < 0)
    BY <1>3, <1>4 DEF Core, Typed, Followed, Following, Sizes
  <2> QED
    BY <1>1, <1>2, <1>4, <2>1 DEF Followed, Following
<1>8. Ended'
  BY <1>1, <1>2, <1>4 DEF Core, Ended, Following
<1> QED
  BY <1>5, <1>6, <1>7, <1>8 DEF Core

\* closeWholeStream() gives up what is left.
LEMMA CloseCore ==
    ASSUME Core, ~ failed, closeWholeStream, UNCHANGED failed
    PROVE  Core'
<1>1. /\ buf' = <<>> /\ pos' = 0 /\ count' = 0 /\ newInputStreamMarks' = <<>>
      /\ UNCHANGED <<markedPos, gotMark, strayed, failed, written, writtenEnds>>
  BY DEF closeWholeStream, marker, input
<1>2. bufferSize' = 0 /\ From(buf', written) /\ written \in Nat
  <2>1. Len(<<>>) = 0 /\ written \in Nat
    BY DEF Core, Typed
  <2>2. From(<<>>, written)
    BY <2>1, EmptyFrom
  <2> QED
    BY <1>1, <2>1, <2>2 DEF bufferSize
<1>3. Base' = written
  BY <1>1, <1>2 DEF Base
<1>4. Sizes /\ strayed \in BOOLEAN /\ gotMark \in Nat /\ gotMark <= Len(got)
  BY SizesNat DEF Core, Typed, Followed
<1>5. /\ got' \in Seq(Nat) /\ gotEnds' \in Seq(Int) /\ gotMark <= Len(got')
      /\ ~ strayed => Len(got') = written /\ From(got', 0) /\ gotEnds' = writtenEnds
  <2>1. CASE strayed
    BY <1>4, <2>1 DEF closeWholeStream, output, Core, Typed
  <2>2. CASE ~ strayed
    <3>1. got' = Numbers(written) /\ gotEnds' = writtenEnds
      BY <2>2 DEF closeWholeStream
    <3>2. From(got', 0) /\ Len(got') = written
      BY <1>2, <3>1, FromNumbers
    <3>3. Len(got) <= written
      BY <1>2, <1>4, <2>2 DEF Core, Followed, Following, Base, Sizes
    <3> QED
      BY <1>2, <1>4, <3>1, <3>2, <3>3 DEF From, Core, Typed, Sizes
  <2> QED
    BY <2>1, <2>2
<1>6. Typed'
  <2>1. <<>> \in Seq(Nat) /\ <<>> \in Seq(Int)
    OBVIOUS
  <2> QED
    BY <1>1, <1>5, <2>1 DEF Core, Typed
<1>7. Len(newInputStreamMarks') = 0
  BY <1>1
<1>8. Held'
  BY <1>1, <1>2, <1>3, BoundsNat DEF Core, Held
<1>9. Parted'
  BY <1>1, <1>2, <1>7 DEF Parted
<1>10. Followed'
  BY <1>1, <1>2, <1>3, <1>5, BoundsNat DEF Followed, Following
<1>11. Ended'
  <2> SUFFICES ASSUME ~ strayed
               PROVE  /\ Len(gotEnds') + Len(newInputStreamMarks') = Len(writtenEnds)
                      /\ \A j \in 1..Len(newInputStreamMarks') :
                            writtenEnds[Len(gotEnds') + j] = Base' + newInputStreamMarks'[j]
                      /\ \A i \in 1..Len(gotEnds') : gotEnds'[i] >= writtenEnds[i]
    BY <1>1 DEF Ended, Following
  <2>1. gotEnds' = writtenEnds
    BY <1>5
  <2>2. \A i \in 1..Len(writtenEnds) : writtenEnds[i] \in Int
    BY DEF Core, Typed
  <2>3. \A j \in 1..Len(newInputStreamMarks') : FALSE
    BY <1>7
  <2>4. Len(writtenEnds) + 0 = Len(writtenEnds)
    BY <1>4 DEF Sizes
  <2> QED
    BY <1>7, <2>1, <2>2, <2>3, <2>4
<1> QED
  BY <1>6, <1>8, <1>9, <1>10, <1>11 DEF Core

-----------------------------------------------------------------------------
(* All steps *)

\* A read that finds bytes advances the cursor.
LEMMA ReadBytesCore ==
    ASSUME Core, ~ failed, NEW n \in Nat, ReadBytes(n), UNCHANGED <<input, failed>>
    PROVE  Core'
<1> DEFINE m == IF pos + n > count THEN count - pos ELSE n
<1>1. pos \in Nat /\ count \in Int
  BY DEF Core, Typed, Followed
<1>2. /\ pos < count /\ pos' = pos + m /\ Give(SubSeq(buf, pos + 1, pos + m), FALSE)
      /\ UNCHANGED <<buf, count, newInputStreamMarks, markedPos, gotMark, strayed>>
  BY DEF ReadBytes, marker
<1>3. m \in Nat /\ pos + m <= count
  BY <1>1, <1>2
<1> HIDE DEF m
<1> QED
  BY <1>2, <1>3, AdvanceCore

\* A read, whether it slept or not, keeps the stream in order.
LEMMA ReadingCore ==
    ASSUME Core, ~ failed, wanted \in 0..MaxLen, Reading, UNCHANGED failed
    PROVE  Core'
<1>1. UNCHANGED input
  BY DEF Reading, read, readAgain
<1>2. PICK n \in Nat : ReadBytes(n) \/ ReadEOF \/ UNCHANGED <<content, marker, output>>
  <2>1. CASE \E n \in Len1 : read(n)
    BY <2>1, BoundsNat DEF read, Len1
  <2>2. CASE readAgain
    BY <2>2, BoundsNat DEF readAgain
  <2> QED
    BY <2>1, <2>2 DEF Reading
<1>3. CASE ReadBytes(n)
  BY <1>1, <1>3, ReadBytesCore
<1>4. CASE ReadEOF
  BY <1>1, <1>4, ReadEOFCore
<1>5. CASE UNCHANGED <<content, marker, output>>
  BY <1>1, <1>5, StillCore DEF marker
<1> QED
  BY <1>2, <1>3, <1>4, <1>5

\* skip() is a read of bytes nobody looks at.
LEMMA SkipCore ==
    ASSUME Core, ~ failed, NEW n \in Nat, skip(n), UNCHANGED failed
    PROVE  Core'
<1> DEFINE m == IF pos + n > count THEN count - pos ELSE n
<1>1. pos \in Nat /\ count \in Int
  BY DEF Core, Typed, Followed
<1>2. /\ m > 0 /\ pos' = pos + m /\ Give(SubSeq(buf, pos + 1, pos + m), FALSE)
      /\ UNCHANGED <<buf, count, newInputStreamMarks, markedPos, gotMark, strayed, input>>
  BY DEF skip, marker
<1>3. m \in Nat /\ pos + m <= count
  BY <1>1, <1>2
<1> HIDE DEF m
<1> QED
  BY <1>2, <1>3, AdvanceCore

\* The reader and what it asked for.
ReaderTyped ==
    /\ readLimit \in {-1} \cup Len1
    /\ reader \in {"run", "waiting", "woken"} /\ wanted \in 0..MaxLen
    /\ isFinished \in BOOLEAN /\ blocking \in BOOLEAN

StreamInv == Core /\ ReaderTyped /\ NoLostWakeup

\* Every step keeps the stream in order ...
LEMMA CoreStep == ReaderTyped /\ Core /\ [Next]_vars => Core'
<1> SUFFICES ASSUME ReaderTyped, Core, [Next]_vars PROVE Core'
  OBVIOUS
<1>1. CASE UNCHANGED vars
  BY <1>1, StillCore DEF vars, content, input, output
<1>2. CASE Next
  <2>1. ~ failed
    BY <1>2 DEF Next
  <2>2. CASE finishCurrentInputStream
    BY <2>1, <2>2, FinishPartCore
  <2>3. CASE Writer /\ UNCHANGED failed
    <3>1. CASE \E n \in Len1 : append(n)
      BY <2>1, <2>3, <3>1, AppendCore DEF Len1
    <3>2. CASE \E f \in BOOLEAN : finish(f)
      <4>1. addMarkPos /\ UNCHANGED <<buf, pos, count, markedPos, written, output, gotMark, strayed, failed>>
        BY <2>3, <3>2 DEF finish, marker
      <4> QED
        BY <4>1, FinishCore
    <3> QED
      BY <2>3, <3>1, <3>2 DEF Writer
  <2>4. CASE Reading /\ UNCHANGED failed
    BY <2>1, <2>4, ReadingCore DEF ReaderTyped
  <2>5. CASE Positioning /\ UNCHANGED failed
    <3>1. CASE ReadTimeout \/ \E b \in BOOLEAN : configureBlocking(b)
      BY <2>5, <3>1, StillCore DEF ReadTimeout, configureBlocking, marker
    <3>2. CASE \E n \in Len1 : skip(n) \/ mark(n)
      <4>1. PICK n \in Nat : skip(n) \/ mark(n)
        BY <3>2, BoundsNat DEF Len1
      <4> QED
        BY <2>1, <2>5, <4>1, SkipCore, MarkCore
    <3>3. CASE reset
      BY <2>1, <2>5, <3>3, ResetCore
    <3>4. CASE closeWholeStream
      BY <2>1, <2>5, <3>4, CloseCore
    <3> QED
      BY <2>5, <3>1, <3>2, <3>3, <3>4 DEF Positioning
  <2> QED
    BY <1>2, <2>2, <2>3, <2>4, <2>5 DEF Next
<1> QED
  BY <1>1, <1>2

\* ... and the reader well formed.
LEMMA ReaderStep == ReaderTyped /\ [Next]_vars => ReaderTyped'
<1> SUFFICES ASSUME ReaderTyped, [Next]_vars PROVE ReaderTyped'
  OBVIOUS
<1>1. CASE UNCHANGED vars
  BY <1>1 DEF vars, ReaderTyped
<1>2. CASE finishCurrentInputStream
  <2>1. readLimit' = readLimit
    BY <1>2 DEF finishCurrentInputStream, shrinkToNextInputStream, marker
  <2> QED
    BY <1>2, <2>1 DEF finishCurrentInputStream, ReaderTyped
<1>3. CASE Writer
  <2>1. UNCHANGED <<readLimit, blocking, wanted>> /\ isFinished' \in BOOLEAN
    BY <1>3 DEF Writer, append, finish, marker, ReaderTyped
  <2>2. reader' \in {reader, "woken"}
    BY <1>3 DEF Writer, append, finish, notifyAll
  <2> QED
    BY <2>1, <2>2 DEF ReaderTyped
<1>4. CASE Reading
  <2>1. UNCHANGED <<readLimit, blocking, isFinished>>
    BY <1>4 DEF Reading, read, readAgain, ReadBytes, ReadEOF, shrinkToNextInputStream, marker
  <2>2. reader' \in {"run", "waiting"}
    BY <1>4 DEF Reading, read, readAgain
  <2>3. wanted' \in 0..MaxLen
    BY <1>4, BoundsNat DEF Reading, read, readAgain, Len1, ReaderTyped
  <2> QED
    BY <2>1, <2>2, <2>3 DEF ReaderTyped
<1>5. CASE Positioning
  <2>1. CASE \E n \in Len1 : mark(n)
    BY <2>1 DEF mark, ReaderTyped
  <2>2. CASE ReadTimeout \/ (\E n \in Len1 : skip(n)) \/ reset \/ closeWholeStream
    <3>1. UNCHANGED <<readLimit, blocking>> /\ isFinished' \in {isFinished, FALSE}
      BY <2>2 DEF ReadTimeout, skip, reset, closeWholeStream, marker
    <3>2. reader' \in {reader, "run"} /\ wanted' \in {wanted, 0}
      BY <2>2 DEF ReadTimeout, skip, reset, closeWholeStream
    <3>3. isFinished' \in BOOLEAN
      BY <3>1 DEF ReaderTyped
    <3> QED
      BY <3>1, <3>2, <3>3, BoundsNat DEF ReaderTyped
  <2>3. CASE \E b \in BOOLEAN : configureBlocking(b)
    BY <2>3 DEF configureBlocking, marker, ReaderTyped
  <2> QED
    BY <1>5, <2>1, <2>2, <2>3 DEF Positioning
<1> QED
  BY <1>1, <1>2, <1>3, <1>4, <1>5 DEF Next

\* Only the writer moves while a reader waits, and it notifies.
LEMMA WakeupStep == ReaderTyped /\ NoLostWakeup /\ [Next]_vars => NoLostWakeup'
<1> SUFFICES ASSUME ReaderTyped, NoLostWakeup, [Next]_vars, reader' = "waiting"
             PROVE  Waits'
  BY DEF NoLostWakeup
<1>1. UNCHANGED <<pos, count, newInputStreamMarks, isFinished, blocking>> /\ Waits => Waits'
  BY DEF Waits, isCurrentStreamFinished, atMark
<1>2. CASE UNCHANGED vars
  BY <1>1, <1>2 DEF vars, NoLostWakeup
<1>3. CASE finishCurrentInputStream
  BY <1>3 DEF finishCurrentInputStream
<1>4. CASE Writer
  <2>1. CASE \E n \in Len1 : append(n)
    BY <2>1 DEF append, notifyAll
  <2>2. CASE \E f \in BOOLEAN : finish(f)
    BY <2>2 DEF finish, notifyAll, NoLostWakeup, Waits
  <2> QED
    BY <1>4, <2>1, <2>2 DEF Writer
<1>5. CASE Reading
  BY <1>1, <1>5 DEF Reading, read, readAgain, content
<1>6. CASE Positioning
  BY <1>6 DEF Positioning, ReadTimeout, skip, mark, reset, configureBlocking, closeWholeStream
<1> QED
  BY <1>2, <1>3, <1>4, <1>5, <1>6 DEF Next

\* The invariant holds always.
LEMMA InvAlways == Spec => []StreamInv
<1>1. Init => StreamInv
  <2> SUFFICES ASSUME Init PROVE StreamInv
    OBVIOUS
  <2>1. ReaderTyped
    <3>1. isFinished \in BOOLEAN /\ blocking \in BOOLEAN
      BY DEF Init
    <3>2. readLimit \in {-1} \cup Len1 /\ reader \in {"run", "waiting", "woken"} /\ wanted \in 0..MaxLen
      BY BoundsNat DEF Init
    <3> QED
      BY <3>1, <3>2 DEF ReaderTyped
  <2>2. NoLostWakeup
    BY DEF Init, NoLostWakeup
  <2> QED
    BY <2>1, <2>2, InitCore DEF StreamInv
<1>2. StreamInv /\ [Next]_vars => StreamInv'
  BY CoreStep, ReaderStep, WakeupStep DEF StreamInv
<1> QED
  BY <1>1, <1>2, PTL DEF Spec

-----------------------------------------------------------------------------
(* The theorems *)

\* The buffer never exceeds its capacity and no cursor or mark leaves it.
THEOREM StreamTypeCorrect == Spec => []StreamTypeOK
<1>1. StreamInv => StreamTypeOK
  <2> SUFFICES ASSUME StreamInv PROVE StreamTypeOK
    BY DEF StreamInv
  <2>1. Sizes
    BY SizesNat DEF StreamInv, Core
  <2>2. ASSUME NEW i \in 1..bufferSize PROVE buf[i] \in 1..MaxBytes
    <3>1. buf[i] = written - bufferSize + i
      BY DEF StreamInv, Core, Held, From, Base, bufferSize
    <3>2. written \in Nat /\ written <= MaxBytes /\ written - bufferSize >= 0
      BY DEF StreamInv, Core, Held, Typed, Base
    <3> QED
      BY <2>1, <3>1, <3>2, BoundsNat DEF Sizes
  <2> QED
    BY <2>2 DEF StreamTypeOK, StreamInv, Core, Typed, Held, Parted, ReaderTyped
<1> QED
  BY <1>1, InvAlways, PTL

\* What the reader was given, followed by what is left in the buffer, is what
\* the writer appended: nothing lost, repeated or out of order, whatever the
\* interleaving of append, finish, read, skip, mark, reset and close.
THEOREM ConservedAlways == Spec => []Conserved
<1>1. StreamInv => Conserved
  <2> SUFFICES ASSUME StreamInv, ~ strayed, ~ failed
               PROVE  got \o SubSeq(buf, pos + 1, bufferSize) = Numbers(written)
    BY DEF Conserved
  <2> DEFINE r == SubSeq(buf, pos + 1, bufferSize)
  <2>1. Sizes /\ pos \in Nat /\ pos <= bufferSize /\ written \in Nat
    BY SizesNat DEF StreamInv, Core, Followed, Following, Typed
  <2>2. From(r, Base + pos) /\ Len(r) = bufferSize - pos
    BY <2>1, FromSub DEF StreamInv, Core, Held, bufferSize, Sizes
  <2>3. From(got, 0) /\ Len(got) = Base + pos
    BY DEF StreamInv, Core, Followed, Following
  <2> HIDE DEF r
  <2>4. 0 + Len(got) = Base + pos
    BY <2>1, <2>3 DEF Sizes
  <2>5. From(got \o r, 0) /\ Len(got \o r) = Len(got) + Len(r)
    BY <2>2, <2>3, <2>4, FromConcat
  <2>6. Len(got) + Len(r) = written
    BY <2>1, <2>2, <2>3 DEF Base, Sizes
  <2>7. got \o r = Numbers(written)
    BY <2>5, <2>6, FromIsNumbers
  <2> QED
    BY <2>7 DEF r
<1> QED
  BY <1>1, InvAlways, PTL

\* The reader is never told the end of a part before all bytes of the part.
THEOREM EOFNeverEarlyAlways == Spec => []EOFNeverEarly
<1>1. StreamInv => EOFNeverEarly
  <2> SUFFICES ASSUME StreamInv, ~ strayed, ~ failed
               PROVE  /\ Len(gotEnds) <= Len(writtenEnds)
                      /\ \A i \in 1..Len(gotEnds) : gotEnds[i] >= writtenEnds[i]
    BY DEF EOFNeverEarly
  <2>1. Sizes
    BY SizesNat DEF StreamInv, Core
  <2> QED
    BY <2>1 DEF StreamInv, Core, Ended, Following, Sizes
<1> QED
  BY <1>1, InvAlways, PTL

\* No reader sleeps while there is a byte, an end of part or the end of the
\* stream for it.
THEOREM NoLostWakeupAlways == Spec => []NoLostWakeup
<1>1. StreamInv => NoLostWakeup
  BY DEF StreamInv
<1> QED
  BY <1>1, InvAlways, PTL
=============================================================================
