----------------------------- MODULE WalProofs -----------------------------
(***************************************************************************)
(* Durability of the log, for records of any sizes and a buffer of any     *)
(* size: what append acknowledged is in the file whole, whatever the disk  *)
(* refuses, whenever the process ends and however often the log is opened. *)
(* A reader gets to it if, besides, no frame lost its end and no record is *)
(* too large for its length to fit a u32.                                  *)
(***************************************************************************)
EXTENDS Wal, SequenceTheorems, TLAPS

LEMMA FrameType ==
    ASSUME TypeOK, NEW n \in DOMAIN records
    PROVE  /\ records[n] \in Nat \ {0}
           /\ Length(n) \in Seq(Units) /\ Len(Length(n)) = 1
           /\ Body(n) \in Seq(Units)
           /\ Frame(n) \in Seq(Units) /\ Len(Frame(n)) = records[n] + 1
  <1>1. n \in Nat /\ records[n] \in Nat \ {0}
    <2>1. n \in 1..Len(records) /\ Len(records) \in Nat
      BY LenProperties DEF TypeOK
    <2>2. records[n] \in Sizes
      BY <2>1, ElementOfSeq DEF TypeOK
    <2>3. records[n] \in Nat \ {0}
      BY <2>2, WalAssumption
    <2> QED
      BY <2>1, <2>3
  <1>2. Length(n) \in Seq(Units) /\ Len(Length(n)) = 1
    BY <1>1 DEF Length, Units
  <1>3. Body(n) \in Seq(Units) /\ Len(Body(n)) = records[n]
    <2>1. Body(n) \in [1..records[n] -> Units]
      BY <1>1 DEF Body, Units
    <2> QED
      BY <1>1, <2>1
  <1> QED
    BY <1>1, <1>2, <1>3, ConcatProperties DEF Frame

LEMMA CurrentType ==
    ASSUME TypeOK, records # <<>>
    PROVE  Current \in DOMAIN records
  BY EmptySeq, LenProperties DEF TypeOK, Current

LEMMA TypeInit == Init => TypeOK
  <1> SUFFICES ASSUME Init PROVE TypeOK
    OBVIOUS
  <1>1. file \in Seq(Units) /\ buffer \in Seq(Units) /\ rest \in Seq(Units)
    BY EmptySeq DEF Init
  <1>2. records \in Seq(Sizes) /\ Len(records) = 0 /\ Len(buffer) = 0
    BY EmptySeq DEF Init
  <1>3. 0 <= MaxRecords /\ 0 <= Capacity
    BY WalAssumption
  <1> QED
    BY <1>1, <1>2, <1>3 DEF Init, TypeOK, Appending

(* Concatenation, by its laws: the provers keep it folded.                 *)
Join(s, t) == s \o t

LEMMA JoinLaws ==
    ASSUME NEW S, NEW s \in Seq(S), NEW t \in Seq(S), NEW u \in Seq(S)
    PROVE  /\ Join(s, t) \in Seq(S)
           /\ Join(Join(s, t), u) = Join(s, Join(t, u))
  <1>1. (s \o t) \o u = s \o (t \o u)
    BY ConcatAssociative, SMTT(30)
  <1>2. s \o t \in Seq(S)
    BY ConcatProperties
  <1> QED
    BY <1>1, <1>2 DEF Join

LEMMA JoinEmpty ==
    ASSUME NEW S, NEW s \in Seq(S)
    PROVE  /\ <<>> \in Seq(S)
           /\ Join(s, <<>>) = s /\ Join(<<>>, s) = s
  BY EmptySeq, ConcatEmptySeq DEF Join

(* A sequence is what it begins with and the rest. *)
LEMMA CutInTwo ==
    ASSUME NEW S, NEW s \in Seq(S), NEW k \in 1..Len(s)
    PROVE  /\ SubSeq(s, 1, k) \in Seq(S) /\ SubSeq(s, k + 1, Len(s)) \in Seq(S)
           /\ Len(SubSeq(s, k + 1, Len(s))) = Len(s) - k
           /\ Join(SubSeq(s, 1, k), SubSeq(s, k + 1, Len(s))) = s
  <1>1. Len(s) \in Nat /\ \A i \in 1..Len(s) : s[i] \in S
    BY LenProperties
  <1>2. SubSeq(s, 1, k) \in Seq(S)
    BY <1>1, SubSeqProperties
  <1>3. /\ SubSeq(s, k + 1, Len(s)) \in Seq(S)
        /\ Len(SubSeq(s, k + 1, Len(s))) = Len(s) - k
    BY <1>1, SubSeqProperties
  <1>4. SubSeq(s, 1, k) \o SubSeq(s, k + 1, Len(s)) = s
    BY <1>1, ConcatAdjacentSubSeq, SubSeqFull
  <1> QED
    BY <1>2, <1>3, <1>4 DEF Join

(* Its beginning may be moved from one sequence to the end of another.     *)
LEMMA MoveBeginning ==
    ASSUME NEW S, NEW to \in Seq(S), NEW from \in Seq(S), NEW more \in Seq(S),
           NEW k \in 1..Len(from)
    PROVE  Join(Join(to, SubSeq(from, 1, k)), Join(SubSeq(from, k + 1, Len(from)), more))
              = Join(to, Join(from, more))
  <1>1. PICK out \in Seq(S) : out = SubSeq(from, 1, k)
    BY CutInTwo
  <1>2. PICK left \in Seq(S) : left = SubSeq(from, k + 1, Len(from))
    BY CutInTwo
  <1>3. Join(out, left) = from
    BY <1>1, <1>2, CutInTwo
  <1>4. Join(Join(to, out), Join(left, more)) = Join(to, Join(from, more))
    BY <1>3, JoinLaws
  <1> QED
    BY <1>1, <1>2, <1>4

LEMMA TypeNext == TypeOK /\ [Next]_vars => TypeOK'
  <1> SUFFICES ASSUME TypeOK, [Next]_vars PROVE TypeOK'
    OBVIOUS
  <1>a. /\ torn' \in BOOLEAN
        /\ DrainBuffer \/ WriteError \/ Crash => draining' \in BOOLEAN
    BY Zenon DEF TypeOK, Next, vars, Open, BeginAppend, TakeRest, DrainBuffer, PassRest,
       WriteError, ReturnOk, Close, Closed, Crash
  <1>b. /\ DrainBuffer => (draining' => buffer' # <<>>) /\ pc' = pc /\ pc \notin {"closed", "ready"}
        /\ WriteError \/ Crash => ~ draining'
    <2>1. DrainBuffer => (draining' => buffer' # <<>>) /\ pc' = pc
      BY Zenon DEF DrainBuffer
    <2>2. DrainBuffer => pc \notin {"closed", "ready"}
      BY DEF DrainBuffer, Draining
    <2>3. WriteError \/ Crash => ~ draining'
      BY Zenon DEF WriteError, Crash
    <2> QED
      BY <2>1, <2>2, <2>3
  <1> USE DEF TypeOK, Appending
  <1>0. Len(buffer) \in Nat /\ Len(rest) \in Nat /\ Capacity \in Nat \ {0, 1}
    BY LenProperties, WalAssumption
  <1>1. CASE Open
    BY <1>1 DEF Open
  <1>2. CASE BeginAppend
    <2>1. PICK size \in Sizes : records' = Append(records, size)
      BY <1>2 DEF BeginAppend
    <2>2. /\ records' \in Seq(Sizes) /\ records' # <<>>
          /\ Len(records') = Len(records) + 1
          /\ DOMAIN records \subseteq DOMAIN records'
      BY <2>1, AppendProperties, LenProperties
    <2>3. Length(Current + 1) \in Seq(Units)
      BY LenProperties DEF Length, Current, Units
    <2>4. Len(records') <= MaxRecords
      BY <1>2, <2>2, WalAssumption, LenProperties DEF BeginAppend, Current
    <2> QED
      BY <1>2, <2>2, <2>3, <2>4 DEF BeginAppend
  <1>3. CASE TakeRest
    <2>1. buffer \o rest \in Seq(Units) /\ Len(buffer \o rest) = Len(buffer) + Len(rest)
      BY ConcatProperties
    <2>2. Len(buffer \o rest) <= Capacity
      BY <1>0, <1>3, <2>1 DEF TakeRest, Spare
    <2>3. Body(Current) \in Seq(Units)
      BY <1>3, CurrentType, FrameType DEF TakeRest
    <2>4. CASE pc = "length"
      BY <1>3, <2>1, <2>2, <2>3, <2>4 DEF TakeRest
    <2>5. CASE pc = "body"
      BY <1>3, <2>1, <2>2, <2>5, EmptySeq DEF TakeRest
    <2> QED
      BY <1>3, <2>4, <2>5 DEF TakeRest
  <1>4. CASE DrainBuffer
    <2>1. PICK k \in 1..Len(buffer) :
             /\ file' = file \o SubSeq(buffer, 1, k)
             /\ buffer' = SubSeq(buffer, k + 1, Len(buffer))
      BY <1>4 DEF DrainBuffer
    <2>2. file' \in Seq(Units) /\ buffer' \in Seq(Units) /\ Len(buffer') <= Len(buffer)
      BY <1>0, <2>1, CutInTwo, ConcatProperties
    <2>3. pc # "closed"
      BY <1>4 DEF DrainBuffer, Draining
    <2>4. Len(buffer') <= Capacity
      BY <1>0, <2>2, LenProperties
    <2> QED
      BY <1>4, <1>a, <1>b, <2>2, <2>3, <2>4 DEF DrainBuffer
  <1>5. CASE PassRest
    <2>1. PICK k \in 1..Len(rest) :
             /\ file' = file \o SubSeq(rest, 1, k)
             /\ rest' = SubSeq(rest, k + 1, Len(rest))
             /\ pc' = IF k = Len(rest) THEN "flush" ELSE "through"
      BY <1>5 DEF PassRest
    <2>2. file' \in Seq(Units) /\ rest' \in Seq(Units) /\ Len(rest') = Len(rest) - k
      BY <2>1, CutInTwo, ConcatProperties
    <2>3. pc' = "flush" => rest' = <<>>
      BY <1>0, <2>1, <2>2, EmptySeq
    <2>4. pc \in {"body", "through"}
      BY <1>5 DEF PassRest, Passing
    <2> QED
      BY <1>5, <2>1, <2>2, <2>3, <2>4 DEF PassRest
  <1>6. CASE WriteError
    BY <1>0, <1>6, <1>a, <1>b, EmptySeq DEF WriteError
  <1>7. CASE ReturnOk
    <2>1. Current \in DOMAIN records
      BY <1>7, CurrentType DEF ReturnOk
    <2> QED
      BY <1>7, <2>1 DEF ReturnOk
  <1>8. CASE Close
    BY <1>8 DEF Close
  <1>9. CASE Closed
    BY <1>9 DEF Closed
  <1>10. CASE Crash
    BY <1>0, <1>10, <1>a, <1>b, EmptySeq DEF Crash
  <1>11. CASE UNCHANGED vars
    BY <1>11 DEF vars
  <1> QED
    BY <1>1, <1>2, <1>3, <1>4, <1>5, <1>6, <1>7, <1>8, <1>9, <1>10, <1>11 DEF Next

THEOREM TypeCorrect == Spec => []TypeOK
  BY TypeInit, TypeNext, PTL DEF Spec

-----------------------------------------------------------------------------
LEMMA StreamJoined ==
    /\ Stream = Join(file, Join(buffer, Pending))
    /\ Stream' = Join(file', Join(buffer', Pending'))
  BY DEF Stream, Join

(* While append runs, the stream ends with the frame of its record.        *)
FrameOnItsWay ==
    pc \in Appending =>
        \E before \in Seq(Units) : Stream = Join(before, Frame(Current))

(* The frame of a record is in the file, whole and in one piece.           *)
Whole(n) ==
    \E before, after \in Seq(Units) : file = Join(before, Join(Frame(n), after))

AckedWhole == \A n \in acked : Whole(n)

WalInvariant == TypeOK /\ FrameOnItsWay /\ AckedWhole

LEMMA PendingType == TypeOK => Pending \in Seq(Units)
  <1> SUFFICES ASSUME TypeOK PROVE Pending \in Seq(Units)
    OBVIOUS
  <1>1. CASE pc = "length"
    BY <1>1, CurrentType, FrameType, ConcatProperties DEF Pending, TypeOK, Appending
  <1>2. CASE pc # "length"
    BY <1>2 DEF Pending, TypeOK
  <1> QED
    BY <1>1, <1>2

LEMMA PendingTypeNext == TypeOK' => Pending' \in Seq(Units)
  <1>1. (TypeOK => Pending \in Seq(Units))'
    BY PendingType, PTL
  <1> QED
    BY <1>1

(* Frames do not change: append only adds a record. *)
LEMMA FramesStay ==
    ASSUME TypeOK, [Next]_vars, NEW n \in DOMAIN records
    PROVE  Frame(n)' = Frame(n)
  <1>1. records'[n] = records[n]
    <2>1. CASE UNCHANGED records
      BY <2>1
    <2>2. CASE BeginAppend
      <3>1. PICK size \in Sizes : records' = Append(records, size)
        BY <2>2 DEF BeginAppend
      <3> QED
        BY <3>1, AppendProperties, LenProperties DEF TypeOK
    <2> QED
      BY <2>1, <2>2 DEF Next, vars, Open, TakeRest, DrainBuffer, PassRest,
         WriteError, ReturnOk, Close, Closed, Crash
  <1> QED
    BY <1>1 DEF Frame, Length, Body

(* The file only grows. *)
LEMMA FileGrows ==
    ASSUME TypeOK, [Next]_vars
    PROVE  \E more \in Seq(Units) : file' = Join(file, more)
  <1>1. CASE UNCHANGED file
    BY <1>1, JoinEmpty DEF TypeOK
  <1>2. CASE DrainBuffer
    <2>1. PICK k \in 1..Len(buffer) : file' = Join(file, SubSeq(buffer, 1, k))
      BY <1>2 DEF DrainBuffer, Join
    <2> QED
      BY <2>1, CutInTwo DEF TypeOK
  <1>3. CASE PassRest
    <2>1. PICK k \in 1..Len(rest) : file' = Join(file, SubSeq(rest, 1, k))
      BY <1>3 DEF PassRest, Join
    <2> QED
      BY <2>1, CutInTwo DEF TypeOK
  <1> QED
    BY <1>1, <1>2, <1>3 DEF Next, vars, Open, BeginAppend, TakeRest,
       WriteError, ReturnOk, Close, Closed, Crash

(* So a frame that is in it whole stays so. *)
LEMMA WholeStays ==
    ASSUME TypeOK, [Next]_vars, NEW n \in DOMAIN records, Whole(n)
    PROVE  Whole(n)'
  <1>1. PICK more \in Seq(Units) : file' = Join(file, more)
    BY FileGrows
  <1>2. PICK before \in Seq(Units), after \in Seq(Units) :
           file = Join(before, Join(Frame(n), after))
    BY DEF Whole
  <1>3. Frame(n) \in Seq(Units) /\ Frame(n)' = Frame(n)
    BY FrameType, FramesStay
  <1>4. PICK frame \in Seq(Units) : frame = Frame(n)
    BY <1>3
  <1>5. /\ Join(after, more) \in Seq(Units)
        /\ Join(Join(before, Join(frame, after)), more)
              = Join(before, Join(frame, Join(after, more)))
    BY JoinLaws
  <1>6. file' = Join(before, Join(Frame(n)', Join(after, more)))
    BY <1>1, <1>2, <1>3, <1>4, <1>5
  <1> QED
    BY <1>5, <1>6 DEF Whole

(* What append hands over arrives in the order it was handed over. *)
LEMMA StreamStays ==
    ASSUME TypeOK, TypeOK', TakeRest \/ DrainBuffer \/ PassRest, pc \in Appending
    PROVE  Stream' = Stream
  <1>1. file \in Seq(Units) /\ buffer \in Seq(Units) /\ rest \in Seq(Units)
    BY DEF TypeOK
  <1>2. PICK more \in Seq(Units) : more = Pending
    BY PendingType
  <1>3. CASE TakeRest
    <2>1. buffer' = Join(buffer, rest) /\ file' = file /\ records' = records
      BY <1>3 DEF TakeRest, Join
    <2>2. Pending = Join(rest, Pending') /\ Pending' \in Seq(Units)
      <3>1. CASE pc = "length"
        <4>1. Body(Current) \in Seq(Units)
          BY CurrentType, FrameType DEF TypeOK
        <4>2. Pending' = Body(Current)
          BY <1>3, <3>1 DEF TakeRest, Pending, Current, Body
        <4> QED
          BY <3>1, <4>1, <4>2 DEF Pending, Join
      <3>2. CASE pc = "body"
        <4>1. Pending' = <<>> /\ Pending = rest
          BY <1>3, <3>2 DEF TakeRest, Pending
        <4> QED
          BY <1>1, <4>1, JoinEmpty
      <3> QED
        BY <1>3, <3>1, <3>2 DEF TakeRest
    <2>3. PICK left \in Seq(Units) : left = Pending'
      BY <2>2
    <2>4. Join(Join(buffer, rest), left) = Join(buffer, Join(rest, left))
      BY <1>1, JoinLaws
    <2> QED
      BY <2>1, <2>2, <2>3, <2>4, StreamJoined
  <1>4. CASE DrainBuffer
    <2>1. PICK k \in 1..Len(buffer) :
             /\ file' = Join(file, SubSeq(buffer, 1, k))
             /\ buffer' = SubSeq(buffer, k + 1, Len(buffer))
      BY <1>4 DEF DrainBuffer, Join
    <2>2. Pending' = Pending
      BY <1>4 DEF DrainBuffer, Pending, Body, Current
    <2>3. Join(Join(file, SubSeq(buffer, 1, k)), Join(SubSeq(buffer, k + 1, Len(buffer)), more))
             = Join(file, Join(buffer, more))
      BY <1>1, MoveBeginning
    <2> QED
      BY <1>2, <2>1, <2>2, <2>3, StreamJoined
  <1>5. CASE PassRest
    <2>1. PICK k \in 1..Len(rest) :
             /\ file' = Join(file, SubSeq(rest, 1, k))
             /\ rest' = SubSeq(rest, k + 1, Len(rest))
             /\ pc' = IF k = Len(rest) THEN "flush" ELSE "through"
      BY <1>5 DEF PassRest, Join
    <2>2. Pending = rest /\ Pending' = rest'
      BY <1>5, <2>1 DEF PassRest, Passing, Pending
    <2>3. buffer = <<>> /\ buffer' = <<>>
      BY <1>5 DEF PassRest, Passing
    <2>4. rest' \in Seq(Units)
      BY DEF TypeOK
    <2>5. Join(buffer, Pending) = rest /\ Join(buffer', Pending') = rest'
      BY <1>1, <2>2, <2>3, <2>4, JoinEmpty
    <2>6. Join(file', rest') = Join(file, rest)
      <3>1. PICK out \in Seq(Units) : out = SubSeq(rest, 1, k)
        BY <1>1, CutInTwo
      <3>2. PICK left \in Seq(Units) : left = SubSeq(rest, k + 1, Len(rest))
        BY <1>1, CutInTwo
      <3>3. Join(out, left) = rest
        BY <1>1, <3>1, <3>2, CutInTwo
      <3>4. Join(Join(file, out), left) = Join(file, rest)
        BY <1>1, <3>3, JoinLaws
      <3> QED
        BY <2>1, <3>1, <3>2, <3>4
    <2> QED
      BY <2>5, <2>6, StreamJoined
  <1> QED
    BY <1>3, <1>4, <1>5

LEMMA FrameNext ==
    ASSUME TypeOK, TypeOK', FrameOnItsWay, [Next]_vars
    PROVE  FrameOnItsWay'
  <1> SUFFICES ASSUME pc' \in Appending
               PROVE  \E before \in Seq(Units) : Stream' = Join(before, Frame(Current)')
    BY DEF FrameOnItsWay
  <1>1. CASE BeginAppend
    <2>1. PICK size \in Sizes : records' = Append(records, size)
      BY <1>1 DEF BeginAppend
    <2>2. Current' = Current + 1
      BY <2>1, AppendProperties, LenProperties DEF TypeOK, Current
    <2>3. rest' = Length(Current)' /\ pc' = "length"
      BY <1>1, <2>2 DEF BeginAppend, Length
    <2>4. Pending' = Frame(Current)'
      BY <2>3 DEF Pending, Frame
    <2>5. PICK frame \in Seq(Units) : frame = Frame(Current)'
      <3>1. Pending' \in Seq(Units)
        BY <2>3, PendingTypeNext DEF Appending
      <3> QED
        BY <2>4, <3>1
    <2>6. file' = file /\ buffer' = buffer /\ file \in Seq(Units) /\ buffer \in Seq(Units)
      BY <1>1 DEF BeginAppend, TypeOK
    <2>7. /\ Join(file, buffer) \in Seq(Units)
          /\ Join(Join(file, buffer), frame) = Join(file, Join(buffer, frame))
      BY <2>6, JoinLaws
    <2> QED
      BY <2>4, <2>5, <2>6, <2>7, StreamJoined
  <1>2. CASE TakeRest \/ DrainBuffer \/ PassRest
    <2>1. pc \in Appending
      BY <1>2 DEF TakeRest, DrainBuffer, PassRest, Passing, Appending
    <2>2. Frame(Current)' = Frame(Current)
      BY <1>2 DEF TakeRest, DrainBuffer, PassRest, Frame, Length, Body, Current
    <2> QED
      BY <1>2, <2>1, <2>2, StreamStays DEF FrameOnItsWay
  <1>3. CASE UNCHANGED vars
    BY <1>3 DEF vars, FrameOnItsWay, Stream, Pending, Frame, Length, Body, Current, Appending
  <1> QED
    BY <1>1, <1>2, <1>3 DEF Next, Open, WriteError, ReturnOk, Close, Closed, Crash, Appending

(* When append returns Ok nothing of its frame is on its way any more. *)
LEMMA ReturnedWhole ==
    ASSUME TypeOK, FrameOnItsWay, ReturnOk
    PROVE  Whole(Current)
  <1>1. pc = "flush" /\ buffer = <<>> /\ rest = <<>>
    BY DEF ReturnOk, TypeOK
  <1>2. file \in Seq(Units)
    BY DEF TypeOK
  <1>3. Stream = file
    BY <1>1, <1>2, JoinEmpty, StreamJoined DEF Pending
  <1>4. PICK before \in Seq(Units) : file = Join(before, Frame(Current))
    BY <1>1, <1>3 DEF FrameOnItsWay, Appending
  <1>5. Frame(Current) \in Seq(Units)
    BY <1>1, CurrentType, FrameType DEF TypeOK, Appending
  <1>6. Join(Frame(Current), <<>>) = Frame(Current) /\ <<>> \in Seq(Units)
    BY <1>5, JoinEmpty
  <1> QED
    BY <1>4, <1>6 DEF Whole

LEMMA AckedNext ==
    ASSUME TypeOK, FrameOnItsWay, AckedWhole, [Next]_vars
    PROVE  AckedWhole'
  <1> SUFFICES ASSUME NEW n \in acked' PROVE Whole(n)'
    BY DEF AckedWhole
  <1>1. CASE n \in acked
    BY <1>1, WholeStays DEF AckedWhole, TypeOK
  <1>2. CASE ReturnOk /\ n = Current
    <2>1. Whole(n) /\ n \in DOMAIN records
      BY <1>2, ReturnedWhole, CurrentType DEF TypeOK, ReturnOk, Appending
    <2> QED
      BY <2>1, WholeStays
  <1> QED
    BY <1>1, <1>2 DEF Next, vars, Open, BeginAppend, TakeRest, DrainBuffer,
       PassRest, WriteError, ReturnOk, Close, Closed, Crash

LEMMA WholeIsThere ==
    ASSUME TypeOK, NEW n \in DOMAIN records, Whole(n)
    PROVE  \E i \in DOMAIN file : SubSeq(file, i, i + records[n]) = Frame(n)
  <1>1. PICK before \in Seq(Units), after \in Seq(Units) :
           file = Join(before, Join(Frame(n), after))
    BY DEF Whole
  <1>2. PICK frame \in Seq(Units) : frame = Frame(n)
    BY FrameType
  <1>3. Len(frame) = records[n] + 1 /\ records[n] \in Nat \ {0} /\ Len(before) \in Nat
    BY <1>2, FrameType, LenProperties
  <1>4. PICK tail \in Seq(Units) : tail = frame \o after
    BY ConcatProperties
  <1>5. Len(tail) = Len(frame) + Len(after) /\ Len(after) \in Nat
    BY <1>4, ConcatProperties, LenProperties
  <1>6. file = before \o tail
    BY <1>1, <1>2, <1>4 DEF Join
  <1>7. Len(file) = Len(before) + Len(tail)
    BY <1>6, ConcatProperties
  <1> DEFINE i == Len(before) + 1
             j == i + records[n]
  <1>8. /\ i \in Len(before) + 1 .. Len(before) + Len(tail)
        /\ j \in Len(before) + 1 .. Len(before) + Len(tail)
        /\ i - Len(before) = 1 /\ j - Len(before) = Len(frame)
        /\ Len(frame) \in 1..Len(frame) /\ 1 \in 1..Len(frame)
    BY <1>3, <1>5
  <1>9. SubSeq(file, i, j) = SubSeq(tail, 1, Len(frame))
    <2>1. SubSeq(before \o tail, i, j) = SubSeq(tail, i - Len(before), j - Len(before))
      BY <1>8, SubSeqOfConcat2
    <2> QED
      BY <1>6, <1>8, <2>1
  <1>10. SubSeq(tail, 1, Len(frame)) = frame
    <2>1. SubSeq(frame \o after, 1, Len(frame)) = SubSeq(frame, 1, Len(frame))
      BY <1>8, SubSeqOfConcat1
    <2>2. SubSeq(frame, 1, Len(frame)) = frame
      BY SubSeqFull
    <2> QED
      BY <1>4, <2>1, <2>2
  <1>11. i \in DOMAIN file
    BY <1>7, <1>8, LenProperties DEF TypeOK
  <1>12. SubSeq(file, i, i + records[n]) = Frame(n)
    BY <1>2, <1>9, <1>10
  <1> QED
    BY <1>11, <1>12

LEMMA InvariantCorrect == Spec => []WalInvariant
  <1>1. Init => WalInvariant
    BY TypeInit DEF Init, WalInvariant, FrameOnItsWay, AckedWhole, Appending
  <1>2. WalInvariant /\ [Next]_vars => WalInvariant'
    BY TypeNext, FrameNext, AckedNext DEF WalInvariant
  <1> QED
    BY <1>1, <1>2, PTL DEF Spec

(* A record whose append returned Ok is in the file from then on, whole    *)
(* and in one piece, after errors, crashes and any number of openings.     *)
THEOREM AckedIsDurable == Spec => []AckedStays
  <1>1. WalInvariant => AckedStays
    BY WholeIsThere DEF WalInvariant, AckedWhole, AckedStays, TypeOK
  <1> QED
    BY <1>1, InvariantCorrect, PTL

-----------------------------------------------------------------------------
(* Recovery. Framed, with the sizes of the records as a parameter and a    *)
(* frame unit by unit, so that it is a constant formula about a sequence.  *)
Unit(n, k) == [record |-> n, unit |-> k]

FramesOf(sizes, units) ==
    /\ units # <<>> => units[1].unit = 0
    /\ \A i \in 1..Len(units) : units[i].unit = 0 =>
          /\ units[i].record \in DOMAIN sizes
          /\ i + sizes[units[i].record] <= Len(units)
          /\ \A k \in 0..sizes[units[i].record] :
                units[i + k] = Unit(units[i].record, k)
          /\ i + sizes[units[i].record] < Len(units) =>
                /\ units[i + sizes[units[i].record] + 1].unit = 0
                /\ units[i + sizes[units[i].record] + 1].record > units[i].record

IsFrame(sizes, n, frame) ==
    /\ Len(frame) = sizes[n] + 1
    /\ \A k \in 0..sizes[n] : frame[k + 1] = Unit(n, k)

LEMMA JoinElements ==
    ASSUME NEW S, NEW s \in Seq(S), NEW t \in Seq(S)
    PROVE  /\ Len(s) \in Nat /\ Len(t) \in Nat
           /\ Len(Join(s, t)) = Len(s) + Len(t)
           /\ \A i \in 1..Len(s) : Join(s, t)[i] = s[i]
           /\ \A i \in 1..Len(t) : Join(s, t)[Len(s) + i] = t[i]
  <1>1. Len(s) \in Nat /\ Len(t) \in Nat
    BY LenProperties
  <1>2. Len(s \o t) = Len(s) + Len(t)
    BY ConcatProperties
  <1>3. \A i \in 1..Len(s) + Len(t) :
           (s \o t)[i] = IF i <= Len(s) THEN s[i] ELSE t[i - Len(s)]
    BY <1>1, ConcatProperties
  <1>4. ASSUME NEW i \in 1..Len(s) PROVE (s \o t)[i] = s[i]
    BY <1>1, <1>3
  <1>5. ASSUME NEW i \in 1..Len(t) PROVE (s \o t)[Len(s) + i] = t[i]
    <2>1. Len(s) + i \in 1..Len(s) + Len(t) /\ ~ Len(s) + i <= Len(s) /\ Len(s) + i - Len(s) = i
      BY <1>1
    <2> QED
      BY <1>3, <2>1
  <1> QED
    BY <1>1, <1>2, <1>4, <1>5 DEF Join

LEMMA FrameUnits ==
    ASSUME TypeOK, NEW n \in DOMAIN records
    PROVE  IsFrame(records, n, Frame(n))
  <1>1. records[n] \in Nat \ {0} /\ Length(n) \in Seq(Units) /\ Len(Length(n)) = 1
        /\ Body(n) \in Seq(Units)
    BY FrameType
  <1>2. Len(Body(n)) = records[n]
    BY <1>1 DEF Body
  <1>3. Frame(n) = Join(Length(n), Body(n))
    BY DEF Frame, Join
  <1>4. /\ Len(Frame(n)) = 1 + records[n]
        /\ Frame(n)[1] = Length(n)[1]
        /\ \A k \in 1..records[n] : Frame(n)[1 + k] = Body(n)[k]
    <2>1. PICK head \in Seq(Units) : head = Length(n)
      BY <1>1
    <2>2. PICK body \in Seq(Units) : body = Body(n)
      BY <1>1
    <2>3. /\ Len(Join(head, body)) = Len(head) + Len(body)
          /\ \A i \in 1..Len(head) : Join(head, body)[i] = head[i]
          /\ \A i \in 1..Len(body) : Join(head, body)[Len(head) + i] = body[i]
      BY JoinElements
    <2>4. Frame(n) = Join(head, body) /\ Len(head) = 1 /\ Len(body) = records[n]
      BY <1>1, <1>2, <1>3, <2>1, <2>2
    <2>5. 1 \in 1..Len(head)
      BY <2>4
    <2> QED
      BY <2>1, <2>2, <2>3, <2>4, <2>5
  <1>5. Length(n)[1] = Unit(n, 0) /\ \A k \in 1..records[n] : Body(n)[k] = Unit(n, k)
    BY DEF Length, Body, Unit
  <1>6. ASSUME NEW k \in 0..records[n] PROVE Frame(n)[k + 1] = Unit(n, k)
    <2>1. CASE k = 0
      BY <1>4, <1>5, <2>1
    <2>2. CASE k \in 1..records[n]
      <3>1. k + 1 = 1 + k
        BY <1>1
      <3>2. Frame(n)[1 + k] = Body(n)[k] /\ Body(n)[k] = Unit(n, k)
        BY <1>4, <1>5, <2>2
      <3> QED
        BY <3>1, <3>2
    <2> QED
      BY <1>1, <2>1, <2>2
  <1> QED
    BY <1>1, <1>4, <1>6 DEF IsFrame

(* A frame read in one piece is one read unit by unit. *)
LEMMA FrameRead ==
    ASSUME TypeOK, NEW n \in DOMAIN records, NEW units \in Seq(Units),
           NEW i \in 1..Len(units), i + records[n] <= Len(units)
    PROVE  SubSeq(units, i, i + records[n]) = Frame(n)
              <=> \A k \in 0..records[n] : units[i + k] = Unit(n, k)
  <1>1. records[n] \in Nat \ {0} /\ Frame(n) \in Seq(Units) /\ Len(units) \in Nat
    BY FrameType, LenProperties
  <1>2. Len(Frame(n)) = records[n] + 1 /\ \A k \in 0..records[n] : Frame(n)[k + 1] = Unit(n, k)
    BY FrameUnits DEF IsFrame
  <1> DEFINE piece == SubSeq(units, i, i + records[n])
  <1>3. piece \in Seq(Units) /\ Len(piece) = records[n] + 1
        /\ \A k \in 1..records[n] + 1 : piece[k] = units[i + k - 1]
    <2>1. i \in 1..Len(units) + 1 /\ i + records[n] \in i - 1 .. Len(units)
      BY <1>1
    <2>2. \A k \in i .. i + records[n] : units[k] \in Units
      BY <1>1, ElementOfSeq
    <2>3. piece \in Seq(Units)
      BY <1>1, <2>2, SubSeqProperties
    <2>4. Len(piece) = records[n] + 1
      BY <1>1, <2>1, <2>2, SubSeqProperties
    <2>5. \A k \in 1..records[n] + 1 : piece[k] = units[i + k - 1]
      BY <1>1, <2>1, <2>2, SubSeqProperties
    <2> QED
      BY <2>3, <2>4, <2>5
  <1>4. \A k \in 0..records[n] : piece[k + 1] = units[i + k]
    <2> SUFFICES ASSUME NEW k \in 0..records[n] PROVE piece[k + 1] = units[i + k]
      OBVIOUS
    <2>1. k + 1 \in 1..records[n] + 1 /\ i + (k + 1) - 1 = i + k
      BY <1>1
    <2> QED
      BY <1>3, <2>1
  <1>5. ASSUME piece = Frame(n), NEW k \in 0..records[n] PROVE units[i + k] = Unit(n, k)
    BY <1>2, <1>4, <1>5
  <1>6. ASSUME \A k \in 0..records[n] : units[i + k] = Unit(n, k) PROVE piece = Frame(n)
    <2>1. ASSUME NEW k \in 1..Len(piece) PROVE piece[k] = Frame(n)[k]
      <3>1. k - 1 \in 0..records[n] /\ (k - 1) + 1 = k
        BY <1>1, <1>3
      <3> QED
        BY <1>2, <1>4, <1>6, <3>1
    <2> QED
      BY <1>1, <1>2, <1>3, <2>1, SeqEqual
  <1> QED
    BY <1>5, <1>6

LEMMA FramedIsFramesOf ==
    TypeOK /\ Representable =>
        \A units \in Seq(Units) : Framed(units) <=> FramesOf(records, units)
  <1> SUFFICES ASSUME TypeOK, Representable, NEW units \in Seq(Units)
               PROVE  Framed(units) <=> FramesOf(records, units)
    OBVIOUS
  <1>0. \A n \in DOMAIN records : Says(n) = records[n]
    <2>1. \A n \in DOMAIN records : records[n] \in Nat /\ records[n] < LengthSpace
      BY FrameType DEF Representable
    <2>2. \A m \in Nat : m < LengthSpace => m % LengthSpace = m
      BY WalAssumption
    <2> QED
      BY <2>1, <2>2 DEF Says
  <1>1. Len(units) \in Nat /\ DOMAIN units = 1..Len(units)
    BY LenProperties
  <1>2. ASSUME Framed(units), NEW i \in 1..Len(units), units[i].unit = 0
        PROVE  \A k \in 0..records[units[i].record] :
                  units[i + k] = Unit(units[i].record, k)
    <2>1. /\ units[i].record \in DOMAIN records
          /\ i + records[units[i].record] <= Len(units)
          /\ SubSeq(units, i, i + records[units[i].record]) = Frame(units[i].record)
      BY <1>0, <1>1, <1>2 DEF Framed
    <2> QED
      BY <2>1, FrameRead
  <1>3. ASSUME FramesOf(records, units), NEW i \in 1..Len(units), units[i].unit = 0
        PROVE  SubSeq(units, i, i + records[units[i].record]) = Frame(units[i].record)
    <2>1. /\ units[i].record \in DOMAIN records
          /\ i + records[units[i].record] <= Len(units)
          /\ \A k \in 0..records[units[i].record] : units[i + k] = Unit(units[i].record, k)
      BY <1>3 DEF FramesOf
    <2> QED
      BY <2>1, FrameRead
  <1>4. Framed(units) => FramesOf(records, units)
    BY <1>0, <1>1, <1>2 DEF Framed, FramesOf
  <1>5. FramesOf(records, units) => Framed(units)
    BY <1>0, <1>1, <1>3 DEF Framed, FramesOf
  <1> QED
    BY <1>4, <1>5

Lengths == Seq(Nat \ {0})

(* A beginning that ends with a frame's last unit, or before a length, is  *)
(* made of whole frames as well.                                           *)
LEMMA BeginningFramed ==
    ASSUME NEW sizes \in Lengths, NEW p \in Seq(Units), NEW q \in Seq(Units),
           FramesOf(sizes, Join(p, q)),
           \/ p = <<>>
           \/ q = <<>>
           \/ q[1].unit = 0
           \/ p[Len(p)].unit = sizes[p[Len(p)].record]
    PROVE  FramesOf(sizes, p)
  <1>1. PICK s \in Seq(Units) : s = Join(p, q)
    BY JoinLaws
  <1>2. /\ Len(p) \in Nat /\ Len(q) \in Nat /\ Len(s) = Len(p) + Len(q)
        /\ \A i \in 1..Len(p) : s[i] = p[i]
        /\ \A i \in 1..Len(q) : s[Len(p) + i] = q[i]
    BY <1>1, JoinElements
  <1>3. FramesOf(sizes, s)
    BY <1>1
  <1>4. p # <<>> => p[1].unit = 0
    <2> SUFFICES ASSUME p # <<>> PROVE p[1].unit = 0
      OBVIOUS
    <2>1. 1 \in 1..Len(p) /\ s # <<>>
      BY <1>2, EmptySeq
    <2> QED
      BY <1>2, <1>3, <2>1 DEF FramesOf
  <1>5. SUFFICES ASSUME NEW i \in 1..Len(p), p[i].unit = 0
                 PROVE  /\ p[i].record \in DOMAIN sizes
                        /\ i + sizes[p[i].record] <= Len(p)
                        /\ \A k \in 0..sizes[p[i].record] : p[i + k] = Unit(p[i].record, k)
                        /\ i + sizes[p[i].record] < Len(p) =>
                              /\ p[i + sizes[p[i].record] + 1].unit = 0
                              /\ p[i + sizes[p[i].record] + 1].record > p[i].record
    BY <1>4 DEF FramesOf
  <1> DEFINE n == p[i].record
  <1>6. i \in 1..Len(s) /\ s[i] = p[i]
    BY <1>2
  <1>7. /\ n \in DOMAIN sizes
        /\ i + sizes[n] <= Len(s)
        /\ \A k \in 0..sizes[n] : s[i + k] = Unit(n, k)
        /\ i + sizes[n] < Len(s) => s[i + sizes[n] + 1].unit = 0 /\ s[i + sizes[n] + 1].record > n
    BY <1>3, <1>5, <1>6 DEF FramesOf
  <1>8. sizes[n] \in Nat \ {0}
    BY <1>7, ElementOfSeq, LenProperties DEF Lengths
  <1> HIDE DEF n
  <1>9. i + sizes[n] <= Len(p)
    <2> SUFFICES ASSUME ~ i + sizes[n] <= Len(p) PROVE FALSE
      OBVIOUS
    <2>1. /\ Len(p) - i \in 0..sizes[n] /\ i + (Len(p) - i) = Len(p)
          /\ Len(p) - i # sizes[n]
      BY <1>2, <1>5, <1>8
    <2>2. p[Len(p)] = Unit(n, Len(p) - i)
      <3>1. Len(p) \in 1..Len(p)
        BY <1>2, <1>5
      <3> QED
        BY <1>2, <1>7, <2>1, <3>1
    <2>3. Len(p) + 1 - i \in 0..sizes[n] /\ i + (Len(p) + 1 - i) = Len(p) + 1
          /\ Len(p) + 1 - i # 0
      BY <1>2, <1>5, <1>8
    <2>4. s[Len(p) + 1] = Unit(n, Len(p) + 1 - i)
      BY <1>7, <2>3
    <2>5. 1 \in 1..Len(q)
      BY <1>2, <1>5, <1>7, <1>8
    <2>6. q[1] = Unit(n, Len(p) + 1 - i)
      BY <1>2, <2>4, <2>5
    <2>7. p # <<>> /\ q # <<>>
      BY <1>2, <1>5, <2>5, EmptySeq
    <2> QED
      BY <2>1, <2>2, <2>3, <2>6, <2>7 DEF Unit
  <1>10. ASSUME NEW k \in 0..sizes[n] PROVE p[i + k] = Unit(n, k)
    <2>1. i + k \in 1..Len(p)
      BY <1>2, <1>5, <1>8, <1>9
    <2> QED
      BY <1>2, <1>7, <2>1
  <1>11. ASSUME i + sizes[n] < Len(p)
         PROVE  p[i + sizes[n] + 1].unit = 0 /\ p[i + sizes[n] + 1].record > n
    <2>1. i + sizes[n] + 1 \in 1..Len(p) /\ i + sizes[n] < Len(s)
      BY <1>2, <1>5, <1>8, <1>11
    <2> QED
      BY <1>2, <1>7, <2>1
  <1> QED
    BY <1>7, <1>9, <1>10, <1>11 DEF n

(* The frame of a later record may follow. *)
LEMMA OneFrameMore ==
    ASSUME NEW sizes \in Lengths, NEW p \in Seq(Units), NEW f \in Seq(Units),
           FramesOf(sizes, p), NEW n \in DOMAIN sizes, IsFrame(sizes, n, f),
           \A i \in 1..Len(p) : p[i].unit = 0 => p[i].record < n
    PROVE  FramesOf(sizes, Join(p, f))
  <1>1. PICK s \in Seq(Units) : s = Join(p, f)
    BY JoinLaws
  <1>2. /\ Len(p) \in Nat /\ Len(f) \in Nat /\ Len(s) = Len(p) + Len(f)
        /\ \A i \in 1..Len(p) : s[i] = p[i]
        /\ \A i \in 1..Len(f) : s[Len(p) + i] = f[i]
    BY <1>1, JoinElements
  <1>3. sizes[n] \in Nat \ {0} /\ n \in Nat
    BY ElementOfSeq, LenProperties DEF Lengths
  <1>4. /\ Len(f) = sizes[n] + 1
        /\ \A k \in 0..sizes[n] : s[Len(p) + 1 + k] = Unit(n, k)
    <2>1. Len(f) = sizes[n] + 1
      BY DEF IsFrame
    <2>2. ASSUME NEW k \in 0..sizes[n] PROVE s[Len(p) + 1 + k] = Unit(n, k)
      <3>1. k + 1 \in 1..Len(f) /\ Len(p) + (k + 1) = Len(p) + 1 + k
        BY <1>2, <1>3, <2>1
      <3>2. f[k + 1] = Unit(n, k)
        BY DEF IsFrame
      <3>3. s[Len(p) + (k + 1)] = f[k + 1]
        BY <1>2, <3>1
      <3> QED
        BY <3>1, <3>2, <3>3
    <2> QED
      BY <2>1, <2>2
  <1>5. s[Len(p) + 1] = Unit(n, 0)
    <2>1. 0 \in 0..sizes[n] /\ Len(p) + 1 + 0 = Len(p) + 1
      BY <1>2, <1>3
    <2> QED
      BY <1>4, <2>1
  <1>6. s[1].unit = 0
    <2>1. CASE Len(p) = 0
      BY <1>5, <2>1 DEF Unit
    <2>2. CASE Len(p) # 0
      <3>1. p # <<>> /\ 1 \in 1..Len(p)
        BY <1>2, <2>2, EmptySeq
      <3> QED
        BY <1>2, <3>1 DEF FramesOf
    <2> QED
      BY <2>1, <2>2
  <1>7. SUFFICES ASSUME NEW i \in 1..Len(s), s[i].unit = 0
                 PROVE  /\ s[i].record \in DOMAIN sizes
                        /\ i + sizes[s[i].record] <= Len(s)
                        /\ \A k \in 0..sizes[s[i].record] : s[i + k] = Unit(s[i].record, k)
                        /\ i + sizes[s[i].record] < Len(s) =>
                              /\ s[i + sizes[s[i].record] + 1].unit = 0
                              /\ s[i + sizes[s[i].record] + 1].record > s[i].record
    BY <1>1, <1>6 DEF FramesOf
  <1> DEFINE m == s[i].record
  <1>8. CASE i <= Len(p)
    <2>1. i \in 1..Len(p) /\ s[i] = p[i]
      BY <1>2, <1>7, <1>8
    <2>2. /\ m \in DOMAIN sizes /\ m < n
          /\ i + sizes[m] <= Len(p)
          /\ \A k \in 0..sizes[m] : p[i + k] = Unit(m, k)
          /\ i + sizes[m] < Len(p) => p[i + sizes[m] + 1].unit = 0 /\ p[i + sizes[m] + 1].record > m
      BY <1>7, <2>1 DEF FramesOf
    <2>3. sizes[m] \in Nat \ {0} /\ m \in Nat
      BY <2>2, ElementOfSeq, LenProperties DEF Lengths
    <2> HIDE DEF m
    <2>4. ASSUME NEW k \in 0..sizes[m] PROVE s[i + k] = Unit(m, k)
      <3>1. i + k \in 1..Len(p)
        BY <1>2, <2>1, <2>2, <2>3
      <3> QED
        BY <1>2, <2>2, <3>1
    <2>5. CASE i + sizes[m] < Len(p)
      <3>1. i + sizes[m] + 1 \in 1..Len(p)
        BY <1>2, <2>1, <2>3, <2>5
      <3>2. s[i + sizes[m] + 1].unit = 0 /\ s[i + sizes[m] + 1].record > m
        BY <1>2, <2>2, <2>5, <3>1
      <3>3. i + sizes[m] <= Len(s)
        BY <1>2, <2>1, <2>2, <2>3
      <3> QED
        BY <2>2, <2>4, <3>2, <3>3 DEF m
    <2>6. CASE i + sizes[m] = Len(p)
      <3>1. i + sizes[m] + 1 = Len(p) + 1
        BY <2>6
      <3>2. s[i + sizes[m] + 1].unit = 0 /\ s[i + sizes[m] + 1].record > m
        BY <1>3, <1>5, <2>2, <2>3, <3>1 DEF Unit
      <3>3. i + sizes[m] <= Len(s)
        BY <1>2, <2>6
      <3> QED
        BY <2>2, <2>4, <3>2, <3>3 DEF m
    <2>7. i + sizes[m] < Len(p) \/ i + sizes[m] = Len(p)
      <3>1. i + sizes[m] <= Len(p)
        BY <2>2
      <3>2. Len(p) \in Nat /\ i \in Nat
        BY <2>1, LenProperties
      <3> QED
        BY <2>3, <3>1, <3>2
    <2> QED
      BY <2>5, <2>6, <2>7
  <1>9. CASE i > Len(p)
    <2>1. i - (Len(p) + 1) \in 0..sizes[n] /\ Len(p) + 1 + (i - (Len(p) + 1)) = i
      BY <1>2, <1>3, <1>4, <1>7, <1>9
    <2>2. s[i] = Unit(n, i - (Len(p) + 1))
      BY <1>4, <2>1
    <2>3. i = Len(p) + 1 /\ m = n
      BY <1>2, <1>7, <2>1, <2>2 DEF Unit
    <2>4. i + sizes[n] = Len(s)
      BY <1>2, <1>3, <1>4, <2>3
    <2>5. ~ i + sizes[n] < Len(s) /\ i + sizes[n] <= Len(s)
      BY <1>2, <2>4
    <2> QED
      BY <1>4, <2>3, <2>5
  <1> QED
    BY <1>2, <1>7, <1>8, <1>9

LEMMA FramesOfMore ==
    ASSUME NEW sizes \in Lengths, NEW more \in Lengths, NEW p \in Seq(Units),
           FramesOf(sizes, p), \A n \in DOMAIN sizes : n \in DOMAIN more /\ more[n] = sizes[n]
    PROVE  FramesOf(more, p)
  BY DEF FramesOf

-----------------------------------------------------------------------------
(* Until it is taken, the length of the running append is whole; and a     *)
(* stream that lost no end of a frame is made of whole frames.             *)
LengthWhole  == pc = "length" => rest = Length(Current)
IntactFramed == ~ torn => FramesOf(records, Stream)

LogInvariant == WalInvariant /\ LengthWhole /\ IntactFramed

LEMMA RecordsType ==
    ASSUME TypeOK
    PROVE  records \in Lengths /\ Len(records) \in Nat /\ DOMAIN records = 1..Len(records)
  <1>1. Len(records) \in Nat /\ DOMAIN records = 1..Len(records)
    BY LenProperties DEF TypeOK
  <1>2. \A n \in 1..Len(records) : records[n] \in Nat \ {0}
    BY <1>1, FrameType
  <1>3. records = [n \in 1..Len(records) |-> records[n]]
    BY <1>1 DEF TypeOK
  <1> QED
    BY <1>1, <1>2, <1>3 DEF Lengths

LEMMA RecordsTypeNext ==
    TypeOK' => records' \in Lengths /\ Len(records') \in Nat /\ DOMAIN records' = 1..Len(records')
  <1>1. TypeOK => records \in Lengths /\ Len(records) \in Nat /\ DOMAIN records = 1..Len(records)
    BY RecordsType
  <1>2. (TypeOK => records \in Lengths /\ Len(records) \in Nat /\ DOMAIN records = 1..Len(records))'
    BY <1>1, PTL
  <1> QED
    BY <1>2

LEMMA StreamType ==
    TypeOK => Stream \in Seq(Units) /\ Join(buffer, Pending) \in Seq(Units)
  BY PendingType, StreamJoined, JoinLaws DEF TypeOK

LEMMA FrameUnitsNext ==
    TypeOK' => \A n \in DOMAIN records' :
                  Frame(n)' \in Seq(Units) /\ IsFrame(records', n, Frame(n)')
  <1>1. TypeOK => \A n \in DOMAIN records :
                     Frame(n) \in Seq(Units) /\ IsFrame(records, n, Frame(n))
    BY FrameType, FrameUnits
  <1>2. (TypeOK => \A n \in DOMAIN records :
                     Frame(n) \in Seq(Units) /\ IsFrame(records, n, Frame(n)))'
    BY <1>1, PTL
  <1> QED
    BY <1>2

(* The frame of a new record joins whole frames. *)
LEMMA BeginFramed ==
    ASSUME TypeOK, TypeOK', BeginAppend, FramesOf(records, Stream)
    PROVE  FramesOf(records', Stream')
  <1>1. PICK size \in Sizes : records' = Append(records, size)
    BY DEF BeginAppend
  <1>2. /\ Len(records') = Len(records) + 1 /\ Len(records) \in Nat
        /\ DOMAIN records = 1..Len(records) /\ DOMAIN records' = 1..Len(records')
        /\ \A n \in DOMAIN records : records'[n] = records[n]
    <2>1. Len(records) \in Nat /\ DOMAIN records = 1..Len(records)
      BY RecordsType
    <2>2. Len(records') = Len(records) + 1 /\ DOMAIN records' = 1..Len(records')
      BY <1>1, RecordsTypeNext, AppendProperties DEF TypeOK
    <2>3. \A n \in DOMAIN records : records'[n] = records[n]
      BY <1>1, <2>1, AppendProperties DEF TypeOK
    <2> QED
      BY <2>1, <2>2, <2>3
  <1>3. PICK old \in Seq(Units) : old = Stream
    BY StreamType
  <1>4. Stream = Join(file, buffer)
    <2>1. Pending = <<>>
      BY DEF BeginAppend, TypeOK, Pending
    <2> QED
      BY <2>1, JoinEmpty, StreamJoined DEF TypeOK
  <1>5. Current' = Len(records) + 1 /\ Current' \in DOMAIN records'
    BY <1>2 DEF Current
  <1>6. Pending' = Frame(Current)'
    <2>1. rest' = Length(Current)' /\ pc' = "length"
      BY <1>5 DEF BeginAppend, Length, Current
    <2> QED
      BY <2>1 DEF Pending, Frame
  <1>7. PICK frame \in Seq(Units) : frame = Frame(Current)' /\ IsFrame(records', Current', frame)
    <2>1. Frame(Current)' \in Seq(Units)
      BY <1>6, PendingTypeNext
    <2>2. IsFrame(records', Current', Frame(Current)')
      BY <1>5, FrameUnitsNext DEF Frame, Length, Body
    <2> QED
      BY <2>1, <2>2
  <1>8. Stream' = Join(old, frame)
    <2>1. file' = file /\ buffer' = buffer /\ file \in Seq(Units) /\ buffer \in Seq(Units)
      BY DEF BeginAppend, TypeOK
    <2>2. Join(Join(file, buffer), frame) = Join(file, Join(buffer, frame))
      BY <2>1, JoinLaws
    <2> QED
      BY <1>3, <1>4, <1>6, <1>7, <2>1, <2>2, StreamJoined
  <1>9. FramesOf(records', old)
    BY <1>2, <1>3, RecordsType, RecordsTypeNext, FramesOfMore
  <1>10. \A i \in 1..Len(old) : old[i].unit = 0 => old[i].record < Current'
    <2>1. \A i \in 1..Len(old) : old[i].unit = 0 => old[i].record \in DOMAIN records
      BY <1>3 DEF FramesOf
    <2> QED
      BY <1>2, <1>5, <2>1
  <1> QED
    BY <1>5, <1>7, <1>8, <1>9, <1>10, RecordsTypeNext, OneFrameMore

(* Of a refused length nothing reached the stream: it ends before it.      *)
LEMMA RefusedLengthFramed ==
    ASSUME TypeOK, LengthWhole, pc = "length", FramesOf(records, Stream)
    PROVE  FramesOf(records, Join(file, buffer))
  <1>1. Current \in DOMAIN records
    BY CurrentType DEF TypeOK, Appending
  <1>2. PICK frame \in Seq(Units) : frame = Frame(Current)
    BY <1>1, FrameType
  <1>3. Pending = frame
    BY <1>2 DEF Pending, Frame, LengthWhole
  <1>4. PICK start \in Seq(Units) : start = Join(file, buffer)
    BY JoinLaws DEF TypeOK
  <1>5. Stream = Join(start, frame)
    BY <1>2, <1>3, <1>4, StreamJoined, JoinLaws DEF TypeOK
  <1>6. frame[1].unit = 0
    <2>1. records[Current] \in Nat /\ 0 \in 0..records[Current]
      BY <1>1, FrameType
    <2>2. frame[0 + 1] = Unit(Current, 0)
      BY <1>1, <1>2, <2>1, FrameUnits DEF IsFrame
    <2> QED
      BY <2>2 DEF Unit
  <1> QED
    BY <1>4, <1>5, <1>6, RecordsType, BeginningFramed

(* A process that is killed where no frame is half written leaves whole frames. *)
LEMMA KilledFramed ==
    ASSUME TypeOK, FramesOf(records, Stream),
           file = <<>> \/ Last(file).unit = records[Last(file).record]
    PROVE  FramesOf(records, file)
  <1>1. PICK onway \in Seq(Units) : onway = Join(buffer, Pending)
    BY StreamType
  <1>2. Stream = Join(file, onway)
    BY <1>1, StreamJoined
  <1>3. file = <<>> \/ file[Len(file)].unit = records[file[Len(file)].record]
    BY DEF Last
  <1> QED
    BY <1>1, <1>2, <1>3, RecordsType, BeginningFramed DEF TypeOK

LEMMA LengthNext ==
    ASSUME TypeOK, LengthWhole, [Next]_vars PROVE LengthWhole'
  <1>1. CASE BeginAppend
    <2>1. PICK size \in Sizes : records' = Append(records, size)
      BY <1>1 DEF BeginAppend
    <2>2. Current' = Current + 1
      BY <2>1, AppendProperties DEF TypeOK, Current
    <2> QED
      BY <1>1, <2>2 DEF BeginAppend, LengthWhole, Length, Current
  <1>2. CASE TakeRest \/ DrainBuffer \/ PassRest \/ UNCHANGED vars
    BY <1>2 DEF TakeRest, DrainBuffer, PassRest, Passing, vars, LengthWhole, Length, Current
  <1> QED
    BY <1>1, <1>2 DEF Next, Open, WriteError, ReturnOk, Close, Closed, Crash, LengthWhole

LEMMA FramedNext ==
    ASSUME TypeOK, TypeOK', LengthWhole, IntactFramed, [Next]_vars
    PROVE  IntactFramed'
  <1> SUFFICES ASSUME ~ torn' PROVE FramesOf(records', Stream')
    BY DEF IntactFramed
  <1>1. file \in Seq(Units) /\ buffer \in Seq(Units)
    BY DEF TypeOK
  <1>2. ~ torn
    BY DEF Next, vars, Open, BeginAppend, TakeRest, DrainBuffer, PassRest, WriteError,
       ReturnOk, Close, Closed, Crash
  <1>3. FramesOf(records, Stream)
    BY <1>2 DEF IntactFramed
  <1>4. CASE BeginAppend
    BY <1>3, <1>4, BeginFramed
  <1>5. CASE (TakeRest \/ DrainBuffer \/ PassRest) /\ pc \in Appending
    <2>1. records' = records
      BY <1>5 DEF TakeRest, DrainBuffer, PassRest
    <2> QED
      BY <1>3, <1>5, <2>1, StreamStays
  <1>6. CASE DrainBuffer /\ pc = "closing"
    <2>1. PICK k \in 1..Len(buffer) :
             /\ file' = Join(file, SubSeq(buffer, 1, k))
             /\ buffer' = SubSeq(buffer, k + 1, Len(buffer))
      BY <1>6 DEF DrainBuffer, Join
    <2>2. Pending' = <<>> /\ Pending = <<>> /\ records' = records
      BY <1>6 DEF DrainBuffer, Pending, TypeOK
    <2>3. PICK nothing \in Seq(Units) : nothing = <<>>
      BY EmptySeq
    <2>4. Join(Join(file, SubSeq(buffer, 1, k)), Join(SubSeq(buffer, k + 1, Len(buffer)), nothing))
             = Join(file, Join(buffer, nothing))
      BY <1>1, MoveBeginning
    <2> QED
      BY <1>3, <2>1, <2>2, <2>3, <2>4, StreamJoined
  <1>7. CASE WriteError
    <2>1. pc \in {"length", "flush"} /\ records' = records /\ file' = file /\ buffer' = buffer
          /\ Pending' = <<>>
      BY <1>7 DEF WriteError, Draining, Passing, Pending
    <2>2. Stream' = Join(file, buffer)
      BY <1>1, <2>1, JoinEmpty, StreamJoined
    <2>3. CASE pc = "length"
      BY <1>3, <2>1, <2>2, <2>3, RefusedLengthFramed
    <2>4. CASE pc = "flush"
      <3>1. Pending = <<>>
        BY <2>4 DEF Pending, TypeOK
      <3>2. Stream = Join(file, buffer)
        BY <1>1, <3>1, JoinEmpty, StreamJoined
      <3> QED
        BY <1>3, <2>1, <2>2, <3>2
    <2> QED
      BY <2>1, <2>3, <2>4
  <1>8. CASE Crash
    <2>1. file = <<>> \/ Last(file).unit = records[Last(file).record]
      BY <1>8 DEF Crash
    <2>2. records' = records /\ file' = file /\ buffer' = <<>> /\ Pending' = <<>>
      BY <1>8 DEF Crash, Pending
    <2>3. Stream' = file
      BY <1>1, <2>2, JoinEmpty, StreamJoined
    <2> QED
      BY <1>3, <2>1, <2>2, <2>3, KilledFramed
  <1>9. CASE Open \/ ReturnOk \/ Close \/ Closed \/ UNCHANGED vars
    <2>1. Stream' = Stream /\ records' = records
      BY <1>9 DEF Open, ReturnOk, Close, Closed, vars, Stream, Pending, Body, Current
    <2> QED
      BY <1>3, <2>1
  <1> QED
    BY <1>4, <1>5, <1>6, <1>7, <1>8, <1>9
       DEF Next, TakeRest, DrainBuffer, Draining, PassRest, Passing, Appending

(* A whole frame in the file begins with its length. *)
LEMMA WholeHasLength ==
    ASSUME TypeOK, NEW n \in DOMAIN records, Whole(n)
    PROVE  \E i \in DOMAIN Stream : Stream[i] = Length(n)[1]
  <1>1. PICK before \in Seq(Units), after \in Seq(Units) :
           file = Join(before, Join(Frame(n), after))
    BY DEF Whole
  <1>2. PICK frame \in Seq(Units) : frame = Frame(n)
    BY FrameType
  <1>3. PICK onway \in Seq(Units) : onway = Join(buffer, Pending)
    BY StreamType
  <1>4. PICK tail \in Seq(Units) : tail = Join(after, onway)
    BY JoinLaws
  <1>5. PICK end \in Seq(Units) : end = Join(frame, tail)
    BY JoinLaws
  <1>6. Stream = Join(before, end)
    <2>1. Stream = Join(Join(before, Join(frame, after)), onway)
      BY <1>1, <1>2, <1>3, StreamJoined
    <2>2. Join(frame, after) \in Seq(Units)
          /\ Join(Join(before, Join(frame, after)), onway) = Join(before, Join(Join(frame, after), onway))
      BY JoinLaws
    <2>3. Join(Join(frame, after), onway) = end
      BY <1>4, <1>5, JoinLaws
    <2> QED
      BY <2>1, <2>2, <2>3
  <1>7. Len(frame) = records[n] + 1 /\ records[n] \in Nat /\ frame[0 + 1] = Unit(n, 0)
    <2>1. records[n] \in Nat /\ 0 \in 0..records[n]
      BY FrameType
    <2> QED
      BY <1>2, <2>1, FrameUnits DEF IsFrame
  <1>8. Len(end) = Len(frame) + Len(tail) /\ Len(tail) \in Nat /\ end[1] = frame[1]
    <2>1. 1 \in 1..Len(frame)
      BY <1>7
    <2> QED
      BY <1>5, <2>1, JoinElements
  <1>9. /\ Len(before) \in Nat /\ Len(Stream) = Len(before) + Len(end)
        /\ Stream[Len(before) + 1] = end[1]
    <2>1. 1 \in 1..Len(end)
      BY <1>7, <1>8
    <2>2. /\ Len(before) \in Nat /\ Len(Join(before, end)) = Len(before) + Len(end)
          /\ \A i \in 1..Len(end) : Join(before, end)[Len(before) + i] = end[i]
      BY JoinElements
    <2> QED
      BY <1>6, <2>1, <2>2
  <1>10. Len(before) + 1 \in DOMAIN Stream
    <2>1. DOMAIN Stream = 1..Len(Stream)
      BY StreamType, LenProperties
    <2> QED
      BY <1>7, <1>8, <1>9, <2>1
  <1>11. Stream[Len(before) + 1] = Length(n)[1]
    BY <1>7, <1>8, <1>9 DEF Unit, Length
  <1> QED
    BY <1>10, <1>11

LEMMA LogInvariantCorrect == Spec => []LogInvariant
  <1>1. Init => LengthWhole /\ IntactFramed
    <2> SUFFICES ASSUME Init PROVE LengthWhole /\ IntactFramed
      OBVIOUS
    <2>1. Stream = <<>> /\ Len(Stream) = 0
      BY JoinEmpty, EmptySeq, StreamJoined DEF Init, Pending
    <2> QED
      BY <2>1 DEF Init, LengthWhole, IntactFramed, FramesOf
  <1>2. WalInvariant /\ WalInvariant' /\ LengthWhole /\ IntactFramed /\ [Next]_vars
           => (LengthWhole /\ IntactFramed)'
    BY LengthNext, FramedNext DEF WalInvariant
  <1> QED
    BY <1>1, <1>2, InvariantCorrect, PTL DEF Spec, LogInvariant

(* As long as no frame lost its end and every length fits a u32, a reader  *)
(* that follows the lengths finds every acknowledged record, in the order  *)
(* of the appends and once.                                                *)
THEOREM IntactCanBeRead == Spec => []IntactIsRecoverable
  <1>1. LogInvariant => IntactIsRecoverable
    <2> SUFFICES ASSUME LogInvariant, ~ torn, Representable PROVE Recoverable
      BY DEF IntactIsRecoverable
    <2>1. Framed(Stream)
      BY StreamType, FramedIsFramesOf DEF LogInvariant, WalInvariant, IntactFramed
    <2>2. ASSUME NEW n \in acked PROVE \E i \in DOMAIN Stream : Stream[i] = Length(n)[1]
      BY WholeHasLength DEF LogInvariant, WalInvariant, AckedWhole, TypeOK
    <2> QED
      BY <2>1, <2>2 DEF Recoverable
  <1> QED
    BY <1>1, LogInvariantCorrect, PTL
=============================================================================
