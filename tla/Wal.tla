-------------------------------- MODULE Wal --------------------------------
(***************************************************************************)
(* WalWriter of rustafari-storage (wal.rs): an append-only file of frames, *)
(* each the length of a record and then the record, written through the    *)
(* BufWriter of the standard library. The disk may refuse any write, the   *)
(* process may be killed at any point, and the file is opened again.       *)
(*                                                                         *)
(* A unit is what reaches the file as a whole: a length, or a piece of a   *)
(* record.                                                                 *)
(***************************************************************************)
EXTENDS Integers, SequencesExt

CONSTANTS
    Sizes,        \* how many pieces a record may have
    Capacity,     \* units the BufWriter holds (8 KiB)
    LengthSpace,  \* pieces of a record whose length does not fit a u32 (4 GiB)
    MaxRecords    \* bound: append only below this number of records

ASSUME WalAssumption ==
    /\ Sizes \subseteq Nat \ {0} /\ Capacity \in Nat \ {0, 1}
    /\ LengthSpace \in Nat \ {0} /\ MaxRecords \in Nat

VARIABLES
    file,     \* the units in the file
    buffer,   \* what the BufWriter has not written yet
    draining, \* the BufWriter has begun to write its buffer out
    pc,       \* where append is
    rest,     \* what the current write_all has still to take
    records,  \* history: the size of each record append was called with
    acked,    \* history: the records whose append returned Ok
    torn      \* history: a frame was left without its end

vars == <<file, buffer, draining, pc, rest, records, acked, torn>>

Units == [record : Nat, unit : Nat]

(* Unit 0 of a record is its length: the four bytes of bytes.len() as u32, *)
(* which say less of a record they have no room for.                       *)
Says(n)   == records[n] % LengthSpace
Length(n) == <<[record |-> n, unit |-> 0]>>
Body(n)   == [k \in 1..records[n] |-> [record |-> n, unit |-> k]]
Frame(n)  == Length(n) \o Body(n)

Current == Len(records)

Appending == {"length", "body", "through", "flush"}

Init ==
    /\ file = <<>> /\ buffer = <<>> /\ rest = <<>> /\ records = <<>>
    /\ pc = "closed" /\ draining = FALSE /\ acked = {} /\ torn = FALSE

(* open: what is in the file stays, and everything is written after it.    *)
Open ==
    /\ pc = "closed"
    /\ pc' = "ready"
    /\ UNCHANGED <<file, buffer, draining, rest, records, acked, torn>>

-----------------------------------------------------------------------------
(* append: write_all of the length, write_all of the record, flush.        *)

BeginAppend ==
    /\ pc = "ready" /\ Current < MaxRecords
    /\ \E size \in Sizes : records' = Append(records, size)
    /\ rest' = Length(Current + 1)
    /\ pc' = "length"
    /\ UNCHANGED <<file, buffer, draining, acked, torn>>

Spare == Capacity - Len(buffer)

(* Fault for the runs: the buffer takes more than it has room for. *)
TakeRestAnyway ==
    /\ pc \in {"length", "body"} /\ ~ draining
    /\ buffer' = buffer \o rest
    /\ IF pc = "length" THEN pc' = "body" /\ rest' = Body(Current)
                        ELSE pc' = "flush" /\ rest' = <<>>
    /\ UNCHANGED <<file, draining, records, acked, torn>>

(* BufWriter::write_all of bytes there is room for, now or once the buffer *)
(* has been written out.                                                   *)
TakeRest ==
    /\ pc \in {"length", "body"} /\ ~ draining
    /\ Len(rest) <= Spare /\ Len(rest) < Capacity
    /\ buffer' = buffer \o rest
    /\ IF pc = "length" THEN pc' = "body" /\ rest' = Body(Current)
                        ELSE pc' = "flush" /\ rest' = <<>>
    /\ UNCHANGED <<file, draining, records, acked, torn>>

(* What the BufWriter has the system write next: its buffer, to make room, *)
(* to flush or to be closed, until it is empty; or a record that is larger *)
(* than the buffer.                                                        *)
Draining ==
    /\ buffer # <<>>
    /\ \/ pc \in {"length", "body"} /\ (draining \/ Len(rest) > Spare)
       \/ pc \in {"flush", "closing"}

(* Fault for the runs: a record exactly as large as the buffer fits neither way. *)
PassingLarger ==
    /\ buffer = <<>>
    /\ \/ pc = "body" /\ Len(rest) > Capacity
       \/ pc = "through"

Passing ==
    /\ buffer = <<>>
    /\ \/ pc = "body" /\ Len(rest) >= Capacity
       \/ pc = "through"

(* One write of the system: some of the bytes, or all. *)
DrainBuffer ==
    /\ Draining
    /\ \E k \in 1..Len(buffer) :
          /\ file' = file \o SubSeq(buffer, 1, k)
          /\ buffer' = SubSeq(buffer, k + 1, Len(buffer))
    /\ draining' = (buffer' # <<>>)
    /\ UNCHANGED <<pc, rest, records, acked, torn>>

PassRest ==
    /\ Passing
    /\ \E k \in 1..Len(rest) :
          /\ file' = file \o SubSeq(rest, 1, k)
          /\ rest' = SubSeq(rest, k + 1, Len(rest))
          /\ pc' = IF k = Len(rest) THEN "flush" ELSE "through"
    /\ UNCHANGED <<buffer, draining, records, acked, torn>>

(* Fault for the runs: what could not be written is forgotten. *)
WriteErrorClears ==
    /\ Draining \/ Passing
    /\ pc' = IF pc = "closing" THEN "closed" ELSE "ready"
    /\ buffer' = <<>> /\ rest' = <<>> /\ draining' = FALSE
    /\ torn' = (torn \/ pc \in {"body", "through"} \/ (pc = "closing" /\ buffer # <<>>))
    /\ UNCHANGED <<file, records, acked>>

(* The system refuses a write. append returns the error: the buffer keeps  *)
(* what it had left, the rest of the record is forgotten. At the end the   *)
(* buffer is gone as well.                                                 *)
WriteError ==
    /\ Draining \/ Passing
    /\ pc' = IF pc = "closing" THEN "closed" ELSE "ready"
    /\ buffer' = IF pc = "closing" THEN <<>> ELSE buffer
    /\ rest' = <<>> /\ draining' = FALSE
    /\ torn' = (torn \/ pc \in {"body", "through", "closing"})
    /\ UNCHANGED <<file, records, acked>>

(* Fault for the runs: append does not flush. *)
ReturnUnflushed ==
    /\ pc = "flush"
    /\ pc' = "ready"
    /\ acked' = acked \cup {Current}
    /\ UNCHANGED <<file, buffer, draining, rest, records, torn>>

ReturnOk ==
    /\ pc = "flush" /\ buffer = <<>>
    /\ pc' = "ready"
    /\ acked' = acked \cup {Current}
    /\ UNCHANGED <<file, buffer, draining, rest, records, torn>>

-----------------------------------------------------------------------------
(* The end of the writer. *)

(* Drop of the BufWriter tries to write what is left. *)
Close ==
    /\ pc = "ready"
    /\ pc' = "closing"
    /\ UNCHANGED <<file, buffer, draining, rest, records, acked, torn>>

Closed ==
    /\ pc = "closing" /\ buffer = <<>>
    /\ pc' = "closed"
    /\ UNCHANGED <<file, buffer, draining, rest, records, acked, torn>>

(* The process is killed. *)
Crash ==
    /\ pc # "closed"
    /\ pc' = "closed"
    /\ torn' = (torn \/ (file # <<>> /\ Last(file).unit # records[Last(file).record]))
    /\ buffer' = <<>> /\ rest' = <<>> /\ draining' = FALSE
    /\ UNCHANGED <<file, records, acked>>

Next ==
    \/ Open \/ BeginAppend \/ TakeRest \/ DrainBuffer \/ PassRest
    \/ WriteError \/ ReturnOk \/ Close \/ Closed \/ Crash

Spec == Init /\ [][Next]_vars

(* A write that was begun goes on: append runs on its caller's thread, and *)
(* every write of the system ends, with some bytes written or an error.    *)
Working ==
    TakeRest \/ DrainBuffer \/ PassRest \/ WriteError \/ ReturnOk \/ Closed

FairSpec == Spec /\ WF_vars(Working)

-----------------------------------------------------------------------------
(* Type invariant: what is buffered fits the buffer, and between appends   *)
(* there is nothing a caller still waits for.                              *)
TypeOK ==
    /\ pc \in Appending \cup {"closed", "ready", "closing"}
    /\ file \in Seq(Units) /\ buffer \in Seq(Units) /\ rest \in Seq(Units)
    /\ records \in Seq(Sizes) /\ Len(records) <= MaxRecords
    /\ acked \subseteq DOMAIN records
    /\ Len(buffer) <= Capacity
    /\ pc \in Appending => records # <<>>
    /\ pc \in {"closed", "ready", "flush", "closing"} => rest = <<>>
    /\ pc = "closed" => buffer = <<>>
    /\ draining \in BOOLEAN /\ torn \in BOOLEAN
    /\ draining => buffer # <<>> /\ pc \notin {"closed", "ready"}

(* Durability: a record whose append returned Ok is in the file, whole and *)
(* in one piece, whatever fails or crashes before or after.                *)
AckedStays ==
    \A n \in acked :
        \E i \in DOMAIN file : SubSeq(file, i, i + records[n]) = Frame(n)

(* Whole frames, one after the other, each of a later record than the one  *)
(* before: following the lengths leads from frame to frame to the end.     *)
Framed(units) ==
    /\ units # <<>> => units[1].unit = 0
    /\ \A i \in DOMAIN units : units[i].unit = 0 =>
          LET n    == units[i].record
              last == i + Says(n)
          IN  /\ n \in DOMAIN records /\ last <= Len(units)
              /\ SubSeq(units, i, last) = Frame(n)
              /\ last < Len(units) =>
                    units[last + 1].unit = 0 /\ units[last + 1].record > n

(* What the running append still has to hand over. *)
Pending == IF pc = "length" THEN rest \o Body(Current) ELSE rest

(* What is in the file, in the buffer and still in the hands of append.    *)
Stream == file \o (buffer \o Pending)

(* Recovery: a reader that follows the lengths from the start of the file  *)
(* finds records in the order they were appended, none twice and every one *)
(* that was acknowledged, up to one that is on its way.                    *)
Recoverable ==
    /\ Framed(Stream)
    /\ \A n \in acked : \E i \in DOMAIN Stream : Stream[i] = Length(n)[1]

(* Every length fits its four bytes. *)
Representable == \A n \in DOMAIN records : records[n] < LengthSpace

(* It is so as long as no frame lost its end and no record was too large   *)
(* for its length, however often the disk has refused writes and the file  *)
(* was opened again.                                                       *)
IntactIsRecoverable == ~ torn /\ Representable => Recoverable

(* Liveness: an append returns, whatever sizes of records meet whatever    *)
(* room in the buffer: some branch of write_all always takes what is left. *)
AppendReturns ==
    pc \in Appending ~> pc \in {"ready", "closed"}
=============================================================================
