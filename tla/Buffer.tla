------------------------------- MODULE Buffer -------------------------------
(***************************************************************************)
(* net/Buffer.cc: a vector buffer_ with the bytes received but not yet     *)
(* retrieved between readIndex_ and writeIndex_ (counted from 0), as a     *)
(* record and operators on it.  The caller respects the assertions at the  *)
(* head of an operation; those inside are in MovedFromBehind and Fits.     *)
(***************************************************************************)
EXTENDS Naturals, Sequences

CONSTANTS
    kInitPrependSize,
    kInitialSize,
    StackBuffer,    \* the size of ReadFd's second buffer
    Unset           \* a byte nobody has written

ASSUME BufferAssumption ==
    kInitPrependSize \in Nat /\ kInitialSize \in Nat /\ StackBuffer \in Nat

NewBuffer ==
    [buffer_ |-> [i \in 1 .. kInitPrependSize + kInitialSize |-> Unset],
     readIndex_ |-> kInitPrependSize, writeIndex_ |-> kInitPrependSize]

ReadableBytes(b) == b.writeIndex_ - b.readIndex_
WritableBytes(b) == Len(b.buffer_) - b.writeIndex_
PrependableBytes(b) == b.readIndex_

(* From Peek() to BeginWrite(). *)
Readable(b) == [i \in 1 .. ReadableBytes(b) |-> b.buffer_[b.readIndex_ + i]]

(* The vector v after a copy of the bytes s to v[at]. *)
Copied(v, at, s) ==
    [i \in 1 .. Len(v) |-> IF i \in at + 1 .. at + Len(s) THEN s[i - at] ELSE v[i]]

RetrieveAll(b) ==
    [b EXCEPT !.readIndex_ = kInitPrependSize, !.writeIndex_ = kInitPrependSize]

Retrieve(b, len) ==
    IF len < ReadableBytes(b) THEN [b EXCEPT !.readIndex_ = @ + len]
                              ELSE RetrieveAll(b)

Unwrite(b, len) == [b EXCEPT !.writeIndex_ = @ - len]

Prepend(b, s) ==
    [b EXCEPT !.buffer_ = Copied(@, b.readIndex_ - Len(s), s),
              !.readIndex_ = @ - Len(s)]

-----------------------------------------------------------------------------
(* Room for len more bytes: already there, in front, or by growing. *)
Grows(b, len) ==
    WritableBytes(b) + PrependableBytes(b) < len + kInitPrependSize

Moves(b, len) == WritableBytes(b) < len /\ ~Grows(b, len)

MovedFromBehind(b, len) == Moves(b, len) => kInitPrependSize < b.readIndex_

(* memcpy() of overlapping bytes, which its contract leaves undefined. *)
Overlaps(b, len) ==
    Moves(b, len) /\ b.readIndex_ < kInitPrependSize + ReadableBytes(b)

(* Mutation: the indices move without the bytes. *)
MakePlaceOnly(b, len) ==
    IF WritableBytes(b) >= len THEN b
    ELSE IF Moves(b, len)
    THEN [b EXCEPT !.readIndex_ = kInitPrependSize,
                   !.writeIndex_ = kInitPrependSize + ReadableBytes(b)]
    ELSE [b EXCEPT !.buffer_ = @ \o [i \in 1 .. len |-> Unset]]

CheckAndMakePlace(b, len) ==
    IF WritableBytes(b) >= len THEN b
    ELSE IF Moves(b, len)
    THEN [buffer_ |-> Copied(b.buffer_, kInitPrependSize, Readable(b)),
          readIndex_ |-> kInitPrependSize,
          writeIndex_ |-> kInitPrependSize + ReadableBytes(b)]
    ELSE [b EXCEPT !.buffer_ = [i \in 1 .. b.writeIndex_ + len |->
                                IF i <= Len(b.buffer_) THEN b.buffer_[i] ELSE Unset]]

Fits(b, len) == WritableBytes(CheckAndMakePlace(b, len)) >= len

(* Append(data, len); the name is taken by module Sequences. *)
AppendBytes(b, s) ==
    LET p == CheckAndMakePlace(b, Len(s))
    IN  [p EXCEPT !.buffer_ = Copied(@, p.writeIndex_, s),
                  !.writeIndex_ = @ + Len(s)]

(* One readv() into the free bytes and, when these are fewer than the      *)
(* stack buffer has, into the stack buffer behind them.                    *)
ReadLimit(b) ==
    WritableBytes(b) + (IF WritableBytes(b) >= StackBuffer THEN 0 ELSE StackBuffer)

Extra(b, s) == Len(s) - WritableBytes(b)

Filled(b, s) ==
    [b EXCEPT !.buffer_ = Copied(@, b.writeIndex_, SubSeq(s, 1, WritableBytes(b))),
              !.writeIndex_ = Len(b.buffer_)]

ReadFd(b, s) ==
    IF Len(s) <= WritableBytes(b)
    THEN [b EXCEPT !.buffer_ = Copied(@, b.writeIndex_, s),
                   !.writeIndex_ = @ + Len(s)]
    ELSE AppendBytes(Filled(b, s), SubSeq(s, WritableBytes(b) + 1, Len(s)))

(* Mutation: does not look at the last two bytes. *)
FindCRLFBeforeEnd(b) ==
    {n \in 0 .. ReadableBytes(b) - 3 :
        Readable(b)[n + 1] = "CR" /\ Readable(b)[n + 2] = "LF"}

(* The bytes in front of the first CRLF; {} is the null pointer. *)
FindCRLF(b) ==
    {n \in 0 .. ReadableBytes(b) - 2 :
        /\ Readable(b)[n + 1] = "CR" /\ Readable(b)[n + 2] = "LF"
        /\ \A m \in 0 .. n - 1 :
              ~(Readable(b)[m + 1] = "CR" /\ Readable(b)[m + 2] = "LF")}
=============================================================================
