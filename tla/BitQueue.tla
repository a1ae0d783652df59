------------------------------- MODULE BitQueue -------------------------------
(***************************************************************************)
(* What bitfile.cpp promises its caller: a file of bits.  While it is      *)
(* written it is a queue to which bits are appended; closing it, or        *)
(* aligning it, fills the last byte up; afterwards the same bits are taken *)
(* out in the same order, in portions that need not be those in which they *)
(* were put.                                                               *)
(***************************************************************************)
EXTENDS Integers, SequencesExt

CONSTANT ByteBits  \* the bits of a byte

VARIABLES queue,   \* the bits that were put and not yet taken
          skipped, \* the number of bits that were taken
          reading, \* the file is open for reading, not for writing
          io       \* the last call: the number of bits asked for, and those
                   \* that were put or taken

vars == <<queue, skipped, reading, io>>

Bits == {0, 1}

Call(n, bits) == [asked |-> n, bits |-> bits]
NoBits == Call(0, << >>)

Init == /\ queue = << >>
        /\ skipped = 0
        /\ reading = FALSE
        /\ io = NoBits

Put == /\ ~ reading
       /\ io'.bits \in Seq(Bits)
       /\ io'.asked = Len(io'.bits)
       /\ queue' = queue \o io'.bits
       /\ UNCHANGED <<skipped, reading>>

(* The fewest bits that fill up the last byte. *)
Filling == (ByteBits - (Len(queue) % ByteBits)) % ByteBits

Align(fill) == /\ ~ reading
               /\ queue' = queue \o [x \in 1 .. Filling |-> fill]
               /\ io' = NoBits
               /\ UNCHANGED <<skipped, reading>>

Close == /\ ~ reading
         /\ reading' = TRUE
         /\ queue' = queue \o [x \in 1 .. Filling |-> 0]
         /\ io' = NoBits
         /\ UNCHANGED skipped

Take(n) == /\ n <= Len(queue)
           /\ queue' = SubSeq(queue, n + 1, Len(queue))
           /\ skipped' = skipped + n

Get(n) == /\ reading
          /\ Take(n)
          /\ io' = Call(n, SubSeq(queue, 1, n))
          /\ UNCHANGED reading

(* The caller asks for more than there is: what was taken on the way is    *)
(* lost, and nothing is returned.                                          *)
EndOfFile == /\ reading
             /\ io'.asked > Len(queue)
             /\ io' = Call(io'.asked, << >>)
             /\ \E n \in 0 .. Len(queue) : Take(n)
             /\ UNCHANGED reading

(* The rest of the byte from which bits were taken is dropped. *)
SkipToByte == /\ reading
              /\ Take((ByteBits - (skipped % ByteBits)) % ByteBits)
              /\ io' = NoBits
              /\ UNCHANGED reading

Next == \/ Put
        \/ \E fill \in Bits : Align(fill)
        \/ Close
        \/ \E n \in 0 .. Len(queue) : Get(n)
        \/ EndOfFile
        \/ SkipToByte

Spec == Init /\ [][Next]_vars
===============================================================================
