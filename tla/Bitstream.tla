------------------------------ MODULE Bitstream ------------------------------
(***************************************************************************)
(* Reference definition of the compressed data of one chunk: the codes of  *)
(* its symbols one after the other, packed into bytes whose bit 0 comes    *)
(* first, the last byte filled up with zeros.  It is what the loops of     *)
(* do_encode produce bit by bit and what the decoder starts from.  A byte  *)
(* is the set of its bits that are 1.                                      *)
(***************************************************************************)
EXTENDS Partition, SequencesExt

(* The bits of the symbols data[from] .. data[to - 1]. *)
CodeBits(data, from, to, code) ==
  FlattenSeq([x \in 1 .. to - from |-> code[data[from + x - 1]]])

(* A sequence of bits as bytes of w bits, numbered from 0. *)
PackBits(bits, w) ==
  [q \in 0 .. UPDIV(Len(bits), w) - 1 |->
     {x \in 0 .. w - 1 : q * w + x < Len(bits) /\ bits[q * w + x + 1] = 1}]

(* The compressed chunk t of an input of n symbols cut for p threads. *)
PackedChunk(data, n, p, t, code, w) ==
  PackBits(CodeBits(data, ChunkStart(n, p, t), ChunkEnd(n, p, t), code), w)
===============================================================================
