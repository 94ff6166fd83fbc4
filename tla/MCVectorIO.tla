----------------------------- MODULE MCVectorIO -----------------------------
(***************************************************************************)
(* Small instances of ZbcVectorIO.  A sector is two bytes and a page two   *)
(* sectors, so that a buffer can start at a page, between two sectors or   *)
(* inside one.  Buffers lie far apart.                                     *)
(***************************************************************************)
EXTENDS ZbcVectorIO

CONSTANTS Lens,      \* lengths of a buffer, in sectors
          Bases,     \* where a buffer starts, in bytes from a page
          MaxVecs,   \* most buffers of a request
          Offsets,   \* first device sectors
          TestLens,  \* the same, of requests in test mode
          TestOffsets

Pre(iov) ==
  LET before[k \in 1..(Len(iov) + 1)] ==
        IF k = 1 THEN 0 ELSE before[k - 1] + iov[k - 1].len
  IN  before

Request(op, iov, first, test) ==
  [op |-> op, iov |-> iov, pre |-> Pre(iov), offset |-> first,
   test |-> test, native |-> test]

\* Buffers of any length and alignment, each in pages of its own.
Irregular(lens, max) ==
  UNION {[1..n -> [base : Bases, len : lens]] : n \in 0..max}

Spread(iov) ==
  [k \in 1..Len(iov) |-> [base |-> 64 * k + iov[k].base, len |-> iov[k].len]]

\* One buffer cut by zbc_map_iov, as the test programs and tools do.
Mapped ==
  {zbc_map_iov(b, n, MaxVecs, l) : b \in Bases, n \in 0..6, l \in 1..2}

\* Handles in test mode use native commands, the others do not.
MCRequests ==
  {Request(op, c[1], c[2], c[3]) : op \in {"read", "write"}, c \in
     (({Spread(v) : v \in Irregular(Lens, MaxVecs)} \cup Mapped)
        \X Offsets \X {FALSE})
     \cup
     ({Spread(v) : v \in Irregular(TestLens, 2)} \X TestOffsets \X {TRUE})}
=============================================================================
