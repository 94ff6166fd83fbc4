---------------------------- MODULE ZbcRequests ----------------------------
(***************************************************************************)
(* The vector read and write requests a program can make of libzbc, and    *)
(* where each of their sectors belongs on the device.                      *)
(***************************************************************************)
EXTENDS Integers, Sequences

CONSTANTS
  Requests,     \* the calls a program may make, see IsRequest
  Sectors       \* zbd_sectors: capacity of the device in 512 B sectors

(***************************************************************************)
(* A request names the caller's buffers iov, each with its address and its *)
(* length in sectors, and the first device sector.  pre[i] is the number   *)
(* of sectors of the buffers before the i-th one, so that the last element *)
(* of pre is what zbc_iov_count returns.  test says whether the handle has *)
(* ZBC_O_DEVTEST, so that requests are not clipped to the capacity, and    *)
(* native whether ATA commands, not SCSI ones, carry the data.             *)
(***************************************************************************)
Vector == [base : Nat, len : Nat]

IsRequest(r) ==
  /\ r.op \in {"read", "write"}
  /\ r.iov \in Seq(Vector)
  /\ r.offset \in Nat
  /\ r.test \in BOOLEAN /\ r.native \in BOOLEAN
  /\ r.pre \in [1..(Len(r.iov) + 1) -> Nat]
  /\ r.pre[1] = 0
  /\ \A i \in 1..Len(r.iov) : r.pre[i + 1] = r.pre[i] + r.iov[i].len

\* a / b rounded up.
CeilDiv(a, b) == (a + b - 1) \div b

zbc_iov_count(r) == r.pre[Len(r.iov) + 1]

\* The number of sectors of r that can move: all of them in test mode,
\* else those below the capacity.
Wanted(r) ==
  IF r.test \/ r.offset + zbc_iov_count(r) <= Sectors
    THEN zbc_iov_count(r)
    ELSE IF r.offset >= Sectors THEN 0 ELSE Sectors - r.offset

\* Placement p is the k-th of request r: device sector offset + k - 1
\* against the (k-1)-th sector of the caller's buffers.
IsPlacement(r, k, p) ==
  /\ p.sector = r.offset + k - 1
  /\ p.vec \in 1..Len(r.iov)
  /\ p.off \in 0..(r.iov[p.vec].len - 1)
  /\ r.pre[p.vec] + p.off = k - 1

Placement == [sector : Nat, vec : Nat, off : Nat]
=============================================================================
