------------------------------ MODULE ImageFormat ------------------------------
(***************************************************************************)
(* The layout of an image on the backup server.  compress_volume cuts the  *)
(* allocation bitmap of a volume in slices of ALLOCLG bytes and writes one *)
(* block file per slice: a header with the slice, the used sectors of the  *)
(* slice in ascending order, and the end of the zlib stream.  These are    *)
(* the definitions the boot loader and autorestore agree on; what the      *)
(* compressor really writes is checked against them in RevImage.           *)
(*                                                                         *)
(* A volume is a record: lg, the bytes of its bitmap (PARAMS.bitmaplg),    *)
(* and used, the sectors whose bit is set.                                 *)
(***************************************************************************)
EXTENDS Integers, Sequences, FiniteSets

CONSTANTS Byte,      \* sectors per byte of bitmap: 8 in the code
          ALLOCLG,   \* bytes of bitmap per block file: 22016
          TOTALLG    \* sectors per output buffer: 24064 / 512 = 47

ASSUME FormatAssumption ==
  Byte \in Nat \ {0} /\ ALLOCLG \in Nat \ {0} /\ TOTALLG \in Nat \ {0}

\* The number of block files.
Blocks(v) == (v.lg + ALLOCLG - 1) \div ALLOCLG

\* The bytes of bitmap in block file f: all ALLOCLG of them but in the last.
Lg(v, f) == IF v.lg - f * ALLOCLG > ALLOCLG THEN ALLOCLG ELSE v.lg - f * ALLOCLG

\* The first sector that block file f describes, and all of them.
FirstOf(f) == f * ALLOCLG * Byte
Slice(v, f) == FirstOf(f) .. FirstOf(f) + Lg(v, f) * Byte - 1

UsedIn(v, f) == v.used \cap Slice(v, f)

\* The k-th member of a set of sectors, in ascending order.
Kth(S, k) == CHOOSE s \in S : Cardinality({t \in S : t < s}) = k - 1

\* The plain contents of block file f, unit by unit: header, sectors, end.  A
\* sector's unit carries the number of the sector it was read from.
Stream(v, f) ==
  LET S == UsedIn(v, f)
      n == Cardinality(S)
  IN  [k \in 1 .. n + 2 |->
        [file |-> f,
         is   |-> IF k = 1 THEN "header" ELSE IF k = n + 2 THEN "end" ELSE "sector",
         data |-> IF k \in 2 .. n + 1 THEN Kth(S, k - 1) ELSE 0]]
================================================================================
