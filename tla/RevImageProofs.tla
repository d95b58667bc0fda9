----------------------------- MODULE RevImageProofs -----------------------------
(* Saving and restoring an image, for every geometry, every set of file     *)
(* systems and any number of faults: what compress_volume writes is the     *)
(* image it should be (SaveInv), the restore stays inside the partition     *)
(* (RestInv), the two implement ImageCopy (CopyInv), and the bitmaps of the *)
(* image_* programs leave out nothing that is needed.                       *)
EXTENDS RevImage, ImageFormatProofs, SequenceTheorems

--------------------------------------------------------------------------------
(* What an image_* program builds is a bitmap of at least one byte.         *)

\* A bitmap of at least one bit has at least one byte.
LEMMA BytesType ==
  ASSUME NEW n \in Nat \ {0}
  PROVE  (n + Byte - 1) \div Byte \in Nat \ {0}
  <1> DEFINE q == (n + Byte - 1) \div Byte
  <1>1. q \in Nat /\ n + Byte - 1 < q * Byte + Byte
    BY DivBelow, FormatAssumption
  <1> HIDE DEF q
  <1>2. q # 0
    BY <1>1, FormatAssumption
  <1>3. QED
    BY <1>1, <1>2 DEF q

LEMMA BitmapType ==
  ASSUME NEW f \in FileSystems
  PROVE  VolumeType(bitmap(f))
  <1>1. CASE f.is = "raw"
    <2>1. bitmap(f) = raw_allocated_sectors(f.size)
      BY <1>1 DEF bitmap
    <2>2. raw_allocated_sectors(f.size).lg \in Nat \ {0}
      BY <1>1, BytesType, FileSystemAssumption DEF raw_allocated_sectors
    <2>3. raw_allocated_sectors(f.size).used \subseteq Int
      BY DEF raw_allocated_sectors
    <2>4. QED
      BY <2>1, <2>2, <2>3 DEF VolumeType
  <1>2. CASE f.is = "swap"
    BY <1>2, FormatAssumption DEF bitmap, swap_allocated_sectors, VolumeType
  <1>3. CASE f.is = "lvm"
    <2>1. bitmap(f) = lvm_allocated_sectors(f.size)
      BY <1>3 DEF bitmap
    <2>2. lvm_allocated_sectors(f.size).lg \in Nat \ {0}
      BY <1>3, BytesType, FileSystemAssumption DEF lvm_allocated_sectors
    <2>3. QED
      BY <2>1, <2>2 DEF VolumeType, lvm_allocated_sectors
  <1>4. CASE f.is = "rfs"
    <2>1. bitmap(f) = rfs_allocated_sectors(f)
      BY <1>4 DEF bitmap
    <2>2. f.blocks \in Nat \ {0} /\ f.off \in Nat
      BY <1>4, FileSystemAssumption
    <2>3. f.blocks * Byte + f.off \in Nat \ {0}
      BY <2>2, FormatAssumption
    <2>4. rfs_allocated_sectors(f).lg \in Nat \ {0}
      BY <2>3, BytesType DEF rfs_allocated_sectors
    <2>5. rfs_allocated_sectors(f).used \subseteq Int
      <3>1. \A i \in 0 .. f.blocks * Byte - 1 : i + f.off \in Int
        BY <2>2
      <3>2. 0 .. f.off - 1 \subseteq Int
        OBVIOUS
      <3> QED
        BY <3>1, <3>2 DEF rfs_allocated_sectors
    <2>6. QED
      BY <2>1, <2>4, <2>5 DEF VolumeType
  <1>5. CASE f.is = "e2fs"
    <2>1. bitmap(f) = list_desc(f)
      BY <1>5 DEF bitmap
    <2>2. f.blocks \in Nat \ {0} /\ f.nbsect \in Nat \ {0}
      BY <1>5, FileSystemAssumption
    <2>3. f.blocks * f.nbsect \in Nat \ {0}
      BY <2>2
    <2>4. list_desc(f).lg \in Nat \ {0}
      BY <2>3, BytesType DEF list_desc
    <2>5. list_desc(f).used \subseteq Int
      <3>1. \A b, n : SectorsOf(b, n) \subseteq Int
        BY DEF SectorsOf
      <3>2. 0 .. f.first * f.nbsect - 1 \subseteq Int
        OBVIOUS
      <3> DEFINE n == f.per_group
                 set(g) == {j \in 0 .. Min({f.first + g * n + n, f.blocks}) - (f.first + g * n) - 1 :
                              g * n + j \in f.map}
                 in(g) == UNION {SectorsOf(f.first + g * n + j, f.nbsect) : j \in set(g)}
                 all == {in(g) : g \in 0 .. (f.blocks - f.first + n - 1) \div n - 1}
      <3>3. list_desc(f).used = 0 .. f.first * f.nbsect - 1 \union UNION all
        BY DEF list_desc
      <3> HIDE DEF set
      <3>5. \A g : in(g) \subseteq Int
        BY <3>1
      <3> HIDE DEF in
      <3>4. UNION all \subseteq Int
        BY <3>5
      <3> HIDE DEF all
      <3> QED
        BY <3>2, <3>3, <3>4, Zenon
    <2>6. QED
      BY <2>1, <2>4, <2>5 DEF VolumeType
  <1>6. CASE f.is = "xfs"
    <2>1. bitmap(f) = readsb(f)
      BY <1>6 DEF bitmap
    <2>2. readsb(f).lg \in Nat \ {0}
      BY <1>6, FileSystemAssumption DEF readsb
    <2>3. readsb(f).used \subseteq Int
      BY DEF readsb, SectorsOf
    <2>4. QED
      BY <2>1, <2>2, <2>3 DEF VolumeType
  <1>7. QED
    BY <1>1, <1>2, <1>3, <1>4, <1>5, <1>6, FileSystemAssumption
--------------------------------------------------------------------------------
(* The units of a block file.                                               *)

Units == [file : Int, is : {"header", "sector", "end", "bad"}, data : Int]

\* A block file as far as it was written; the sectors in it are the right ones.
Formed(v, u, f) ==
  /\ Len(u) \in 0 .. Size(v, f) + 2
  /\ \A k \in DOMAIN u : u[k] = Unit(f, Kind(v, f, k), u[k].data)
Exact(v, u, f) == \A k \in DOMAIN u : u[k].data = DataOf(v, f, k)

\* The format, unit by unit.
LEMMA StreamUnits ==
  ASSUME NEW v, NEW f
  PROVE  Stream(v, f) = [k \in 1 .. Size(v, f) + 2 |-> Unit(f, Kind(v, f, k), DataOf(v, f, k))]
  BY DEF Stream, Unit, Kind, DataOf, Size

\* A block file is the beginning of the one the format asks for.
LEMMA FormedIsStream ==
  ASSUME NEW v, NEW f, NEW u \in Seq(Units), Formed(v, u, f), Exact(v, u, f),
         Size(v, f) \in Nat
  PROVE  u = SubSeq(Stream(v, f), 1, Len(u)) /\ Len(Stream(v, f)) = Size(v, f) + 2
  <1> DEFINE n == Size(v, f) + 2
             st == [k \in 1 .. n |-> Unit(f, Kind(v, f, k), DataOf(v, f, k))]
  <1>1. DOMAIN u = 1 .. Len(u) /\ u = [k \in DOMAIN u |-> u[k]] /\ Len(u) \in Nat
    BY LenProperties
  <1>2. ASSUME NEW k \in DOMAIN u
        PROVE  u[k] = Unit(f, Kind(v, f, k), DataOf(v, f, k))
    BY Zenon DEF Formed, Exact
  <1>3. Stream(v, f) = st
    BY StreamUnits
  <1>4. n \in Nat /\ Len(u) <= n
    BY <1>1 DEF Formed
  <1>5. Len(st) = n
    BY <1>4
  <1>6. ASSUME NEW k \in 1 .. Len(u) PROVE st[k] = u[k]
    <2>1. k \in 1 .. n /\ k \in DOMAIN u
      BY <1>1, <1>4
    <2>2. QED
      BY <1>2, <2>1
  <1> HIDE DEF st, n
  <1>7. SubSeq(st, 1, Len(u)) = [k \in 1 .. Len(u) |-> st[k]]
    BY <1>1
  <1>8. QED
    BY <1>1, <1>3, <1>5, <1>6, <1>7, Zenon DEF n

\* What is left of a block file that lost its end.
LEMMA PartFormed ==
  ASSUME NEW v, NEW f, NEW u \in Seq(Units), Formed(v, u, f), Size(v, f) \in Nat,
         NEW w \in Seq(Units), Len(w) <= Len(u), \A k \in DOMAIN w : w[k] = u[k]
  PROVE  Formed(v, w, f) /\ (Exact(v, u, f) => Exact(v, w, f))
  <1>1. /\ DOMAIN u = 1 .. Len(u) /\ Len(u) \in Nat
        /\ DOMAIN w = 1 .. Len(w) /\ Len(w) \in Nat
    BY LenProperties
  <1>4. \A k \in DOMAIN w : w[k] = u[k] /\ k \in DOMAIN u
    BY <1>1
  <1>5. Len(w) \in 0 .. Size(v, f) + 2
    BY <1>1 DEF Formed
  <1>6. \A k \in DOMAIN w : w[k] = Unit(f, Kind(v, f, k), w[k].data)
    BY <1>4, Zenon DEF Formed
  <1>7. Exact(v, u, f) => Exact(v, w, f)
    BY <1>4, Zenon DEF Exact
  <1>8. QED
    BY <1>5, <1>6, <1>7 DEF Formed

\* A block file begins with its header.
LEMMA HeaderFormed ==
  ASSUME NEW v, NEW f \in Int, Size(v, f) \in Nat
  PROVE  /\ <<Unit(f, "header", 0)>> \in Seq(Units)
         /\ Len(<<Unit(f, "header", 0)>>) = 1
         /\ Formed(v, <<Unit(f, "header", 0)>>, f)
         /\ Exact(v, <<Unit(f, "header", 0)>>, f)
  <1>1. Unit(f, "header", 0) \in Units
    BY DEF Unit, Units
  <1>2. Unit(f, "header", 0).data = 0
    BY DEF Unit
  <1>3. Kind(v, f, 1) = "header" /\ DataOf(v, f, 1) = 0
    BY DEF Kind, DataOf
  <1>4. QED
    BY <1>1, <1>2, <1>3 DEF Formed, Exact

Extended(u, b, f) == u \o [j \in DOMAIN b |-> Unit(f, "sector", b[j])]

\* Unit by unit.
Joined(u, b, f, w) ==
  /\ w \in Seq(Units)
  /\ Len(w) = Len(u) + Len(b)
  /\ Len(u) \in Nat \ {0} /\ Len(b) \in Nat
  /\ \A k \in 1 .. Len(u) : w[k] = u[k] /\ k \in DOMAIN u
  /\ \A j \in 1 .. Len(b) : w[Len(u) + j] = Unit(f, "sector", b[j]) /\ j \in DOMAIN b

LEMMA Beyond ==
  ASSUME NEW a \in Nat \ {0}, NEW b \in Nat, NEW n \in Nat, NEW k \in Int,
         a + b <= n + 1, k <= a + b, ~(k <= a)
  PROVE  /\ k - a \in 1 .. b /\ a + (k - a) = k /\ a - 1 + (k - a) = k - 1
         /\ k \in 2 .. n + 1 /\ k # 1 /\ k # n + 2
  OBVIOUS

\* compress_data appends a buffer to the block file.
LEMMA SectorsAt ==
  ASSUME NEW v, NEW f \in Int, Size(v, f) \in Nat,
         NEW u \in Seq(Units), NEW b \in Seq(Int),
         Formed(v, u, f), Len(u) # 0, Len(u) + Len(b) <= Size(v, f) + 1,
         NEW w, w = Extended(u, b, f)
  PROVE  Joined(u, b, f, w)
  <1> DEFINE c == [j \in DOMAIN b |-> Unit(f, "sector", b[j])]
  <1>1. /\ Len(u) \in Nat \ {0} /\ DOMAIN u = 1 .. Len(u)
        /\ Len(b) \in Nat /\ DOMAIN b = 1 .. Len(b) /\ \A j \in DOMAIN b : b[j] \in Int
    BY LenProperties, ElementOfSeq DEF Formed
  <1>2. \A j \in DOMAIN b : Unit(f, "sector", b[j]) \in Units
    BY <1>1 DEF Unit, Units
  <1>3. c \in Seq(Units) /\ Len(c) = Len(b) /\ \A j \in DOMAIN b : c[j] = Unit(f, "sector", b[j])
    BY <1>1, <1>2, IsASeq
  <1> HIDE DEF c
  <1>4. w = u \o c
    BY DEF c, Extended
  <1>5. /\ u \o c \in Seq(Units) /\ Len(u \o c) = Len(u) + Len(c)
        /\ \A k \in 1 .. Len(u) + Len(c) : (u \o c)[k] = IF k <= Len(u) THEN u[k] ELSE c[k - Len(u)]
    BY <1>3, ConcatProperties, Zenon
  <1>6. ASSUME NEW k \in 1 .. Len(u) PROVE w[k] = u[k] /\ k \in DOMAIN u
    <2>1. k \in 1 .. Len(u) + Len(c) /\ k <= Len(u)
      BY <1>1, <1>3
    <2>2. QED
      BY <1>1, <1>4, <1>5, <2>1
  <1>7. ASSUME NEW j \in 1 .. Len(b)
        PROVE  w[Len(u) + j] = Unit(f, "sector", b[j]) /\ j \in DOMAIN b
    <2>1. /\ Len(u) + j \in 1 .. Len(u) + Len(c) /\ ~(Len(u) + j <= Len(u))
          /\ Len(u) + j - Len(u) = j
      BY <1>1, <1>3
    <2>2. (u \o c)[Len(u) + j] = c[j]
      BY <1>5, <2>1
    <2>3. QED
      BY <1>1, <1>3, <1>4, <2>2
  <1>8. QED
    BY <1>1, <1>3, <1>4, <1>5, <1>6, <1>7, Zenon DEF Joined

LEMMA SectorsFormed ==
  ASSUME NEW v, NEW f \in Int, Size(v, f) \in Nat,
         NEW u \in Seq(Units), NEW b \in Seq(Int),
         Formed(v, u, f), Len(u) # 0, Len(u) + Len(b) <= Size(v, f) + 1,
         NEW w, w = Extended(u, b, f)
  PROVE  Formed(v, w, f)
  <1>1. /\ w \in Seq(Units)
        /\ Len(w) = Len(u) + Len(b)
        /\ Len(u) \in Nat \ {0} /\ Len(b) \in Nat
        /\ \A k \in 1 .. Len(u) : w[k] = u[k] /\ k \in DOMAIN u
        /\ \A j \in 1 .. Len(b) : w[Len(u) + j] = Unit(f, "sector", b[j]) /\ j \in DOMAIN b
    <2>1. Joined(u, b, f, w)
      BY SectorsAt, Zenon
    <2>2. QED
      BY <2>1, Zenon DEF Joined
  <1>2. ASSUME NEW k \in DOMAIN w PROVE w[k] = Unit(f, Kind(v, f, k), w[k].data)
    <2>0. k \in 1 .. Len(w) /\ k \in Int
      BY <1>1, LenProperties
    <2>1. CASE k <= Len(u)
      <3>1. k \in 1 .. Len(u)
        BY <1>1, <2>0, <2>1
      <3>2. QED
        BY <1>1, <3>1, Zenon DEF Formed
    <2>2. CASE ~(k <= Len(u))
      <3> DEFINE j == k - Len(u)
      <3>1. j \in 1 .. Len(b) /\ Len(u) + j = k /\ k # 1 /\ k # Size(v, f) + 2
        BY <1>1, <2>0, <2>2, SMTT(30)
      <3>2. w[k] = Unit(f, "sector", b[j])
        BY <1>1, <3>1
      <3> HIDE DEF j
      <3>3. Kind(v, f, k) = "sector"
        BY <3>1 DEF Kind
      <3>4. w[k].data = b[j]
        BY <3>2 DEF Unit
      <3>5. QED
        BY <3>2, <3>3, <3>4
    <2>3. QED
      BY <2>1, <2>2
  <1>3. Len(w) \in 1 .. Size(v, f) + 2
    BY <1>1
  <1>4. QED
    BY <1>2, <1>3 DEF Formed

\* A buffer that goes on where the block file ends.
LEMMA SectorsExact ==
  ASSUME NEW v, NEW f \in Int, Size(v, f) \in Nat,
         NEW u \in Seq(Units), NEW b \in Seq(Int),
         Formed(v, u, f), Len(u) # 0, Len(u) + Len(b) <= Size(v, f) + 1, Exact(v, u, f),
         \A j \in DOMAIN b : b[j] = Kth(UsedIn(v, f), Len(u) - 1 + j),
         NEW w, w = Extended(u, b, f)
  PROVE  Exact(v, w, f)
  <1>1. /\ w \in Seq(Units)
        /\ Len(w) = Len(u) + Len(b)
        /\ Len(u) \in Nat \ {0} /\ Len(b) \in Nat
        /\ \A k \in 1 .. Len(u) : w[k] = u[k] /\ k \in DOMAIN u
        /\ \A j \in 1 .. Len(b) : w[Len(u) + j] = Unit(f, "sector", b[j]) /\ j \in DOMAIN b
    <2>1. Joined(u, b, f, w)
      BY SectorsAt, Zenon
    <2>2. QED
      BY <2>1, Zenon DEF Joined
  <1>2. ASSUME NEW k \in DOMAIN w PROVE w[k].data = DataOf(v, f, k)
    <2>0. k \in 1 .. Len(w) /\ k \in Int
      BY <1>1, LenProperties
    <2>1. CASE k <= Len(u)
      <3>1. k \in 1 .. Len(u)
        BY <1>1, <2>0, <2>1
      <3>2. QED
        BY <1>1, <3>1, Zenon DEF Exact
    <2>2. CASE ~(k <= Len(u))
      <3> DEFINE j == k - Len(u)
      <3>1. j \in 1 .. Len(b) /\ Len(u) + j = k /\ k \in 2 .. Size(v, f) + 1 /\ Len(u) - 1 + j = k - 1
        <4>1. /\ Len(w) = Len(u) + Len(b) /\ Len(u) \in Nat \ {0} /\ Len(b) \in Nat
              /\ k \in Int /\ k <= Len(w) /\ ~(k <= Len(u))
          BY <1>1, <2>0, <2>2
        <4>2. QED
          BY <4>1, Beyond, ZenonT(30)
      <3>2. w[k] = Unit(f, "sector", b[j]) /\ j \in DOMAIN b
        BY <1>1, <3>1
      <3> HIDE DEF j
      <3>3. DataOf(v, f, k) = Kth(UsedIn(v, f), k - 1)
        BY <3>1 DEF DataOf
      <3>4. w[k].data = b[j]
        BY <3>2 DEF Unit
      <3>5. b[j] = Kth(UsedIn(v, f), k - 1)
        BY <3>1, <3>2
      <3>6. QED
        BY <3>3, <3>4, <3>5
    <2>3. QED
      BY <2>1, <2>2
  <1>3. QED
    BY <1>2 DEF Exact

LEMMA EndFormed ==
  ASSUME NEW v, NEW f \in Int, Size(v, f) \in Nat,
         NEW u \in Seq(Units), Formed(v, u, f), Len(u) = Size(v, f) + 1,
         NEW w, w = u \o <<Unit(f, "end", 0)>>
  PROVE  /\ w \in Seq(Units)
         /\ Len(w) = Size(v, f) + 2
         /\ Formed(v, w, f)
         /\ Exact(v, u, f) => Exact(v, w, f)
  <1> DEFINE e == Unit(f, "end", 0)
  <1>1. e \in Units
    BY DEF Unit, Units
  <1>2. w = Append(u, e)
    BY <1>1
  <1> HIDE DEF e
  <1>3. /\ Append(u, e) \in Seq(Units) /\ Len(Append(u, e)) = Len(u) + 1
        /\ \A k \in 1 .. Len(u) : Append(u, e)[k] = u[k]
        /\ Append(u, e)[Len(u) + 1] = e
    BY <1>1, AppendProperties, ZenonT(30)
  <1>4. Len(w) = Size(v, f) + 2 /\ DOMAIN w = 1 .. Size(v, f) + 2 /\ DOMAIN u = 1 .. Size(v, f) + 1
    BY <1>2, <1>3, LenProperties
  <1>5. e = Unit(f, Kind(v, f, Size(v, f) + 2), e.data) /\ e.data = DataOf(v, f, Size(v, f) + 2)
    <2>1. Kind(v, f, Size(v, f) + 2) = "end" /\ DataOf(v, f, Size(v, f) + 2) = 0
      BY DEF Kind, DataOf
    <2>2. QED
      BY <2>1 DEF e, Unit
  <1>6. ASSUME NEW k \in DOMAIN w
        PROVE  \/ k \in DOMAIN u /\ w[k] = u[k]
               \/ k = Size(v, f) + 2 /\ w[k] = e
    <2>1. CASE k = Size(v, f) + 2
      BY <1>2, <1>3, <2>1
    <2>2. CASE k # Size(v, f) + 2
      <3>1. k \in 1 .. Len(u) /\ k \in DOMAIN u
        BY <1>4, <2>2
      <3>2. QED
        BY <1>2, <1>3, <3>1
    <2>3. QED
      BY <2>1, <2>2
  <1>7. \A k \in DOMAIN w : w[k] = Unit(f, Kind(v, f, k), w[k].data)
    BY <1>5, <1>6, Zenon DEF Formed
  <1>8. Exact(v, u, f) => Exact(v, w, f)
    BY <1>5, <1>6, Zenon DEF Exact
  <1>9. Len(w) \in 1 .. Size(v, f) + 2
    BY <1>4
  <1>10. QED
    BY <1>2, <1>3, <1>4, <1>7, <1>8, <1>9 DEF Formed

--------------------------------------------------------------------------------
(* Saving: the compressor keeps in step with the bitmap.                    *)

SaveType ==
  /\ fs \in FileSystems /\ accepts(fs) /\ volume = bitmap(fs)
  /\ phase \in {"save", "get", "open", "inflate", "file", "done", "fatal"}
  /\ blk \in Nat /\ bit \in Nat /\ skip \in Int /\ pos \in Int
  /\ buffer \in Seq(Int)
  /\ files \in Seq(Seq(Units))
  /\ misread \in BOOLEAN

\* What is on the server: block files, whole but for those that lost their end, and
\* one that may be unfinished.
Image ==
  /\ blk <= Blocks(volume) /\ Len(files) <= Blocks(volume)
  /\ Len(files) \in {blk, blk + 1}
  /\ \A f \in 0 .. Len(files) - 1 : Formed(volume, files[f + 1], f)
  /\ ~misread => \A f \in 0 .. Len(files) - 1 : Exact(volume, files[f + 1], f)
  /\ \A f \in 0 .. blk - 1 : f \notin cut => Len(files[f + 1]) = Size(volume, f) + 2

\* The units written and the sectors in the buffer are those before the bit the
\* loop has come to, and fi, with the sectors to skip, stands at that bit.
Compressing ==
  phase = "save" =>
    /\ Len(files) = blk + 1
    /\ bit \in 0 .. Slices
    /\ Len(buffer) < TOTALLG /\ Len(files[blk + 1]) > 0
    /\ Len(files[blk + 1]) + Len(buffer) = Rank(volume, blk, FirstOf(blk) + bit) + 1
    /\ ~misread =>
         /\ pos + skip = FirstOf(blk) + bit
         /\ \A j \in DOMAIN buffer :
              buffer[j] = Kth(UsedIn(volume, blk), Len(files[blk + 1]) - 1 + j)

SaveInv == SaveType /\ Image /\ Compressing

LEMMA VolumeOK ==
  ASSUME SaveType
  PROVE  VolumeType(volume) /\ Blocks(volume) \in Nat \ {0}
  BY BitmapType, BlocksType DEF SaveType

LEMMA SaveInit == Init => SaveInv
  <1> SUFFICES ASSUME Init PROVE SaveInv
    OBVIOUS
  <1> DEFINE u == <<Unit(0, "header", 0)>>
  <1>0. fs \in FileSystems /\ accepts(fs) /\ volume = bitmap(fs)
    BY DEF Init
  <1>1. VolumeType(volume) /\ Blocks(volume) \in Nat \ {0}
    BY <1>0, BitmapType, BlocksType
  <1>2. 0 \in Nat /\ 0 < Blocks(volume)
    BY <1>1
  <1>3. /\ Size(volume, 0) \in Nat /\ Rank(volume, 0, FirstOf(0)) = 0
        /\ FirstOf(0) \in Nat /\ Lg(volume, 0) * Byte \in Nat
    BY <1>1, <1>2, RankEnds, SliceType
  <1>4. u \in Seq(Units) /\ Len(u) = 1 /\ Formed(volume, u, 0) /\ Exact(volume, u, 0)
    BY <1>3, HeaderFormed
  <1> HIDE DEF u
  <1>5. files = <<u>> /\ misread = FALSE
    BY DEF Init, u
  <1>6. files \in Seq(Seq(Units)) /\ Len(files) = 1 /\ files[1] = u
    BY <1>4, <1>5
  <1>7. SaveType
    <2>1. /\ blk = 0 /\ bit = 0 /\ skip = 0 /\ pos = 0 /\ buffer = <<>>
          /\ phase = "save" /\ misread = FALSE
      BY DEF Init
    <2>2. <<>> \in Seq(Int) /\ 0 \in Nat /\ 0 \in Int
      OBVIOUS
    <2>3. QED
      BY <1>0, <1>6, <2>1, <2>2, Zenon DEF SaveType
  <1>8. Image
    <2>1. \A f \in 0 .. Len(files) - 1 : f = 0 /\ f + 1 = 1
      BY <1>6
    <2>2. \A f \in 0 .. Len(files) - 1 : Formed(volume, files[f + 1], f) /\ Exact(volume, files[f + 1], f)
      BY <2>1, <1>4, <1>5, <1>6
    <2>3. QED
      BY <1>1, <1>6, <2>2 DEF Init, Image
  <1>9. Compressing
    <2>1. blk = 0 /\ bit = 0 /\ skip = 0 /\ pos = 0 /\ buffer = <<>>
      BY DEF Init
    <2>2. FirstOf(0) = 0
      BY FormatAssumption DEF FirstOf
    <2>3. /\ FirstOf(blk) + bit = FirstOf(0) /\ pos + skip = 0 /\ blk + 1 = 1
          /\ Len(buffer) = 0 /\ DOMAIN buffer = {}
      BY <2>1, <2>2
    <2>4. Slices \in Nat
      BY <1>3, <2>1 DEF Slices
    <2>5. /\ Len(files[blk + 1]) = 1 /\ Rank(volume, blk, FirstOf(blk) + bit) = 0
          /\ FirstOf(blk) + bit = 0
      BY <1>3, <1>4, <1>6, <2>1, <2>2, <2>3
    <2>6. QED
      BY <1>6, <2>1, <2>3, <2>4, <2>5, FormatAssumption DEF Compressing
  <1>10. QED
    BY <1>7, <1>8, <1>9 DEF SaveInv

\* What the actions of the restore leave alone.
LEMMA SaveUnchanged ==
  ASSUME SaveInv, UNCHANGED <<fs, volume, saveVars>>,
         phase' \in {"save", "get", "open", "inflate", "file", "done", "fatal"},
         phase' = "save" => phase = "save"
  PROVE  SaveInv'
  <1>1. /\ fs' = fs /\ volume' = volume /\ blk' = blk /\ bit' = bit /\ skip' = skip
        /\ pos' = pos /\ buffer' = buffer /\ files' = files /\ misread' = misread /\ cut' = cut
    BY DEF saveVars
  <1>2. SaveType'
    BY <1>1, Zenon DEF SaveInv, SaveType
  <1>3. Image'
    BY <1>1, Zenon DEF SaveInv, Image
  <1>4. Compressing'
    BY <1>1, Zenon DEF SaveInv, Compressing, Slices
  <1>5. QED
    BY <1>2, <1>3, <1>4 DEF SaveInv

\* Where the loop of compress_volume stands.
LEMMA Loop ==
  ASSUME SaveInv, phase = "save"
  PROVE  /\ VolumeType(volume) /\ blk \in Nat /\ blk < Blocks(volume) /\ Blocks(volume) \in Nat
         /\ FirstOf(blk) \in Nat /\ Slices \in Nat /\ bit \in 0 .. Slices
         /\ Size(volume, blk) \in Nat
         /\ Len(files) = blk + 1 /\ blk + 1 \in DOMAIN files
         /\ files[blk + 1] \in Seq(Units) /\ Len(files[blk + 1]) \in Nat \ {0}
         /\ Formed(volume, files[blk + 1], blk)
         /\ Len(buffer) \in Nat /\ Len(buffer) < TOTALLG /\ DOMAIN buffer = 1 .. Len(buffer)
         /\ Len(files[blk + 1]) + Len(buffer) = Rank(volume, blk, FirstOf(blk) + bit) + 1
  <1>1. VolumeType(volume) /\ Blocks(volume) \in Nat
    BY VolumeOK DEF SaveInv
  <1>2. /\ blk \in Nat /\ Len(files) = blk + 1 /\ Len(files) <= Blocks(volume)
        /\ bit \in 0 .. Slices /\ Len(buffer) < TOTALLG
        /\ Len(files[blk + 1]) + Len(buffer) = Rank(volume, blk, FirstOf(blk) + bit) + 1
        /\ files \in Seq(Seq(Units)) /\ buffer \in Seq(Int) /\ Len(files[blk + 1]) > 0
    BY DEF SaveInv, SaveType, Image, Compressing
  <1>3. blk < Blocks(volume)
    BY <1>1, <1>2
  <1>4. FirstOf(blk) \in Nat /\ Slices \in Nat /\ Size(volume, blk) \in Nat
    BY <1>1, <1>2, <1>3, SliceType, RankEnds DEF Slices
  <1>5. blk + 1 \in DOMAIN files /\ blk \in 0 .. Len(files) - 1
    BY <1>2, LenProperties
  <1>6. files[blk + 1] \in Seq(Units) /\ Formed(volume, files[blk + 1], blk)
    BY <1>2, <1>5, ElementOfSeq DEF SaveInv, Image
  <1>7. Len(files[blk + 1]) \in Nat \ {0}
    BY <1>2, <1>4, <1>6 DEF Formed
  <1>8. Len(buffer) \in Nat /\ DOMAIN buffer = 1 .. Len(buffer)
    BY <1>2, LenProperties
  <1>9. QED
    BY <1>1, <1>2, <1>3, <1>4, <1>5, <1>6, <1>7, <1>8

LEMMA SkipSave ==
  ASSUME SaveInv, SkipSector
  PROVE  SaveInv'
  <1>1. /\ phase = "save" /\ bit < Slices /\ FirstOf(blk) + bit \notin volume.used
        /\ skip' = skip + 1 /\ bit' = bit + 1
        /\ fs' = fs /\ volume' = volume /\ blk' = blk /\ phase' = phase
        /\ pos' = pos /\ buffer' = buffer /\ files' = files /\ misread' = misread /\ cut' = cut
    BY DEF SkipSector
  <1>2. Slices' = Slices
    BY <1>1 DEF Slices
  <1>3. /\ VolumeType(volume) /\ blk \in Nat /\ blk < Blocks(volume)
        /\ FirstOf(blk) \in Nat /\ Slices \in Nat /\ bit \in 0 .. Slices
        /\ Len(files[blk + 1]) + Len(buffer) = Rank(volume, blk, FirstOf(blk) + bit) + 1
    BY <1>1, Loop
  <1>4. Rank(volume, blk, FirstOf(blk) + bit + 1) = Rank(volume, blk, FirstOf(blk) + bit)
    <2>1. FirstOf(blk) + bit \notin UsedIn(volume, blk) /\ FirstOf(blk) + bit \in Int
      BY <1>1, <1>3 DEF UsedIn
    <2>2. QED
      BY <1>3, <2>1, RankNext
  <1>5. SaveType'
    <2>1. bit + 1 \in Nat /\ skip + 1 \in Int
      BY DEF SaveInv, SaveType
    <2>2. QED
      BY <1>1, <2>1, Zenon DEF SaveInv, SaveType
  <1>6. Image'
    BY <1>1, Zenon DEF SaveInv, Image
  <1>7. Compressing'
    <2>1. FirstOf(blk) + (bit + 1) = FirstOf(blk) + bit + 1 /\ bit + 1 \in 0 .. Slices
      BY <1>1, <1>3
    <2>2. ~misread => pos + (skip + 1) = FirstOf(blk) + (bit + 1)
      <3>1. ~misread => pos + skip = FirstOf(blk) + bit
        BY <1>1 DEF SaveInv, Compressing
      <3>2. pos \in Int /\ skip \in Int
        BY DEF SaveInv, SaveType
      <3>3. QED
        BY <1>3, <3>1, <3>2
    <2>3. Rank(volume, blk, FirstOf(blk) + (bit + 1)) = Rank(volume, blk, FirstOf(blk) + bit)
      BY <1>4, <2>1
    <2>4. QED
      BY <1>1, <1>2, <2>1, <2>2, <2>3, Zenon DEF SaveInv, Compressing
  <1>8. QED
    BY <1>5, <1>6, <1>7 DEF SaveInv

\* The block file at hand is replaced by a longer one.
Grown(fl, w) ==
  /\ fl \in Seq(Seq(Units)) /\ Len(fl) = blk + 1 /\ fl[blk + 1] = w
  /\ \A f \in 0 .. blk : Formed(volume, fl[f + 1], f)
  /\ ~misread /\ Exact(volume, w, blk) => \A f \in 0 .. blk : Exact(volume, fl[f + 1], f)
  /\ \A f \in 0 .. blk - 1 : fl[f + 1] = files[f + 1]

LEMMA FilesFormed ==
  ASSUME SaveInv, phase = "save",
         NEW w \in Seq(Units), Formed(volume, w, blk),
         NEW fl, fl = [files EXCEPT ![blk + 1] = w]
  PROVE  Grown(fl, w)
  <1>1. blk \in Nat /\ Len(files) = blk + 1 /\ blk + 1 \in DOMAIN files
    BY Loop
  <1>2. files \in Seq(Seq(Units)) /\ DOMAIN files = 1 .. blk + 1
    BY <1>1, LenProperties DEF SaveInv, SaveType
  <1>3. fl \in Seq(Seq(Units)) /\ Len(fl) = Len(files)
    BY <1>1, <1>2, ExceptSeq
  <1>4. fl[blk + 1] = w
    BY <1>1
  <1>5. ASSUME NEW f \in 0 .. blk - 1 PROVE fl[f + 1] = files[f + 1]
    <2>1. f + 1 \in DOMAIN files /\ f + 1 # blk + 1
      BY <1>1, <1>2
    <2>2. QED
      BY <2>1
  <1>6. ASSUME NEW f \in 0 .. blk
        PROVE  \/ f = blk /\ fl[f + 1] = w
               \/ f \in 0 .. Len(files) - 1 /\ fl[f + 1] = files[f + 1]
    <2>1. CASE f = blk
      BY <1>4, <2>1
    <2>2. CASE f # blk
      <3>1. f \in 0 .. blk - 1 /\ f \in 0 .. Len(files) - 1
        BY <1>1, <2>2
      <3>2. QED
        BY <1>5, <3>1
    <2>3. QED
      BY <2>1, <2>2
  <1>7. \A f \in 0 .. blk : Formed(volume, fl[f + 1], f)
    BY <1>6, Zenon DEF SaveInv, Image
  <1>8. ~misread /\ Exact(volume, w, blk) => \A f \in 0 .. blk : Exact(volume, fl[f + 1], f)
    BY <1>6, Zenon DEF SaveInv, Image
  <1>9. QED
    BY <1>1, <1>3, <1>4, <1>5, <1>7, <1>8 DEF Grown

\* The sector the loop has come to is the next one of the block file.
LEMMA NextSector ==
  ASSUME SaveInv, phase = "save", bit < Slices, FirstOf(blk) + bit \in volume.used
  PROVE  /\ FirstOf(blk) + bit \in Int
         /\ Rank(volume, blk, FirstOf(blk) + (bit + 1)) = Rank(volume, blk, FirstOf(blk) + bit) + 1
         /\ Rank(volume, blk, FirstOf(blk) + bit) \in Nat
         /\ Rank(volume, blk, FirstOf(blk) + bit) + 1 <= Size(volume, blk)
         /\ FirstOf(blk) + bit =
              Kth(UsedIn(volume, blk), Len(files[blk + 1]) - 1 + (Len(buffer) + 1))
  <1> DEFINE s == FirstOf(blk) + bit
  <1>1. /\ VolumeType(volume) /\ blk \in Nat /\ blk < Blocks(volume)
        /\ FirstOf(blk) \in Nat /\ Slices \in Nat /\ bit \in 0 .. Slices
        /\ Len(files[blk + 1]) \in Nat /\ Len(buffer) \in Nat
        /\ Len(files[blk + 1]) + Len(buffer) = Rank(volume, blk, s) + 1
    BY Loop
  <1>2. s \in UsedIn(volume, blk) /\ s \in Int /\ s + 1 \in Int /\ s + 1 = FirstOf(blk) + (bit + 1)
    BY <1>1 DEF UsedIn, Slice, Slices
  <1> HIDE DEF s
  <1>3. Rank(volume, blk, s + 1) = Rank(volume, blk, s) + 1 /\ Rank(volume, blk, s) \in Nat
    BY <1>1, <1>2, RankNext
  <1>4. Rank(volume, blk, s + 1) <= Size(volume, blk)
    BY <1>1, <1>2, RankNext
  <1>5. Kth(UsedIn(volume, blk), Rank(volume, blk, s) + 1) = s
    BY <1>1, <1>2, RankKth
  <1>6. Rank(volume, blk, s) + 1 = Len(files[blk + 1]) - 1 + (Len(buffer) + 1)
    <2> DEFINE a == Len(files[blk + 1])
               b == Len(buffer)
               q == Rank(volume, blk, s)
    <2>1. a \in Nat /\ b \in Nat /\ q \in Nat /\ a + b = q + 1
      BY <1>1, <1>3
    <2> HIDE DEF a, b, q
    <2>2. q + 1 = a - 1 + (b + 1)
      BY <2>1
    <2>3. QED
      BY <2>2 DEF a, b, q
  <1>7. QED
    BY <1>2, <1>3, <1>4, <1>5, <1>6 DEF s

LEMMA ReadSave ==
  ASSUME SaveInv, ReadSector
  PROVE  SaveInv'
  <1>1. PICK fails \in BOOLEAN :
          LET got == Append(buffer, IF fails THEN Garbage ELSE pos + skip)
          IN  /\ IF fails THEN Fault /\ pos' \in {pos + skip, pos + skip + 1}
                 ELSE pos' = pos + skip + 1 /\ UNCHANGED faults
              /\ misread' = (misread \/ fails)
              /\ IF Full(got)
                 THEN buffer' = <<>> /\ files' = Compressed(got, FALSE)
                 ELSE buffer' = got /\ UNCHANGED files
    BY DEF ReadSector
  <1> DEFINE x == IF fails THEN Garbage ELSE pos + skip
             got == Append(buffer, x)
             u == files[blk + 1]
             r == Rank(volume, blk, FirstOf(blk) + bit)
  <1>2. /\ phase = "save" /\ bit < Slices /\ FirstOf(blk) + bit \in volume.used
        /\ skip' = 0 /\ bit' = bit + 1
        /\ fs' = fs /\ volume' = volume /\ blk' = blk /\ phase' = phase /\ cut' = cut
    BY DEF ReadSector
  <1>3. Slices' = Slices
    BY <1>2 DEF Slices
  <1>4. /\ VolumeType(volume) /\ blk \in Nat /\ blk < Blocks(volume) /\ Blocks(volume) \in Nat
        /\ FirstOf(blk) \in Nat /\ Slices \in Nat /\ bit \in 0 .. Slices
        /\ Len(u) \in Nat \ {0} /\ Len(buffer) \in Nat /\ Len(buffer) < TOTALLG
        /\ Len(u) + Len(buffer) = r + 1
        /\ u \in Seq(Units) /\ Formed(volume, u, blk)
        /\ DOMAIN buffer = 1 .. Len(buffer) /\ Size(volume, blk) \in Nat
        /\ Len(files) = blk + 1
    BY <1>2, Loop
  <1>5. /\ FirstOf(blk) + bit \in Int
        /\ Rank(volume, blk, FirstOf(blk) + (bit + 1)) = r + 1
        /\ r \in Nat /\ r + 1 <= Size(volume, blk)
        /\ FirstOf(blk) + bit = Kth(UsedIn(volume, blk), Len(u) - 1 + (Len(buffer) + 1))
    BY <1>2, NextSector
  <1>6. pos \in Int /\ skip \in Int /\ buffer \in Seq(Int) /\ x \in Int
    BY DEF SaveInv, SaveType, Garbage
  <1>7. ~misread => /\ pos + skip = FirstOf(blk) + bit
                    /\ \A j \in DOMAIN buffer : buffer[j] = Kth(UsedIn(volume, blk), Len(u) - 1 + j)
    BY <1>2 DEF SaveInv, Compressing
  <1>8. misread' = (misread \/ fails) /\ misread' \in BOOLEAN /\ (misread => misread')
    BY <1>1 DEF SaveInv, SaveType
  <1>9. pos' \in Int /\ (~fails => pos' = pos + skip + 1)
    BY <1>1, <1>6
  <1>10. ~misread' => x = FirstOf(blk) + bit /\ ~misread
    BY <1>7, <1>8
  <1>11. IF Full(got) THEN buffer' = <<>> /\ files' = Compressed(got, FALSE)
         ELSE buffer' = got /\ files' = files
    BY <1>1
  <1> HIDE DEF x
  <1>12. /\ got \in Seq(Int) /\ Len(got) = Len(buffer) + 1 /\ DOMAIN got = 1 .. Len(buffer) + 1
         /\ \A j \in 1 .. Len(buffer) : got[j] = buffer[j]
         /\ got[Len(buffer) + 1] = x
    BY <1>6, AppendProperties, LenProperties
  <1> HIDE DEF got, u, r
  <1>13. ~misread' => \A j \in DOMAIN got : got[j] = Kth(UsedIn(volume, blk), Len(u) - 1 + j)
    <2> SUFFICES ASSUME ~misread', NEW j \in DOMAIN got
                 PROVE  got[j] = Kth(UsedIn(volume, blk), Len(u) - 1 + j)
      OBVIOUS
    <2>1. CASE j = Len(buffer) + 1
      BY <1>5, <1>10, <1>12, <2>1
    <2>2. CASE j # Len(buffer) + 1
      <3>1. j \in 1 .. Len(buffer) /\ j \in DOMAIN buffer
        BY <1>4, <1>12, <2>2
      <3>2. QED
        BY <1>7, <1>10, <1>12, <3>1
    <2>3. QED
      BY <2>1, <2>2
  <1>14. ~misread' => pos' + skip' = FirstOf(blk) + (bit + 1)
    <2> SUFFICES ASSUME ~misread' PROVE pos' + skip' = FirstOf(blk) + (bit + 1)
      OBVIOUS
    <2>1. ~fails /\ pos + skip = FirstOf(blk) + bit
      BY <1>7, <1>8
    <2>2. /\ pos' = pos + skip + 1 /\ skip' = 0 /\ pos + skip = FirstOf(blk) + bit
          /\ bit \in Int /\ FirstOf(blk) \in Int /\ pos \in Int /\ skip \in Int
      BY <1>2, <1>4, <1>6, <1>9, <2>1
    <2>3. QED
      BY <2>2
  <1>15. Len(u) + Len(got) = r + 2
    <2>1. /\ Len(u) \in Nat /\ Len(buffer) \in Nat /\ r \in Nat
          /\ Len(u) + Len(buffer) = r + 1 /\ Len(got) = Len(buffer) + 1
      BY <1>4, <1>5, <1>12
    <2>2. QED
      BY <2>1
  <1>16. bit + 1 \in Nat /\ bit + 1 \in 0 .. Slices
    BY <1>2, <1>4
  <1>17. CASE ~Full(got)
    <2>1. buffer' = got /\ files' = files
      BY <1>11, <1>17
    <2>2. SaveType'
      <3>1. 0 \in Int
        OBVIOUS
      <3>2. QED
        BY <1>2, <1>8, <1>9, <1>12, <1>16, <2>1, <3>1, Zenon DEF SaveInv, SaveType
    <2>3. Image'
      BY <1>2, <1>8, <2>1, Zenon DEF SaveInv, Image
    <2>4. Compressing'
      <3>1. Len(got) < TOTALLG
        <4>1. Len(got) \in Nat /\ Len(got) # TOTALLG /\ Len(buffer) < TOTALLG /\ Len(got) = Len(buffer) + 1
              /\ Len(buffer) \in Nat
          BY <1>4, <1>12, <1>17 DEF Full
        <4>2. QED
          BY <4>1, FormatAssumption
      <3>2. Len(files[blk + 1]) + Len(got) = Rank(volume, blk, FirstOf(blk) + (bit + 1)) + 1
        <4>1. /\ Len(u) + Len(got) = r + 2 /\ r \in Nat
              /\ Rank(volume, blk, FirstOf(blk) + (bit + 1)) = r + 1
          BY <1>5, <1>15
        <4>2. Len(u) + Len(got) = Rank(volume, blk, FirstOf(blk) + (bit + 1)) + 1
          BY <4>1
        <4>3. QED
          BY <4>2 DEF u
      <3>3. ~misread' => \A j \in DOMAIN got : got[j] = Kth(UsedIn(volume, blk), Len(files[blk + 1]) - 1 + j)
        BY <1>13 DEF u
      <3>5. Len(files[blk + 1]) > 0
        BY <1>4 DEF u
      <3>4. QED
        BY <1>2, <1>3, <1>4, <1>14, <1>16, <2>1, <3>1, <3>2, <3>3, <3>5, Zenon DEF Compressing
    <2>5. QED
      BY <2>2, <2>3, <2>4 DEF SaveInv
  <1>18. CASE Full(got)
    <2> DEFINE w == Extended(u, got, blk)
               fl == [files EXCEPT ![blk + 1] = w]
    <2>1. Len(u) + Len(got) <= Size(volume, blk) + 1
      <3>1. Len(u) + Len(got) = r + 2 /\ r \in Nat /\ r + 1 <= Size(volume, blk) /\ Size(volume, blk) \in Nat
        BY <1>4, <1>5, <1>15
      <3>2. QED
        BY <3>1
    <2>3. PICK w0 \in Seq(Units) :
            /\ w0 = w /\ Len(w0) = Len(u) + Len(got) /\ Formed(volume, w0, blk)
            /\ ~misread' => Exact(volume, w0, blk)
      <3>1. blk \in Int /\ u \in Seq(Units) /\ got \in Seq(Int) /\ Size(volume, blk) \in Nat
            /\ Formed(volume, u, blk) /\ Len(u) # 0
        BY <1>4, <1>12
      <3>2. PICK w0 : w0 = w
        OBVIOUS
      <3>3. w0 = Extended(u, got, blk)
        BY <3>2
      <3>4. w0 \in Seq(Units) /\ Len(w0) = Len(u) + Len(got)
        <4>1. Joined(u, got, blk, w0)
          BY <2>1, <3>1, <3>3, SectorsAt, Zenon
        <4>2. QED
          BY <4>1, Zenon DEF Joined
      <3>5. Formed(volume, w0, blk)
        BY <2>1, <3>1, <3>3, SectorsFormed
      <3>6. ASSUME ~misread' PROVE Exact(volume, w0, blk)
        <4>1. \A j \in DOMAIN got : got[j] = Kth(UsedIn(volume, blk), Len(u) - 1 + j)
          BY <1>13, <3>6
        <4>2. Exact(volume, u, blk)
          <5>1. blk \in 0 .. Len(files) - 1 /\ ~misread
            BY <1>4, <1>10, <3>6
          <5>2. QED
            BY <5>1 DEF SaveInv, Image, u
        <4>3. QED
          BY <2>1, <3>1, <3>3, <4>1, <4>2, SectorsExact
      <3> HIDE DEF w
      <3>7. QED
        BY <3>2, <3>4, <3>5, <3>6
    <2> HIDE DEF w
    <2>4. buffer' = <<>> /\ files' = fl
      <3>1. w \o <<>> = w
        BY <2>3, ConcatEmptySeq
      <3>2. Compressed(got, FALSE) = [files EXCEPT ![blk + 1] = w \o <<>>]
        BY DEF Compressed, w, u, Extended
      <3>3. QED
        BY <1>11, <1>18, <3>1, <3>2
    <2> HIDE DEF fl
    <2>5. /\ fl \in Seq(Seq(Units)) /\ Len(fl) = blk + 1 /\ fl[blk + 1] = w0
          /\ \A f \in 0 .. blk : Formed(volume, fl[f + 1], f)
          /\ ~misread' => \A f \in 0 .. blk : Exact(volume, fl[f + 1], f)
          /\ \A f \in 0 .. blk - 1 : fl[f + 1] = files[f + 1]
      <3>1. PICK fl0 : fl0 = fl
        OBVIOUS
      <3>2. fl0 = [files EXCEPT ![blk + 1] = w0]
        BY <2>3, <3>1 DEF fl
      <3>3. /\ fl0 \in Seq(Seq(Units)) /\ Len(fl0) = blk + 1 /\ fl0[blk + 1] = w0
            /\ \A f \in 0 .. blk : Formed(volume, fl0[f + 1], f)
            /\ ~misread /\ Exact(volume, w0, blk) => \A f \in 0 .. blk : Exact(volume, fl0[f + 1], f)
            /\ \A f \in 0 .. blk - 1 : fl0[f + 1] = files[f + 1]
        <4>1. Grown(fl0, w0)
          BY <1>2, <2>3, <3>2, FilesFormed
        <4>2. QED
          BY <4>1, Zenon DEF Grown
      <3>4. ~misread' => ~misread /\ Exact(volume, w0, blk)
        BY <1>10, <2>3
      <3>5. QED
        BY <3>1, <3>3, <3>4, Zenon
    <2>6. SaveType'
      <3>1. 0 \in Int /\ <<>> \in Seq(Int)
        OBVIOUS
      <3>2. QED
        BY <1>2, <1>8, <1>9, <1>16, <2>4, <2>5, <3>1, Zenon DEF SaveInv, SaveType
    <2>7. Image'
      <3>1. Len(fl) - 1 = blk /\ Len(fl) = Len(files)
        BY <1>4, <2>5
      <3>2. QED
        BY <1>2, <2>4, <2>5, <3>1, Zenon DEF SaveInv, Image
    <2>8. Compressing'
      <3>1. /\ Len(fl[blk + 1]) + Len(<<>>) = Rank(volume, blk, FirstOf(blk) + (bit + 1)) + 1
            /\ Len(<<>>) < TOTALLG /\ DOMAIN <<>> = {} /\ Len(fl[blk + 1]) > 0
        <4>1. Len(fl[blk + 1]) = r + 2 /\ r \in Nat /\ Rank(volume, blk, FirstOf(blk) + (bit + 1)) = r + 1
          BY <1>5, <1>15, <2>3, <2>5
        <4>2. QED
          BY <4>1, FormatAssumption
      <3>2. QED
        BY <1>2, <1>3, <1>14, <1>16, <2>4, <2>5, <3>1, Zenon DEF Compressing
    <2>9. QED
      BY <2>6, <2>7, <2>8 DEF SaveInv
  <1>19. QED
    BY <1>17, <1>18

\* The end of a slice completes its block file, of which n units are still there when
\* it is closed.
LEMMA BlockClosed ==
  ASSUME SaveInv, phase = "save", bit = Slices
  PROVE  /\ Len(Compressed(buffer, TRUE)[blk + 1]) = Size(volume, blk) + 2
         /\ \A n \in 0 .. Size(volume, blk) + 2 :
              \E w \in Seq(Units), fl \in Seq(Seq(Units)) :
                /\ [Compressed(buffer, TRUE) EXCEPT ![blk + 1] = SubSeq(@, 1, n)] = fl
                /\ Grown(fl, w) /\ Len(w) = n
                /\ ~misread => Exact(volume, w, blk)
  <1> DEFINE u == files[blk + 1]
  <1>1. /\ VolumeType(volume) /\ blk \in Nat /\ blk < Blocks(volume) /\ blk \in Int
        /\ Size(volume, blk) \in Nat /\ u \in Seq(Units) /\ Formed(volume, u, blk)
        /\ Len(files) = blk + 1 /\ Len(u) \in Nat /\ Len(u) # 0 /\ Len(buffer) \in Nat
        /\ Len(u) + Len(buffer) = Rank(volume, blk, FirstOf(blk) + bit) + 1
    BY Loop
  <1>2. buffer \in Seq(Int)
    BY DEF SaveInv, SaveType
  <1>3. Len(u) + Len(buffer) = Size(volume, blk) + 1
    <2>1. Rank(volume, blk, FirstOf(blk) + bit) = Size(volume, blk)
      BY <1>1, RankEnds DEF Slices
    <2>2. QED
      BY <1>1, <2>1
  <1>4. ~misread => /\ Exact(volume, u, blk)
                    /\ \A j \in DOMAIN buffer : buffer[j] = Kth(UsedIn(volume, blk), Len(u) - 1 + j)
    <2>1. blk \in 0 .. Len(files) - 1
      BY <1>1
    <2>2. QED
      BY <2>1 DEF SaveInv, Image, Compressing
  <1>5. PICK u0 : u0 = u
    OBVIOUS
  <1> HIDE DEF u
  <1>6. PICK x : x = Extended(u0, buffer, blk)
    OBVIOUS
  <1>7. /\ blk \in Int /\ Size(volume, blk) \in Nat /\ u0 \in Seq(Units) /\ buffer \in Seq(Int)
        /\ Formed(volume, u0, blk) /\ Len(u0) # 0 /\ Len(u0) + Len(buffer) <= Size(volume, blk) + 1
    <2>1. Len(u0) + Len(buffer) = Size(volume, blk) + 1
      BY <1>3, <1>5
    <2>2. Size(volume, blk) + 1 <= Size(volume, blk) + 1
      BY <1>1
    <2>3. QED
      BY <1>1, <1>2, <1>5, <2>1, <2>2, Zenon
  <1>8. x \in Seq(Units) /\ Len(x) = Size(volume, blk) + 1
    <2>1. Joined(u0, buffer, blk, x)
      BY <1>6, <1>7, SectorsAt, Zenon
    <2>2. QED
      BY <1>3, <1>5, <2>1 DEF Joined
  <1>9. Formed(volume, x, blk)
    BY <1>6, <1>7, SectorsFormed, Zenon
  <1>10. ~misread => Exact(volume, x, blk)
    BY <1>4, <1>5, <1>6, <1>7, SectorsExact, Zenon
  <1>11. PICK w : w = x \o <<Unit(blk, "end", 0)>>
    OBVIOUS
  <1>12. /\ w \in Seq(Units) /\ Len(w) = Size(volume, blk) + 2
         /\ Formed(volume, w, blk) /\ (Exact(volume, x, blk) => Exact(volume, w, blk))
    BY <1>7, <1>8, <1>9, <1>11, EndFormed, Zenon
  <1>13. Compressed(buffer, TRUE) = [files EXCEPT ![blk + 1] = w]
    <2>1. Compressed(buffer, TRUE) = [files EXCEPT ![blk + 1] = Extended(u, buffer, blk) \o <<Unit(blk, "end", 0)>>]
      BY DEF Compressed, Extended, u
    <2>2. QED
      BY <1>5, <1>6, <1>11, <2>1
  <1>14. blk + 1 \in DOMAIN files
    BY Loop
  <1>15. Compressed(buffer, TRUE)[blk + 1] = w
    BY <1>13, <1>14
  <1>16. ASSUME NEW n \in 0 .. Size(volume, blk) + 2
         PROVE  \E w0 \in Seq(Units), fl \in Seq(Seq(Units)) :
                  /\ [Compressed(buffer, TRUE) EXCEPT ![blk + 1] = SubSeq(@, 1, n)] = fl
                  /\ Grown(fl, w0) /\ Len(w0) = n
                  /\ ~misread => Exact(volume, w0, blk)
    <2>1. PICK w0 : w0 = SubSeq(w, 1, n)
      OBVIOUS
    <2>2. n \in 0 .. Len(w)
      BY <1>12
    <2>3. /\ w0 \in Seq(Units) /\ Len(w0) = n /\ Formed(volume, w0, blk)
          /\ Exact(volume, w, blk) => Exact(volume, w0, blk)
      <3>1. w \in Seq(Units) /\ Formed(volume, w, blk) /\ Size(volume, blk) \in Nat
        BY <1>1, <1>12
      <3>2. w0 \in Seq(Units) /\ Len(w0) = n /\ \A k \in DOMAIN w0 : w0[k] = w[k]
        BY <2>1, <2>2, <3>1
      <3>3. Len(w0) <= Len(w)
        BY <2>2, <3>1, <3>2
      <3>4. QED
        BY <3>1, <3>2, <3>3, PartFormed
    <2>4. PICK fl : fl = [files EXCEPT ![blk + 1] = w0]
      OBVIOUS
    <2>5. Grown(fl, w0)
      BY <2>3, <2>4, FilesFormed
    <2>6. [Compressed(buffer, TRUE) EXCEPT ![blk + 1] = SubSeq(@, 1, n)] = fl
      BY <1>13, <1>14, <2>1, <2>4
    <2>7. fl \in Seq(Seq(Units))
      BY <2>5 DEF Grown
    <2>8. QED
      BY <1>10, <1>12, <2>3, <2>5, <2>6, <2>7
  <1>17. QED
    BY <1>12, <1>15, <1>16

LEMMA EndBlockSave ==
  ASSUME SaveInv, EndBlock
  PROVE  SaveInv'
  <1> DEFINE done == Compressed(buffer, TRUE)
             closed(n) == [done EXCEPT ![blk + 1] = SubSeq(@, 1, n)]
  <1>0. PICK n \in 0 .. Len(done[blk + 1]) :
          /\ files' = IF blk + 1 = Blocks(volume) THEN closed(n)
                      ELSE Append(closed(n), <<Unit(blk + 1, "header", 0)>>)
          /\ IF n = Len(done[blk + 1]) THEN UNCHANGED <<cut, faults>>
             ELSE Fault /\ cut' = cut \union {blk}
    BY DEF EndBlock
  <1>1. /\ phase = "save" /\ bit = Slices
        /\ pos' = Passed /\ skip' = 0 /\ bit' = 0 /\ buffer' = <<>> /\ blk' = blk + 1
        /\ phase' = IF blk + 1 = Blocks(volume) THEN "get" ELSE "save"
        /\ fs' = fs /\ volume' = volume /\ misread' = misread
    BY DEF EndBlock
  <1>a. Len(done[blk + 1]) = Size(volume, blk) + 2
    BY <1>1, BlockClosed
  <1>2. PICK w \in Seq(Units), fl \in Seq(Seq(Units)) :
           /\ closed(n) = fl /\ Grown(fl, w) /\ Len(w) = n
           /\ ~misread => Exact(volume, w, blk)
    BY <1>1, <1>a, BlockClosed
  <1>b. files' = IF blk + 1 = Blocks(volume) THEN fl ELSE Append(fl, <<Unit(blk + 1, "header", 0)>>)
    BY <1>0, <1>2
  <1>c. /\ \A f : f \notin cut' => f \notin cut
        /\ blk \notin cut' => n = Size(volume, blk) + 2
    BY <1>0, <1>a
  <1> HIDE DEF done, closed
  <1>3. /\ VolumeType(volume) /\ blk \in Nat /\ blk < Blocks(volume) /\ Blocks(volume) \in Nat
        /\ Len(files) = blk + 1 /\ FirstOf(blk) \in Nat /\ Slices \in Nat
    BY <1>1, Loop
  <1>4. /\ Len(fl) = blk + 1 /\ fl[blk + 1] = w
        /\ \A f \in 0 .. blk : Formed(volume, fl[f + 1], f)
        /\ ~misread => \A f \in 0 .. blk : Exact(volume, fl[f + 1], f)
    BY <1>2, Zenon DEF Grown
  <1>5. ASSUME NEW f \in 0 .. blk, f \notin cut' PROVE Len(fl[f + 1]) = Size(volume, f) + 2
    <2>1. CASE f = blk
      BY <1>2, <1>4, <1>5, <1>c, <2>1
    <2>2. CASE f # blk
      <3>1. f \in 0 .. blk - 1
        BY <1>3, <2>2
      <3>2. fl[f + 1] = files[f + 1]
        BY <1>2, <3>1, Zenon DEF Grown
      <3>3. QED
        BY <1>5, <1>c, <3>1, <3>2, Zenon DEF SaveInv, Image
    <2>3. QED
      BY <2>1, <2>2
  <1>6. pos' \in Int /\ blk + 1 \in Nat /\ (~misread => pos' + 0 = FirstOf(blk) + Slices)
    <2>1. pos \in Int /\ skip \in Int
      BY DEF SaveInv, SaveType
    <2>2. ~misread => pos + skip = FirstOf(blk) + bit
      BY <1>1 DEF SaveInv, Compressing
    <2>3. pos' = pos + skip
      BY <1>1 DEF Passed
    <2>4. ~misread => pos + skip + 0 = FirstOf(blk) + Slices
      BY <1>1, <2>1, <2>2
    <2>5. QED
      BY <1>3, <2>1, <2>3, <2>4
  <1>7. 0 \in Nat /\ 0 \in Int /\ <<>> \in Seq(Int) /\ blk + 1 - 1 = blk
    BY <1>3
  <1>8. CASE blk + 1 = Blocks(volume)
    <2>1. files' = fl /\ phase' = "get"
      BY <1>1, <1>b, <1>8
    <2>2. SaveType'
      BY <1>1, <1>6, <1>7, <2>1, Zenon DEF SaveInv, SaveType
    <2>3. Image'
      <3>1. blk + 1 <= Blocks(volume) /\ Len(fl) <= Blocks(volume) /\ Len(fl) - 1 = blk
        BY <1>3, <1>4, <1>8
      <3>2. QED
        BY <1>1, <1>4, <1>5, <1>7, <2>1, <3>1, Zenon DEF Image
    <2>4. Compressing'
      BY <2>1 DEF Compressing
    <2>5. QED
      BY <2>2, <2>3, <2>4 DEF SaveInv
  <1>9. CASE blk + 1 # Blocks(volume)
    <2> DEFINE h == <<Unit(blk + 1, "header", 0)>>
               next == Append(fl, h)
    <2>1. files' = next /\ phase' = "save"
      BY <1>1, <1>b, <1>9
    <2>2. blk + 1 < Blocks(volume) /\ blk + 1 \in Nat /\ blk + 1 \in Int
      BY <1>3, <1>9
    <2>3. Size(volume, blk + 1) \in Nat /\ Rank(volume, blk + 1, FirstOf(blk + 1)) = 0
      BY <1>3, <2>2, RankEnds
    <2>4. h \in Seq(Units) /\ Len(h) = 1 /\ Formed(volume, h, blk + 1) /\ Exact(volume, h, blk + 1)
      BY <2>2, <2>3, HeaderFormed, Zenon
    <2> HIDE DEF h
    <2>5. /\ next \in Seq(Seq(Units)) /\ Len(next) = blk + 2 /\ next[blk + 2] = h
          /\ \A k \in 1 .. blk + 1 : next[k] = fl[k]
      <3>1. /\ next \in Seq(Seq(Units)) /\ Len(next) = Len(fl) + 1 /\ next[Len(fl) + 1] = h
            /\ \A k \in 1 .. Len(fl) : next[k] = fl[k]
        <4>1. PICK h0 \in Seq(Units) : h0 = h
          BY <2>4
        <4>2. /\ Append(fl, h0) \in Seq(Seq(Units)) /\ Len(Append(fl, h0)) = Len(fl) + 1
              /\ Append(fl, h0)[Len(fl) + 1] = h0
              /\ \A k \in 1 .. Len(fl) : Append(fl, h0)[k] = fl[k]
          BY AppendProperties
        <4>3. QED
          BY <4>1, <4>2
      <3>2. Len(fl) + 1 = blk + 2
        BY <1>3, <1>4
      <3>3. QED
        BY <1>4, <3>1, <3>2, Zenon
    <2> HIDE DEF next
    <2>6. ASSUME NEW f \in 0 .. blk + 1
          PROVE  \/ f = blk + 1 /\ next[f + 1] = h
                 \/ f \in 0 .. blk /\ next[f + 1] = fl[f + 1]
      <3>1. CASE f = blk + 1
        <4>1. f + 1 = blk + 2
          BY <1>3, <3>1
        <4>2. QED
          BY <2>5, <3>1, <4>1
      <3>2. CASE f # blk + 1
        <4>1. f \in 0 .. blk /\ f + 1 \in 1 .. blk + 1
          BY <1>3, <3>2
        <4>2. QED
          BY <2>5, <4>1
      <3>3. QED
        BY <3>1, <3>2
    <2>7. SaveType'
      BY <1>1, <1>6, <1>7, <2>1, <2>5, Zenon DEF SaveInv, SaveType
    <2>8. Image'
      <3>1. \A f \in 0 .. blk + 1 : Formed(volume, next[f + 1], f)
        BY <1>4, <2>4, <2>6, Zenon
      <3>2. ~misread => \A f \in 0 .. blk + 1 : Exact(volume, next[f + 1], f)
        BY <1>4, <2>4, <2>6, Zenon
      <3>3. ASSUME NEW f \in 0 .. blk, f \notin cut' PROVE Len(next[f + 1]) = Size(volume, f) + 2
        <4>1. f + 1 \in 1 .. blk + 1
          BY <1>3
        <4>2. QED
          BY <1>5, <2>5, <3>3, <4>1
      <3>4. /\ blk + 1 <= Blocks(volume) /\ Len(next) <= Blocks(volume) /\ Len(next) - 1 = blk + 1
            /\ Len(next) = (blk + 1) + 1
        BY <1>3, <2>2, <2>5
      <3>6. blk' = blk + 1 /\ files' = next /\ volume' = volume /\ misread' = misread
        BY <1>1, <2>1
      <3>7. \A f \in 0 .. blk : f \notin cut' => Len(next[f + 1]) = Size(volume, f) + 2
        BY <3>3
      <3>8. /\ blk' <= Blocks(volume') /\ Len(files') <= Blocks(volume')
            /\ Len(files') \in {blk', blk' + 1}
        BY <3>4, <3>6
      <3>9. \A f \in 0 .. Len(files') - 1 : Formed(volume', files'[f + 1], f)
        BY <3>1, <3>4, <3>6
      <3>10. ~misread' => \A f \in 0 .. Len(files') - 1 : Exact(volume', files'[f + 1], f)
        BY <3>2, <3>4, <3>6
      <3>11. \A f \in 0 .. blk' - 1 : f \notin cut' => Len(files'[f + 1]) = Size(volume', f) + 2
        <4>1. blk' - 1 = blk
          BY <1>3, <3>6
        <4>2. QED
          BY <3>6, <3>7, <4>1, Zenon
      <3>5. QED
        BY <3>8, <3>9, <3>10, <3>11 DEF Image
    <2>9. Compressing'
      <3>1. FirstOf(blk + 1) \in Nat /\ Slices' \in Nat /\ FirstOf(blk + 1) = FirstOf(blk) + Slices
        <4>1. Slices' = Lg(volume, blk + 1) * Byte
          BY <1>1 DEF Slices
        <4>2. QED
          BY <1>3, <2>2, <4>1, SliceType DEF Slices
      <3>2. FirstOf(blk + 1) + 0 = FirstOf(blk + 1) /\ 0 \in 0 .. Slices'
        BY <3>1
      <3>3. blk + 1 + 1 = blk + 2 /\ Len(<<>>) < TOTALLG /\ DOMAIN <<>> = {} /\ 1 + Len(<<>>) = 0 + 1
        BY <1>3, FormatAssumption
      <3>8. Len(next[blk + 1 + 1]) = 1 /\ Len(next) = blk + 1 + 1
        BY <2>4, <2>5, <3>3
      <3>4. Len(next[blk + 1 + 1]) = 1 /\ Len(next) = blk + 1 + 1 /\ Len(next[blk + 1 + 1]) > 0
        BY <3>8
      <3>5. Len(next[blk + 1 + 1]) + Len(<<>>) = Rank(volume, blk + 1, FirstOf(blk + 1) + 0) + 1
        BY <2>3, <3>2, <3>3, <3>4, Zenon
      <3>6. ~misread => pos' + 0 = FirstOf(blk + 1) + 0
        BY <1>6, <3>1, <3>2, Zenon
      <3>7. QED
        BY <1>1, <2>1, <3>2, <3>3, <3>4, <3>5, <3>6, Zenon DEF Compressing
    <2>10. QED
      BY <2>7, <2>8, <2>9 DEF SaveInv
  <1>10. QED
    BY <1>8, <1>9

\* The compressor keeps its place; the restore does not touch what it wrote.
LEMMA SaveStep == SaveInv /\ [Next]_vars => SaveInv'
  <1> SUFFICES ASSUME SaveInv, [Next]_vars PROVE SaveInv'
    OBVIOUS
  <1>1. CASE SkipSector
    BY <1>1, SkipSave
  <1>2. CASE ReadSector
    BY <1>2, ReadSave
  <1>3. CASE EndBlock
    BY <1>3, EndBlockSave
  <1>4. CASE WriteError
    BY <1>4, SaveUnchanged DEF WriteError
  <1>5. CASE Get
    BY <1>5, SaveUnchanged DEF Get
  <1>6. CASE Open
    BY <1>6, SaveUnchanged DEF Open
  <1>7. CASE OpenFails
    BY <1>7, SaveUnchanged DEF OpenFails
  <1>8. CASE InflateHeader \/ InflateDamaged
    BY <1>8, SaveUnchanged DEF InflateHeader, InflateDamaged
  <1>9. CASE InflateBuffer
    BY <1>9, SaveUnchanged DEF InflateBuffer
  <1>15. CASE InflateJunk
    <2>1. phase' \in {"inflate", "fatal"}
      BY <1>15 DEF InflateJunk
    <2>2. QED
      BY <1>15, <2>1, SaveUnchanged DEF InflateJunk
  <1>10. CASE StreamEnd
    BY <1>10, SaveUnchanged DEF StreamEnd
  <1>11. CASE ZlibError
    BY <1>11, SaveUnchanged DEF ZlibError
  <1>12. CASE EndFile
    BY <1>12, SaveUnchanged DEF EndFile
  <1>13. CASE UNCHANGED vars
    BY <1>13, SaveUnchanged DEF vars, SaveInv, SaveType
  <1>14. QED
    BY <1>1, <1>2, <1>3, <1>4, <1>5, <1>6, <1>7, <1>8, <1>9, <1>10, <1>11, <1>12, <1>13,
       <1>15 DEF Next, Step, Finished

\* Whatever is on the partition, however large the buffers and block files: every
\* block file compress_volume closes is the one the format asks for, sector by
\* sector, unless a read error was shown; one that lost its end when it was closed is
\* right as far as it goes (compress-loop.h 55-112).
THEOREM ImageSaved == Spec => []SavedFaithfully
  <1>1. SaveInv => SavedFaithfully
    <2> SUFFICES ASSUME SaveInv, ~misread, NEW f \in 0 .. blk - 1
                 PROVE  /\ files[f + 1] = SubSeq(Stream(volume, f), 1, Len(files[f + 1]))
                        /\ f \notin cut => Len(files[f + 1]) = Len(Stream(volume, f))
      BY DEF SavedFaithfully
    <2>1. blk \in Nat /\ Len(files) \in {blk, blk + 1} /\ files \in Seq(Seq(Units))
      BY DEF SaveInv, SaveType, Image
    <2>2. f \in 0 .. Len(files) - 1 /\ f + 1 \in DOMAIN files
      BY <2>1, LenProperties
    <2>3. Formed(volume, files[f + 1], f) /\ Exact(volume, files[f + 1], f)
      BY <2>2 DEF SaveInv, Image
    <2>4. f \notin cut => Len(files[f + 1]) = Size(volume, f) + 2
      BY DEF SaveInv, Image
    <2>5. files[f + 1] \in Seq(Units)
      BY <2>1, <2>2, ElementOfSeq
    <2>6. VolumeType(volume) /\ f \in Nat /\ f < Blocks(volume)
      BY <2>1, VolumeOK DEF SaveInv, Image
    <2>7. Size(volume, f) \in Nat
      BY <2>6, RankEnds
    <2>8. QED
      BY <2>3, <2>4, <2>5, <2>7, FormedIsStream
  <1>2. QED
    BY <1>1, SaveInit, SaveStep, PTL DEF Spec

--------------------------------------------------------------------------------
(* Restoring: the bit of a sector is found from the one before.             *)

\* The bit of the j-th sector of a buffer: the j-th set one from bitindex on.
Bit(j) == Kth(Ahead, j)

RestType ==
  /\ filenum \in Nat /\ filenum <= Blocks(volume)
  /\ fmax \in {-1, Blocks(volume)} \union Misread
  /\ copy \in Seq(Units)
  /\ sum \in BOOLEAN /\ firstpass \in BOOLEAN
  /\ alloc \in Int
  /\ misbits \in SUBSET Nat /\ IsFiniteSet(misbits)
  /\ bitindex \in Nat /\ (sum => bitindex <= ALLOCLG * Byte)
  /\ offset \in Start .. DiskSize /\ starto \in Start .. DiskSize
  /\ DOMAIN target = 0 .. DiskSize - 1
  /\ hurt \in BOOLEAN /\ reported \in BOOLEAN /\ missed \in BOOLEAN
  /\ faults \in 0 .. MaxFaults

\* What the size of a buffer and of a slice allow, also when the save was cut short.
SaveBounds == bit \in 0 .. ALLOCLG * Byte /\ Len(buffer) < TOTALLG

\* The units of the block file taken so far: the header, and the sectors before the
\* next bit.
Taken == IF firstpass THEN 0 ELSE Rank(volume, filenum, FirstOf(filenum) + bitindex) + 1

\* Unit k of block file f, as it was saved.
CopyUnit(u, f, k) ==
  /\ k <= Size(volume, f) + 2
  /\ u.file = f /\ u.is = Kind(volume, f, k)
  /\ ~misread => u.data = DataOf(volume, f, k)

\* The rest of the copy goes on where the restore stands, up to the damage; after it
\* there is nothing.
Inflating ==
  phase = "inflate" =>
    \A j \in DOMAIN copy :
      \/ copy[j].is = "bad" /\ j = Len(copy)
      \/ sum /\ CopyUnit(copy[j], filenum, Taken + j)

\* The restore of a file goes on from where it began, and as long as nothing damaged
\* was inflated the bitmap is the file's own.
Placed ==
  /\ phase \in {"save", "get", "open"} => filenum < Blocks(volume)
  /\ filenum > 0 => fmax = Blocks(volume)
  /\ phase \in {"open", "inflate", "file"} => filenum < Len(files)
  /\ phase \in {"inflate", "file"} =>
       /\ starto <= offset
       /\ firstpass => sum /\ bitindex = 0
       /\ ~firstpass => alloc \in {filenum, NoTable}
       /\ ~firstpass /\ sum =>
            alloc = filenum /\ fmax = Blocks(volume) /\ bitindex <= Lg(volume, filenum) * Byte
  /\ phase = "file" => ~firstpass /\ sum

RestInv == RestType /\ SaveBounds /\ Inflating /\ Placed

\* The partition begins on the disk, and all but the last byte of its bitmap is there.
LEMMA Room ==
  ASSUME SaveType
  PROVE  /\ Start \in Nat /\ DiskSize \in Nat /\ Start <= DiskSize
         /\ \A f \in Nat : f < Blocks(volume) => Start + FirstOf(f) <= DiskSize
  <1>1. VolumeType(volume) /\ Blocks(volume) \in Nat \ {0}
    BY VolumeOK
  <1>2. Start + volume.lg * Byte < DiskSize + Byte
    BY RoomAssumption DEF SaveType
  <1>3. Start \in Nat /\ DiskSize \in Nat /\ Byte \in Nat /\ ALLOCLG \in Nat /\ volume.lg \in Nat
    BY <1>1, TargetAssumption, FormatAssumption DEF VolumeType
  <1>4. ASSUME NEW f \in Nat, f < Blocks(volume) PROVE Start + FirstOf(f) <= DiskSize
    <2> DEFINE p == f * ALLOCLG
    <2>1. p \in Nat /\ p < volume.lg
      BY <1>1, <1>3, <1>4, BlocksType
    <2>2. FirstOf(f) = p * Byte
      BY DEF FirstOf
    <2> HIDE DEF p
    <2>3. (p + 1) * Byte <= volume.lg * Byte
      <3>1. p + 1 \in Int /\ p + 1 <= volume.lg
        BY <1>3, <2>1
      <3>2. QED
        BY <1>3, <3>1, MulMono
    <2>4. (p + 1) * Byte = p * Byte + Byte
      BY <1>3, <2>1
    <2>5. p * Byte \in Nat /\ volume.lg * Byte \in Nat
      BY <1>3, <2>1
    <2>6. QED
      BY <1>2, <1>3, <2>2, <2>3, <2>4, <2>5
  <1>5. Start <= DiskSize
    <2>1. FirstOf(0) = 0
      BY FormatAssumption DEF FirstOf
    <2>2. 0 \in Nat /\ 0 < Blocks(volume)
      BY <1>1
    <2>3. QED
      BY <1>3, <1>4, <2>1, <2>2
  <1>6. QED
    BY <1>3, <1>4, <1>5

LEMMA RestInit == Init => RestInv
  <1> SUFFICES ASSUME Init PROVE RestInv
    OBVIOUS
  <1>1. SaveType
    BY SaveInit DEF SaveInv
  <1>2. Blocks(volume) \in Nat \ {0} /\ Start \in Nat /\ DiskSize \in Nat /\ Start <= DiskSize
    BY <1>1, VolumeOK, Room
  <1>3. /\ filenum = 0 /\ fmax = -1 /\ copy = <<>> /\ sum = TRUE /\ firstpass = TRUE
        /\ alloc = -1 /\ bitindex = 0 /\ offset = Start /\ starto = Start /\ misbits = {}
        /\ target = [d \in 0 .. DiskSize - 1 |-> Old] /\ hurt = FALSE
        /\ reported = FALSE /\ missed = FALSE /\ faults = 0 /\ phase = "save"
        /\ bit = 0 /\ buffer = <<>>
    BY DEF Init, NoTable
  <1>4. ALLOCLG * Byte \in Nat /\ TOTALLG > 0 /\ MaxFaults \in Nat
    BY FormatAssumption, TargetAssumption
  <1>5. RestType
    <2>1. /\ 0 \in Nat /\ 0 <= Blocks(volume) /\ <<>> \in Seq(Units)
          /\ -1 \in Int /\ 0 <= ALLOCLG * Byte /\ Start \in Start .. DiskSize
          /\ 0 \in 0 .. MaxFaults
      BY <1>2, <1>4
    <2>2. {} \in SUBSET Nat /\ IsFiniteSet({}) /\ -1 \in {-1, Blocks(volume)} \union Misread
      BY FS_EmptySet
    <2>3. DOMAIN target = 0 .. DiskSize - 1
      BY <1>3
    <2>4. QED
      BY <1>3, <2>1, <2>2, <2>3, Zenon DEF RestType
  <1>6. SaveBounds
    BY <1>3, <1>4 DEF SaveBounds
  <1>7. Inflating
    BY <1>3 DEF Inflating
  <1>8. Placed
    BY <1>2, <1>3 DEF Placed
  <1>9. QED
    BY <1>5, <1>6, <1>7, <1>8 DEF RestInv

LEMMA FaultBound ==
  ASSUME RestType, Fault
  PROVE  faults' \in 0 .. MaxFaults
  BY TargetAssumption DEF RestType, Fault

\* The restore waits while the save goes on.
LEMMA RestWaits ==
  ASSUME RestInv, phase = "save", phase' \in {"save", "get"}, volume' = volume,
         UNCHANGED restVars, faults' \in 0 .. MaxFaults, SaveBounds'
  PROVE  RestInv'
  <1>1. /\ filenum' = filenum /\ fmax' = fmax /\ copy' = copy /\ sum' = sum
        /\ firstpass' = firstpass /\ alloc' = alloc /\ bitindex' = bitindex
        /\ offset' = offset /\ starto' = starto /\ reported' = reported /\ missed' = missed
        /\ misbits' = misbits /\ target' = target /\ hurt' = hurt
    BY DEF restVars
  <1>2. RestType'
    BY <1>1, Zenon DEF RestInv, RestType
  <1>3. Inflating'
    BY DEF Inflating
  <1>4. Placed'
    <2>1. filenum < Blocks(volume) /\ (filenum > 0 => fmax = Blocks(volume))
      BY DEF RestInv, Placed
    <2>2. phase' # "open" /\ phase' # "inflate" /\ phase' # "file"
      OBVIOUS
    <2>3. QED
      BY <1>1, <2>1, <2>2 DEF Placed
  <1>5. QED
    BY <1>2, <1>3, <1>4 DEF RestInv

Saving == phase = "save"

LEMMA SaveBounded == SaveInv /\ Saving => SaveBounds
  <1> SUFFICES ASSUME SaveInv, phase = "save" PROVE SaveBounds
    BY DEF Saving
  <1>1. /\ VolumeType(volume) /\ blk \in Nat /\ blk < Blocks(volume)
        /\ bit \in 0 .. Slices /\ Len(buffer) < TOTALLG /\ Slices \in Nat
    BY Loop
  <1>2. Slices <= ALLOCLG * Byte
    BY <1>1, SliceType DEF Slices
  <1>3. ALLOCLG * Byte \in Nat
    BY FormatAssumption
  <1>4. QED
    BY <1>1, <1>2, <1>3 DEF SaveBounds

LEMMA RestWhileSaving ==
  ASSUME SaveInv, SaveInv', RestInv, SkipSector \/ ReadSector \/ EndBlock \/ WriteError
  PROVE  RestInv'
  <1>1. phase = "save" /\ volume' = volume /\ UNCHANGED restVars /\ phase' \in {"save", "get"}
    BY DEF SkipSector, ReadSector, EndBlock, WriteError
  <1>2. faults' \in 0 .. MaxFaults
    <2>1. faults \in 0 .. MaxFaults /\ RestType
      BY DEF RestInv, RestType
    <2>2. faults' = faults \/ Fault
      BY DEF SkipSector, ReadSector, EndBlock, WriteError
    <2>3. QED
      BY <2>1, <2>2, FaultBound
  <1>3. SaveBounds'
    <2>1. CASE phase' = "save"
      <3>1. Saving'
        BY <2>1 DEF Saving
      <3>2. QED
        BY <3>1, SaveBounded, PTL
    <2>2. CASE EndBlock
      <3>1. bit' = 0 /\ buffer' = <<>>
        BY <2>2 DEF EndBlock
      <3>2. ALLOCLG * Byte \in Nat /\ TOTALLG > 0
        BY FormatAssumption
      <3>3. QED
        BY <3>1, <3>2 DEF SaveBounds
    <2>3. CASE WriteError
      BY <2>3 DEF WriteError, RestInv, SaveBounds, saveVars
    <2>4. QED
      BY <1>1, <2>1, <2>2, <2>3 DEF SkipSector, ReadSector
  <1>4. QED
    BY <1>1, <1>2, <1>3, RestWaits

\* The numbers of the slice being restored, and what bounds them.
LEMMA Within ==
  ASSUME SaveInv, RestInv, filenum < Blocks(volume)
  PROVE  /\ VolumeType(volume) /\ filenum \in Nat /\ Blocks(volume) \in Nat
         /\ FirstOf(filenum) \in Nat /\ Size(volume, filenum) \in Nat
         /\ Lg(volume, filenum) * Byte \in Nat
         /\ Lg(volume, filenum) * Byte <= ALLOCLG * Byte
         /\ FirstOf(filenum) + Lg(volume, filenum) * Byte <= volume.lg * Byte
         /\ ALLOCLG * Byte \in Nat /\ volume.lg * Byte \in Nat /\ Start \in Nat
  <1>1. VolumeType(volume) /\ Blocks(volume) \in Nat /\ filenum \in Nat
    BY VolumeOK DEF SaveInv, RestInv, RestType
  <1>2. ALLOCLG * Byte \in Nat /\ volume.lg * Byte \in Nat /\ Start \in Nat
    BY <1>1, FormatAssumption, TargetAssumption DEF VolumeType
  <1>3. QED
    BY <1>1, <1>2, SliceType, RankEnds

\* What the server has of the block file asked for: units of its slice.
LEMMA FileInImage ==
  ASSUME SaveInv, RestInv, filenum < Len(files)
  PROVE  /\ filenum < Blocks(volume)
         /\ filenum + 1 \in DOMAIN files /\ files[filenum + 1] \in Seq(Units)
         /\ Len(files[filenum + 1]) \in Nat
         /\ \A k \in DOMAIN files[filenum + 1] : CopyUnit(files[filenum + 1][k], filenum, k)
  <1>1. /\ filenum \in Nat /\ Blocks(volume) \in Nat /\ Len(files) <= Blocks(volume)
        /\ files \in Seq(Seq(Units)) /\ Len(files) \in Nat /\ DOMAIN files = 1 .. Len(files)
    BY VolumeOK, LenProperties DEF SaveInv, SaveType, Image, RestInv, RestType
  <1>2. filenum < Blocks(volume)
    BY <1>1
  <1>3. filenum + 1 \in DOMAIN files /\ filenum \in 0 .. Len(files) - 1
    BY <1>1
  <1> DEFINE u == files[filenum + 1]
  <1>4. u \in Seq(Units)
    BY <1>1, <1>3, ElementOfSeq
  <1>5. Formed(volume, u, filenum) /\ (~misread => Exact(volume, u, filenum))
    BY <1>3 DEF SaveInv, Image
  <1> HIDE DEF u
  <1>6. Size(volume, filenum) \in Nat
    BY <1>2, Within
  <1>7. Len(u) \in Nat /\ Len(u) <= Size(volume, filenum) + 2
    BY <1>5, <1>6 DEF Formed
  <1>8. ASSUME NEW k \in DOMAIN u PROVE CopyUnit(u[k], filenum, k)
    <2>1. u[k] = Unit(filenum, Kind(volume, filenum, k), u[k].data)
      BY <1>5 DEF Formed
    <2>2. ~misread => u[k].data = DataOf(volume, filenum, k)
      BY <1>5 DEF Exact
    <2>3. u[k].file = filenum /\ u[k].is = Kind(volume, filenum, k)
      BY <2>1 DEF Unit
    <2>4. k <= Size(volume, filenum) + 2
      <3>1. k \in 1 .. Len(u)
        BY <1>4, LenProperties
      <3>2. QED
        BY <1>6, <1>7, <3>1
    <2>5. QED
      BY <2>2, <2>3, <2>4 DEF CopyUnit
  <1>9. QED
    BY <1>2, <1>3, <1>4, <1>7, <1>8 DEF u

\* What Open reads of a block file: all of it, a part, or a part and damage.
LEMMA CopyRead ==
  ASSUME SaveInv, RestInv, filenum < Len(files), Open
  PROVE  /\ copy' \in Seq(Units)
         /\ \A j \in DOMAIN copy' :
              (copy'[j].is = "bad" /\ j = Len(copy')) \/ CopyUnit(copy'[j], filenum, j)
         /\ faults' \in 0 .. MaxFaults
  <1> DEFINE u == files[filenum + 1]
             x == Unit(filenum, "bad", Garbage)
  <1>1. /\ filenum < Blocks(volume) /\ u \in Seq(Units) /\ Len(u) \in Nat
        /\ \A k \in DOMAIN u : CopyUnit(u[k], filenum, k)
    BY FileInImage
  <1>2. DOMAIN u = 1 .. Len(u) /\ \A k \in DOMAIN u : u[k] \in Units
    BY <1>1, LenProperties, ElementOfSeq
  <1>3. \/ copy' = u /\ UNCHANGED faults
        \/ Fault /\ \E n \in 0 .. Len(u) - 1 :
             copy' \in {SubSeq(u, 1, n), Append(SubSeq(u, 1, n), x)}
    BY DEF Open
  <1>4. x \in Units /\ x.is = "bad"
    <2>1. filenum \in Int /\ Garbage \in Int
      BY DEF Garbage, RestInv, RestType
    <2>2. QED
      BY <2>1 DEF Unit, Units
  <1> HIDE DEF u, x
  <1>5. faults' \in 0 .. MaxFaults
    BY <1>3, FaultBound DEF RestInv, RestType
  <1>6. CASE copy' = u
    BY <1>1, <1>5, <1>6
  <1>7. ASSUME NEW n \in 0 .. Len(u) - 1, copy' \in {SubSeq(u, 1, n), Append(SubSeq(u, 1, n), x)}
        PROVE  /\ copy' \in Seq(Units)
               /\ \A j \in DOMAIN copy' :
                    (copy'[j].is = "bad" /\ j = Len(copy')) \/ CopyUnit(copy'[j], filenum, j)
    <2> DEFINE c == SubSeq(u, 1, n)
    <2>1. n \in Nat /\ 1 \in Int /\ \A k \in 1 .. n : u[k] \in Units /\ k \in DOMAIN u
      BY <1>1, <1>2
    <2>2. /\ c \in Seq(Units)
          /\ Len(c) = IF 1 <= n THEN n - 1 + 1 ELSE 0
          /\ \A k \in 1 .. n - 1 + 1 : c[k] = u[1 + k - 1]
      BY <2>1, SubSeqProperties
    <2>3. Len(c) = n /\ DOMAIN c = 1 .. n /\ \A k \in 1 .. n : c[k] = u[k]
      BY <1>1, <2>1, <2>2, LenProperties
    <2> HIDE DEF c
    <2>4. \A k \in 1 .. n : CopyUnit(c[k], filenum, k)
      BY <1>1, <2>1, <2>3
    <2>5. CASE copy' = c
      BY <2>2, <2>3, <2>4, <2>5
    <2>6. CASE copy' = Append(c, x)
      <3>1. /\ Append(c, x) \in Seq(Units) /\ Len(Append(c, x)) = n + 1
            /\ \A k \in 1 .. n : Append(c, x)[k] = c[k]
            /\ Append(c, x)[n + 1] = x
        BY <1>4, <2>2, <2>3, AppendProperties
      <3>2. DOMAIN copy' = 1 .. n + 1
        BY <2>6, <3>1, LenProperties
      <3>3. ASSUME NEW j \in DOMAIN copy'
            PROVE  (copy'[j].is = "bad" /\ j = Len(copy')) \/ CopyUnit(copy'[j], filenum, j)
        <4>1. j = n + 1 \/ j \in 1 .. n
          BY <2>1, <3>2
        <4>2. CASE j = n + 1
          BY <1>4, <2>6, <3>1, <4>2
        <4>3. CASE j \in 1 .. n
          BY <2>4, <2>6, <3>1, <4>3
        <4>4. QED
          BY <4>1, <4>2, <4>3
      <3>4. QED
        BY <2>6, <3>1, <3>3
    <2>7. QED
      BY <1>7, <2>5, <2>6 DEF c
  <1>8. QED
    BY <1>3, <1>5, <1>6, <1>7

\* The restore leaves the variables of the save alone.
LEMMA BoundsKept ==
  ASSUME RestInv, UNCHANGED saveVars
  PROVE  SaveBounds'
  BY DEF RestInv, SaveBounds, saveVars

\* The rest of the copy, t units into the block file.
LEMMA InflatingNext ==
  ASSUME phase' = "inflate", volume' = volume, misread' = misread, filenum' = filenum,
         NEW t, Taken' = t,
         \A j \in DOMAIN copy' :
           \/ copy'[j].is = "bad" /\ j = Len(copy')
           \/ sum' /\ CopyUnit(copy'[j], filenum, t + j)
  PROVE  Inflating'
  <1>1. \A u, f, k : CopyUnit(u, f, k)' <=> CopyUnit(u, f, k)
    BY Zenon DEF CopyUnit
  <1>2. ASSUME NEW j, CopyUnit(copy'[j], filenum, t + j)
        PROVE  CopyUnit(copy[j], filenum, Taken + j)'
    <2>1. PICK u : u = copy'[j]
      OBVIOUS
    <2>2. PICK f : f = filenum'
      OBVIOUS
    <2>3. PICK k : k = t + j
      OBVIOUS
    <2>4. CopyUnit(u, f, k)
      BY <1>2, <2>1, <2>2, <2>3
    <2>5. CopyUnit(u, f, k)'
      BY <1>1, <2>4
    <2>6. QED
      BY <2>1, <2>2, <2>3, <2>5 DEF CopyUnit
  <1>3. \A j \in DOMAIN copy' :
          (copy'[j].is = "bad" /\ j = Len(copy')) \/ (sum' /\ CopyUnit(copy[j], filenum, Taken + j)')
    BY <1>2
  <1>4. QED
    BY <1>3 DEF Inflating

LEMMA RestGet ==
  ASSUME SaveInv, RestInv, Get
  PROVE  RestInv'
  <1>1. /\ phase = "get" /\ volume' = volume /\ files' = files
        /\ filenum' = filenum /\ fmax' = fmax /\ copy' = copy /\ sum' = sum
        /\ firstpass' = firstpass /\ alloc' = alloc /\ bitindex' = bitindex
        /\ offset' = offset /\ starto' = starto /\ reported' = reported
        /\ misbits' = misbits /\ target' = target /\ hurt' = hurt
        /\ (phase' = "open" /\ filenum < Len(files)) \/ phase' = "done"
    BY DEF Get, saveVars
  <1>2. missed' \in BOOLEAN /\ faults' \in 0 .. MaxFaults
    BY FaultBound DEF Get, RestInv, RestType
  <1>3. SaveBounds'
    BY BoundsKept DEF Get
  <1>4. RestType'
    BY <1>1, <1>2, Zenon DEF RestInv, RestType
  <1>5. Inflating'
    BY <1>1 DEF Inflating
  <1>6. Placed'
    BY <1>1 DEF RestInv, Placed
  <1>7. QED
    BY <1>3, <1>4, <1>5, <1>6 DEF RestInv

LEMMA RestOpen ==
  ASSUME SaveInv, RestInv, Open
  PROVE  RestInv'
  <1>1. /\ phase = "open" /\ volume' = volume /\ files' = files /\ misread' = misread
        /\ filenum' = filenum /\ fmax' = fmax /\ sum' = TRUE
        /\ firstpass' = TRUE /\ alloc' = alloc /\ bitindex' = 0 /\ misbits' = misbits
        /\ offset' = offset /\ starto' = offset /\ reported' = reported /\ missed' = missed
        /\ phase' = "inflate" /\ target' = target /\ hurt' = hurt
    BY DEF Open, Checksum, saveVars
  <1>2. filenum < Len(files) /\ filenum < Blocks(volume) /\ (filenum > 0 => fmax = Blocks(volume))
    BY <1>1 DEF RestInv, Placed
  <1>3. /\ copy' \in Seq(Units)
        /\ \A j \in DOMAIN copy' :
             (copy'[j].is = "bad" /\ j = Len(copy')) \/ CopyUnit(copy'[j], filenum, j)
        /\ faults' \in 0 .. MaxFaults
    BY <1>2, CopyRead
  <1>4. RestType'
    <2>1. 0 \in Nat /\ 0 <= ALLOCLG * Byte
      BY FormatAssumption
    <2>2. QED
      BY <1>1, <1>3, <2>1, Zenon DEF RestInv, RestType
  <1>5. Taken' = 0
    BY <1>1 DEF Taken
  <1>6. Inflating'
    <2>1. ASSUME NEW j \in DOMAIN copy'
          PROVE  (copy'[j].is = "bad" /\ j = Len(copy')) \/ (sum' /\ CopyUnit(copy'[j], filenum, 0 + j))
      <3>1. j \in 1 .. Len(copy') /\ Len(copy') \in Nat
        BY <1>3, LenProperties
      <3>2. 0 + j = j
        BY <3>1
      <3>3. QED
        BY <1>1, <1>3, <3>2
    <2>2. QED
      BY <1>1, <1>5, <2>1, InflatingNext
  <1>7. Placed'
    <2>1. offset <= offset
      BY Room DEF RestInv, RestType, SaveInv
    <2>2. QED
      BY <1>1, <1>2, <2>1 DEF Placed
  <1>8. SaveBounds'
    BY BoundsKept DEF Open
  <1>9. QED
    BY <1>4, <1>6, <1>7, <1>8 DEF RestInv

\* The first unit of the copy of a file that is just begun.
LEMMA FirstUnit ==
  ASSUME SaveInv, RestInv, phase = "inflate", firstpass, copy # <<>>
  PROVE  /\ filenum < Len(files) /\ filenum < Blocks(volume) /\ bitindex = 0 /\ sum
         /\ copy \in Seq(Units) /\ Len(copy) \in Nat \ {0} /\ DOMAIN copy = 1 .. Len(copy)
         /\ Head(copy) = copy[1] /\ starto <= offset
         /\ \A j \in DOMAIN copy :
              (copy[j].is = "bad" /\ j = Len(copy)) \/ CopyUnit(copy[j], filenum, j)
  <1>1. filenum < Len(files) /\ bitindex = 0 /\ sum /\ starto <= offset
    BY DEF RestInv, Placed
  <1>2. filenum < Blocks(volume)
    BY <1>1, FileInImage
  <1>3. copy \in Seq(Units) /\ Len(copy) \in Nat \ {0} /\ DOMAIN copy = 1 .. Len(copy)
    BY EmptySeq, LenProperties DEF RestInv, RestType
  <1>4. Head(copy) = copy[1]
    BY <1>3
  <1>5. \A j \in DOMAIN copy :
          (copy[j].is = "bad" /\ j = Len(copy)) \/ CopyUnit(copy[j], filenum, j)
    <2>1. Taken = 0
      BY DEF Taken
    <2>2. \A j \in DOMAIN copy : 0 + j = j
      BY <1>3
    <2>3. QED
      BY <2>1, <2>2 DEF RestInv, Inflating
  <1>6. QED
    BY <1>1, <1>2, <1>3, <1>4, <1>5

LEMMA RestHeader ==
  ASSUME SaveInv, RestInv, InflateHeader
  PROVE  RestInv'
  <1>1. /\ phase = "inflate" /\ firstpass /\ copy # <<>> /\ Head(copy).is = "header"
        /\ volume' = volume /\ files' = files /\ misread' = misread
        /\ filenum' = filenum /\ sum' = sum /\ alloc' = Head(copy).file
        /\ fmax' = (IF alloc' = 0 THEN Blocks(volume) ELSE fmax)
        /\ firstpass' = FALSE /\ bitindex' = 0 /\ copy' = Tail(copy) /\ misbits' = misbits
        /\ offset' = offset /\ starto' = starto /\ reported' = reported /\ missed' = missed
        /\ phase' = phase /\ faults' = faults /\ target' = target /\ hurt' = hurt
    BY DEF InflateHeader, saveVars
  <1>2. /\ filenum < Len(files) /\ filenum < Blocks(volume) /\ bitindex = 0 /\ sum
        /\ copy \in Seq(Units) /\ Len(copy) \in Nat \ {0} /\ DOMAIN copy = 1 .. Len(copy)
        /\ Head(copy) = copy[1] /\ starto <= offset
        /\ \A j \in DOMAIN copy :
             (copy[j].is = "bad" /\ j = Len(copy)) \/ CopyUnit(copy[j], filenum, j)
    BY <1>1, FirstUnit
  <1>3. filenum > 0 => fmax = Blocks(volume)
    BY DEF RestInv, Placed
  <1>4. /\ VolumeType(volume) /\ FirstOf(filenum) \in Nat /\ ALLOCLG * Byte \in Nat
        /\ filenum \in Nat /\ Blocks(volume) \in Nat /\ Lg(volume, filenum) * Byte \in Nat
    BY <1>2, Within
  <1>5. alloc' = filenum /\ fmax' = Blocks(volume)
    <2>1. 1 \in DOMAIN copy /\ copy[1].is # "bad"
      BY <1>1, <1>2
    <2>2. copy[1].file = filenum
      BY <1>2, <2>1 DEF CopyUnit
    <2>3. filenum = 0 \/ filenum > 0
      BY <1>4
    <2>4. QED
      BY <1>1, <1>2, <1>3, <2>2, <2>3
  <1>6. /\ copy' \in Seq(Units) /\ Len(copy') = Len(copy) - 1 /\ DOMAIN copy' = 1 .. Len(copy) - 1
        /\ \A j \in 1 .. Len(copy) - 1 : copy'[j] = copy[j + 1] /\ j + 1 \in DOMAIN copy
    <2>1. /\ Tail(copy) \in Seq(Units) /\ Len(Tail(copy)) = Len(copy) - 1
          /\ \A j \in 1 .. Len(Tail(copy)) : Tail(copy)[j] = copy[j + 1]
      BY <1>1, <1>2, HeadTailProperties
    <2>2. \A j \in 1 .. Len(copy) - 1 : j + 1 \in DOMAIN copy
      BY <1>2
    <2>3. QED
      BY <1>1, <2>1, <2>2, LenProperties
  <1>7. Taken' = 1
    <2>1. Taken' = Rank(volume, filenum, FirstOf(filenum) + 0) + 1
      BY <1>1 DEF Taken
    <2>2. FirstOf(filenum) + 0 = FirstOf(filenum) /\ Rank(volume, filenum, FirstOf(filenum)) = 0
      BY <1>2, <1>4, RankEnds
    <2>3. QED
      BY <2>1, <2>2
  <1>8. RestType'
    <2>1. 0 \in Nat /\ 0 <= ALLOCLG * Byte /\ filenum \in Int
      BY <1>4
    <2>2. fmax' \in {-1, Blocks(volume)} \union Misread
      BY <1>5
    <2>3. QED
      BY <1>1, <1>5, <1>6, <2>1, <2>2, Zenon DEF RestInv, RestType
  <1>9. Inflating'
    <2>1. ASSUME NEW j \in DOMAIN copy'
          PROVE  (copy'[j].is = "bad" /\ j = Len(copy')) \/ (sum' /\ CopyUnit(copy'[j], filenum, 1 + j))
      <3>1. j \in Int /\ copy'[j] = copy[j + 1] /\ j + 1 \in DOMAIN copy
        BY <1>6
      <3>2. 1 + j = j + 1 /\ (j + 1 = Len(copy) => j = Len(copy'))
        BY <1>2, <1>6, <3>1
      <3>3. (copy[j + 1].is = "bad" /\ j + 1 = Len(copy)) \/ CopyUnit(copy[j + 1], filenum, j + 1)
        BY <1>2, <3>1
      <3>4. QED
        BY <1>1, <1>2, <3>1, <3>2, <3>3
    <2>2. QED
      BY <1>1, <1>7, <2>1, InflatingNext
  <1>10. Placed'
    <2>1. 0 <= Lg(volume, filenum) * Byte
      BY <1>4
    <2>2. QED
      BY <1>1, <1>2, <1>5, <2>1 DEF Placed
  <1>11. SaveBounds'
    BY BoundsKept DEF InflateHeader
  <1>12. QED
    BY <1>8, <1>9, <1>10, <1>11 DEF RestInv

\* A damaged header: from here on there is only damage.
LEMMA RestDamaged ==
  ASSUME SaveInv, RestInv, InflateDamaged
  PROVE  RestInv'
  <1>1. /\ phase = "inflate" /\ firstpass /\ copy # <<>> /\ Head(copy).is = "bad"
        /\ volume' = volume /\ files' = files /\ misread' = misread
        /\ filenum' = filenum /\ sum' = FALSE /\ alloc' = NoTable /\ misbits' \in Misbits
        /\ fmax' \in {fmax} \union (IF filenum = 0 THEN Misread ELSE {})
        /\ firstpass' = FALSE /\ bitindex' = 0 /\ copy' = copy
        /\ offset' = offset /\ starto' = starto /\ reported' = reported /\ missed' = missed
        /\ phase' = phase /\ faults' = faults /\ target' = target /\ hurt' = TRUE
    BY DEF InflateDamaged, saveVars
  <1>2. /\ filenum < Len(files) /\ filenum < Blocks(volume) /\ bitindex = 0 /\ sum
        /\ copy \in Seq(Units) /\ Len(copy) \in Nat \ {0} /\ DOMAIN copy = 1 .. Len(copy)
        /\ Head(copy) = copy[1] /\ starto <= offset
        /\ \A j \in DOMAIN copy :
             (copy[j].is = "bad" /\ j = Len(copy)) \/ CopyUnit(copy[j], filenum, j)
    BY <1>1, FirstUnit
  <1>3. \A j \in DOMAIN copy : copy[j].is = "bad" /\ j = Len(copy)
    <2>1. 1 \in DOMAIN copy /\ copy[1].is = "bad"
      BY <1>1, <1>2
    <2>2. ~CopyUnit(copy[1], filenum, 1)
      BY <2>1 DEF CopyUnit, Kind
    <2>3. Len(copy) = 1
      BY <1>2, <2>1, <2>2
    <2>4. \A j \in DOMAIN copy : j = 1
      BY <1>2, <2>3
    <2>5. QED
      BY <2>1, <2>3, <2>4
  <1>4. misbits' \in SUBSET Nat /\ IsFiniteSet(misbits')
    <2>1. ALLOCLG * Byte - 1 \in Int
      BY FormatAssumption
    <2>2. misbits' \subseteq 0 .. ALLOCLG * Byte - 1
      BY <1>1, TargetAssumption
    <2>3. IsFiniteSet(0 .. ALLOCLG * Byte - 1) /\ 0 .. ALLOCLG * Byte - 1 \subseteq Nat
      BY <2>1, FS_Interval
    <2>4. PICK m \in SUBSET (0 .. ALLOCLG * Byte - 1) : m = misbits'
      BY <2>2
    <2>5. IsFiniteSet(m)
      BY <2>3, FS_Subset
    <2>6. QED
      BY <2>3, <2>4, <2>5
  <1>5. RestType'
    <2>1. 0 \in Nat /\ NoTable \in Int
      BY DEF NoTable
    <2>2. fmax' \in {-1, Blocks(volume)} \union Misread
      BY <1>1 DEF RestInv, RestType
    <2>3. QED
      BY <1>1, <1>4, <2>1, <2>2, Zenon DEF RestInv, RestType
  <1>6. Inflating'
    BY <1>1, <1>3 DEF Inflating
  <1>7. Placed'
    <2>1. filenum > 0 => fmax' = Blocks(volume)
      <3>1. filenum > 0 => fmax = Blocks(volume) /\ filenum # 0
        BY DEF RestInv, Placed, RestType
      <3>2. QED
        BY <1>1, <3>1
    <2>2. QED
      BY <1>1, <1>2, <2>1 DEF Placed
  <1>8. SaveBounds'
    BY BoundsKept DEF InflateDamaged
  <1>9. QED
    BY <1>5, <1>6, <1>7, <1>8 DEF RestInv

\* Beginning again: the position goes back to where the file began.
LEMMA RestZlib ==
  ASSUME SaveInv, RestInv, ZlibError
  PROVE  RestInv'
  <1>1. /\ phase = "inflate" /\ volume' = volume /\ files' = files
        /\ filenum' = filenum /\ fmax' = fmax /\ copy' = copy /\ sum' = sum
        /\ firstpass' = firstpass /\ alloc' = alloc /\ bitindex' = bitindex
        /\ offset' = starto /\ starto' = starto /\ reported' = reported /\ missed' = missed
        /\ phase' = "open" /\ faults' = faults
        /\ misbits' = misbits /\ target' = target /\ hurt' = hurt
    BY DEF ZlibError, Back, saveVars
  <1>2. filenum < Len(files) /\ (filenum > 0 => fmax = Blocks(volume))
    BY <1>1 DEF RestInv, Placed
  <1>3. filenum < Blocks(volume)
    BY <1>2, FileInImage
  <1>4. RestType'
    BY <1>1, Zenon DEF RestInv, RestType
  <1>5. Inflating'
    BY <1>1 DEF Inflating
  <1>6. Placed'
    BY <1>1, <1>2, <1>3 DEF Placed
  <1>7. SaveBounds'
    BY BoundsKept DEF ZlibError
  <1>8. QED
    BY <1>4, <1>5, <1>6, <1>7 DEF RestInv

\* The position passes over the bits left if the disk has room for them.
LEMMA RestEndFile ==
  ASSUME SaveInv, RestInv, EndFile
  PROVE  RestInv'
  <1> DEFINE L == Lg(volume, filenum) * Byte
             to == offset + L - bitindex
  <1>1. /\ phase = "file" /\ volume' = volume /\ files' = files
        /\ filenum' = filenum + 1 /\ fmax' = fmax /\ copy' = copy /\ sum' = sum
        /\ firstpass' = firstpass /\ alloc' = alloc /\ bitindex' = bitindex
        /\ starto' = starto /\ reported' = reported /\ missed' = missed
        /\ misbits' = misbits /\ target' = target /\ hurt' = hurt
        /\ phase' = (IF fmax # -1 /\ filenum' >= fmax THEN "done" ELSE "get") /\ faults' = faults
    BY DEF EndFile, saveVars
  <1>2. /\ filenum < Len(files) /\ bitindex <= L
        /\ alloc = filenum /\ fmax = Blocks(volume)
    BY <1>1 DEF RestInv, Placed
  <1>3. filenum < Blocks(volume)
    BY <1>2, FileInImage
  <1>4. /\ L \in Nat /\ Start \in Nat /\ DiskSize \in Nat
        /\ Blocks(volume) \in Nat /\ filenum \in Nat
    BY <1>3, Within, TargetAssumption
  <1>5. bitindex \in Nat /\ offset \in Start .. DiskSize
    BY DEF RestInv, RestType
  <1>6. offset' = IF to <= DiskSize THEN to ELSE offset
    BY <1>2 DEF EndFile
  <1> HIDE DEF L
  <1>7. offset' \in Start .. DiskSize
    BY <1>2, <1>4, <1>5, <1>6
  <1>8. filenum + 1 \in Nat /\ filenum + 1 <= Blocks(volume) /\ filenum + 1 > 0
    BY <1>3, <1>4
  <1>9. phase' = "done" \/ (phase' = "get" /\ filenum + 1 < Blocks(volume))
    BY <1>1, <1>2, <1>4
  <1>10. RestType'
    BY <1>1, <1>7, <1>8, Zenon DEF RestInv, RestType
  <1>11. Inflating'
    BY <1>9 DEF Inflating
  <1>12. Placed'
    <2>1. phase' # "inflate" /\ phase' # "file" /\ phase' # "open" /\ phase' # "save"
      BY <1>9
    <2>2. QED
      BY <1>1, <1>2, <1>9, <2>1 DEF Placed
  <1>13. SaveBounds'
    BY BoundsKept DEF EndFile
  <1>14. QED
    BY <1>10, <1>11, <1>12, <1>13 DEF RestInv

LEMMA RestOpenFails ==
  ASSUME SaveInv, RestInv, OpenFails
  PROVE  RestInv'
  <1>1. /\ phase' = "fatal" /\ volume' = volume /\ filenum' = filenum /\ fmax' = fmax
        /\ copy' = copy /\ sum' = sum
        /\ firstpass' = firstpass /\ alloc' = alloc /\ bitindex' = bitindex
        /\ offset' = offset /\ starto' = starto /\ reported' = reported /\ missed' = missed
        /\ misbits' = misbits /\ target' = target /\ hurt' = hurt
        /\ faults' \in 0 .. MaxFaults
    BY FaultBound DEF OpenFails, restVars, RestInv
  <1>2. RestType'
    BY <1>1, Zenon DEF RestInv, RestType
  <1>3. Inflating' /\ Placed'
    BY <1>1 DEF Inflating, Placed, RestInv
  <1>4. SaveBounds'
    BY BoundsKept DEF OpenFails
  <1>5. QED
    BY <1>2, <1>3, <1>4 DEF RestInv

LEMMA RestStutter ==
  ASSUME RestInv, UNCHANGED vars
  PROVE  RestInv'
  <1>1. /\ phase' = phase /\ volume' = volume /\ filenum' = filenum /\ fmax' = fmax
        /\ copy' = copy /\ sum' = sum /\ files' = files /\ misread' = misread
        /\ firstpass' = firstpass /\ alloc' = alloc /\ bitindex' = bitindex
        /\ offset' = offset /\ starto' = starto /\ reported' = reported /\ missed' = missed
        /\ misbits' = misbits /\ target' = target /\ hurt' = hurt
        /\ faults' = faults /\ bit' = bit /\ buffer' = buffer
    BY DEF vars, restVars, saveVars
  <1>2. RestType' /\ SaveBounds'
    BY <1>1, Zenon DEF RestInv, RestType, SaveBounds
  <1>3. Inflating'
    BY <1>1, Zenon DEF RestInv, Inflating, Taken, CopyUnit
  <1>4. Placed'
    BY <1>1, Zenon DEF RestInv, Placed
  <1>5. QED
    BY <1>2, <1>3, <1>4 DEF RestInv

\* The sectors before the end of the stream or the damage are all sectors of the
\* slice; with the end there, they are the last ones.  After damage there is none.
LEMMA PlainUnits ==
  ASSUME SaveInv, RestInv, phase = "inflate", ~firstpass
  PROVE  /\ filenum < Blocks(volume)
         /\ Rank(volume, filenum, FirstOf(filenum) + bitindex) \in Nat
         /\ Taken = Rank(volume, filenum, FirstOf(filenum) + bitindex) + 1
         /\ Plain \in Nat /\ Plain <= Len(copy) /\ Len(copy) \in Nat
         /\ \A j \in 1 .. Plain : sum /\ CopyUnit(copy[j], filenum, Taken + j)
         /\ Plain > 0 => sum
         /\ Rank(volume, filenum, FirstOf(filenum) + bitindex) + Plain <= Size(volume, filenum)
         /\ Follows("end") =>
              sum /\ Rank(volume, filenum, FirstOf(filenum) + bitindex) + Plain = Size(volume, filenum)
  <1> DEFINE others == {n \in DOMAIN copy : copy[n].is # "sector"}
             m == Rank(volume, filenum, FirstOf(filenum) + bitindex)
             z == Size(volume, filenum)
  <1>1. filenum < Len(files)
    BY DEF RestInv, Placed
  <1>2. filenum < Blocks(volume)
    BY <1>1, FileInImage
  <1>3. VolumeType(volume) /\ filenum \in Nat /\ z \in Nat /\ FirstOf(filenum) \in Nat
    BY <1>2, Within
  <1>4. bitindex \in Nat /\ FirstOf(filenum) + bitindex \in Int
    BY <1>3 DEF RestInv, RestType
  <1>5. m \in Nat /\ m <= z
    BY <1>2, <1>3, <1>4, RankNext
  <1>6. copy \in Seq(Units) /\ Len(copy) \in Nat /\ DOMAIN copy = 1 .. Len(copy)
    BY LenProperties DEF RestInv, RestType
  <1>7. Taken = m + 1
    BY DEF Taken
  <1> HIDE DEF m, z
  <1>8. /\ Plain \in Nat /\ Plain <= Len(copy)
        /\ \A j \in 1 .. Plain : copy[j].is = "sector"
    <2>1. CASE others = {}
      <3>1. Plain = Len(copy)
        BY <2>1 DEF Plain
      <3>2. \A j \in 1 .. Plain : copy[j].is = "sector"
        BY <1>6, <2>1, <3>1
      <3>3. QED
        BY <1>6, <3>1, <3>2
    <2>2. CASE others # {}
      <3> DEFINE e == Min(others)
      <3>1. \E x \in others : \A y \in others : x <= y
        <4>1. others \subseteq Nat
          BY <1>6
        <4> HIDE DEF others
        <4>2. QED
          BY <2>2, <4>1, Least
      <3>2. e \in others /\ \A y \in others : e <= y
        <4> HIDE DEF others
        <4>1. QED
          BY <3>1 DEF Min
      <3>3. Plain = e - 1
        BY <2>2 DEF Plain
      <3> HIDE DEF e
      <3>4. e \in 1 .. Len(copy)
        BY <1>6, <3>2
      <3>5. ASSUME NEW j \in 1 .. Plain PROVE copy[j].is = "sector"
        <4>1. j \in DOMAIN copy /\ ~(e <= j)
          BY <1>6, <3>3, <3>4
        <4>2. QED
          BY <3>2, <4>1
      <3>6. Plain \in Nat /\ Plain <= Len(copy)
        BY <1>6, <3>3, <3>4
      <3>7. QED
        BY <3>5, <3>6
    <2>3. QED
      BY <2>1, <2>2
  <1>9. ASSUME NEW j \in DOMAIN copy, copy[j].is \in {"sector", "end"}
        PROVE  /\ sum /\ CopyUnit(copy[j], filenum, Taken + j) /\ m + j <= z + 1
               /\ copy[j].is = "end" <=> m + j = z + 1
    <2>1. j \in Nat \ {0} /\ Taken + j # 1
      BY <1>5, <1>6, <1>7
    <2>2. sum /\ CopyUnit(copy[j], filenum, Taken + j)
      BY <1>9 DEF RestInv, Inflating
    <2>3. Kind(volume, filenum, Taken + j) = IF Taken + j = z + 2 THEN "end" ELSE "sector"
      BY <2>1 DEF Kind, z
    <2>4. Taken + j = z + 2 <=> m + j = z + 1
      BY <1>3, <1>5, <1>7, <2>1
    <2>5. Taken + j <= z + 2
      BY <2>2 DEF CopyUnit, z
    <2>6. m + j <= z + 1
      BY <1>3, <1>5, <1>7, <2>1, <2>5
    <2>7. QED
      BY <2>2, <2>3, <2>4, <2>6 DEF CopyUnit
  <1>10. \A j \in 1 .. Plain : sum /\ CopyUnit(copy[j], filenum, Taken + j) /\ m + j <= z
    <2> SUFFICES ASSUME NEW j \in 1 .. Plain
                 PROVE  sum /\ CopyUnit(copy[j], filenum, Taken + j) /\ m + j <= z
      OBVIOUS
    <2>1. j \in DOMAIN copy /\ copy[j].is = "sector" /\ j \in Nat
      BY <1>6, <1>8
    <2>2. m + j <= z + 1 /\ m + j # z + 1
      BY <1>9, <2>1
    <2>3. m + j <= z
      BY <1>3, <1>5, <2>1, <2>2
    <2>4. QED
      BY <1>9, <2>1, <2>3
  <1>11. Plain > 0 => sum /\ m + Plain <= z
    <2>1. Plain > 0 => Plain \in 1 .. Plain
      BY <1>8
    <2>2. QED
      BY <1>10, <2>1
  <1>12. m + Plain <= z
    BY <1>3, <1>5, <1>8, <1>11
  <1>13. Follows("end") => sum /\ m + Plain = z
    <2> SUFFICES ASSUME Follows("end") PROVE sum /\ m + Plain = z
      OBVIOUS
    <2>1. Plain + 1 \in DOMAIN copy /\ copy[Plain + 1].is = "end"
      BY <1>6, <1>8 DEF Follows
    <2>2. sum /\ m + (Plain + 1) = z + 1
      BY <1>9, <2>1
    <2>3. QED
      BY <1>3, <1>5, <1>8, <2>2
  <1>14. QED
    BY <1>2, <1>5, <1>6, <1>7, <1>8, <1>10, <1>11, <1>12, <1>13 DEF m, z

\* The bit found for the j-th sector of a buffer is that sector's.
LEMMA BitAt ==
  ASSUME SaveInv, RestInv, phase = "inflate", ~firstpass, NEW j \in Nat \ {0}, j <= Plain
  PROVE  /\ Bit(j) \in Nat /\ Bit(j) >= bitindex /\ Bit(j) < Lg(volume, filenum) * Byte
         /\ j > 1 => Bit(j) > bitindex
         /\ FirstOf(filenum) + Bit(j) \in UsedIn(volume, filenum)
         /\ Rank(volume, filenum, FirstOf(filenum) + Bit(j)) =
              Rank(volume, filenum, FirstOf(filenum) + bitindex) + j - 1
  <1> DEFINE F == FirstOf(filenum)
             m == Rank(volume, filenum, F + bitindex)
             L == Lg(volume, filenum) * Byte
  <1>1. /\ filenum < Blocks(volume) /\ m \in Nat /\ Plain \in Nat /\ (Plain > 0 => sum)
        /\ m + Plain <= Size(volume, filenum)
    BY PlainUnits
  <1>2. VolumeType(volume) /\ filenum \in Nat /\ F \in Nat /\ L \in Nat /\ Size(volume, filenum) \in Nat
    BY <1>1, Within
  <1>3. bitindex \in Nat
    BY DEF RestInv, RestType
  <1>4. m + j <= Size(volume, filenum) /\ sum
    BY <1>1, <1>2
  <1>5. PICK s \in UsedIn(volume, filenum) :
          /\ s \in Int /\ s >= F + bitindex /\ s < F + L
          /\ Rank(volume, filenum, s) = m + j - 1
          /\ Kth(BitsFrom(volume, filenum, bitindex), j) = s - F
    BY <1>1, <1>2, <1>3, <1>4, BitKth
  <1>6. Bit(j) = s - F
    <2>1. alloc = filenum
      BY <1>4 DEF RestInv, Placed
    <2>2. alloc # NoTable
      BY <1>2, <2>1 DEF NoTable
    <2>3. Ahead = BitsFrom(volume, filenum, bitindex)
      BY <2>1, <2>2 DEF Ahead, BitsFrom
    <2>4. QED
      BY <1>5, <2>3 DEF Bit
  <1> HIDE DEF F, L
  <1>7. s = F + Bit(j) /\ Bit(j) \in Nat /\ Bit(j) >= bitindex /\ Bit(j) < L
    BY <1>2, <1>3, <1>5, <1>6
  <1>8. j > 1 => Bit(j) > bitindex
    <2> SUFFICES ASSUME j > 1, Bit(j) = bitindex PROVE FALSE
      BY <1>3, <1>7
    <2>1. m = m + j - 1
      BY <1>5, <1>7
    <2>2. QED
      BY <1>1, <2>1
  <1>9. QED
    BY <1>5, <1>7, <1>8 DEF F, L

\* What flushToDisk does to the disk, whatever the bits: from the position on it may
\* write anything, and it leaves the position on the disk.
LEMMA FlushAny ==
  ASSUME SaveType, RestType, NEW n \in Nat, NEW ahead, flushToDisk(n, ahead),
         \A j \in 1 .. n : /\ Kth(ahead, j) \in Nat /\ Kth(ahead, j) >= bitindex
                           /\ j > 1 => Kth(ahead, j) > bitindex
  PROVE  /\ bitindex' \in Nat
         /\ offset' \in Start .. DiskSize /\ offset <= offset'
         /\ reported' \in BOOLEAN /\ faults' \in 0 .. MaxFaults
         /\ DOMAIN target' = DOMAIN target
         /\ \A d \in DOMAIN target : target'[d] # target[d] => d >= offset
         /\ n = 0 => bitindex' = bitindex
         /\ n # 0 => bitindex' = Kth(ahead, n) + 1
  <1> DEFINE place(fl, j) == offset + Kth(ahead, j) - bitindex - Cardinality({w \in fl : w < j})
             at(fl, d) == {j \in 1 .. n \ fl : place(fl, j) = d}
             over(fl) == {j \in 1 .. n : place(fl, j) >= DiskSize}
  <1>1. PICK fl \in SUBSET (1 .. n) :
          \E astray \in SUBSET {d \in DOMAIN target : d >= offset /\ over(fl) # {}} :
            /\ IF fl = {} THEN UNCHANGED faults ELSE Fault /\ Cardinality(fl) = 1
            /\ Cardinality(astray) <= Cardinality(over(fl))
            /\ reported' = (reported \/ fl \union over(fl) # {})
            /\ target' = [d \in DOMAIN target |->
                            IF d \in astray THEN Garbage
                            ELSE IF at(fl, d) = {} THEN target[d]
                            ELSE Contents(CHOOSE j \in at(fl, d) : TRUE)]
            /\ IF n = 0 THEN UNCHANGED <<bitindex, offset>>
               ELSE /\ bitindex' = Kth(ahead, n) + 1
                    /\ IF over(fl) = {}
                       THEN offset' = offset + bitindex' - bitindex - Cardinality(fl)
                       ELSE offset' \in offset .. DiskSize
    BY DEF flushToDisk
  <1>2. PICK astray \in SUBSET {d \in DOMAIN target : d >= offset /\ over(fl) # {}} :
            /\ IF fl = {} THEN UNCHANGED faults ELSE Fault /\ Cardinality(fl) = 1
            /\ reported' = (reported \/ fl \union over(fl) # {})
            /\ target' = [d \in DOMAIN target |->
                            IF d \in astray THEN Garbage
                            ELSE IF at(fl, d) = {} THEN target[d]
                            ELSE Contents(CHOOSE j \in at(fl, d) : TRUE)]
            /\ IF n = 0 THEN UNCHANGED <<bitindex, offset>>
               ELSE /\ bitindex' = Kth(ahead, n) + 1
                    /\ IF over(fl) = {}
                       THEN offset' = offset + bitindex' - bitindex - Cardinality(fl)
                       ELSE offset' \in offset .. DiskSize
    BY <1>1
  <1>3. /\ Start \in Nat /\ DiskSize \in Nat /\ bitindex \in Nat /\ offset \in Start .. DiskSize
        /\ reported \in BOOLEAN
    BY Room DEF RestType
  <1>4. IsFiniteSet(fl) /\ Cardinality(fl) \in {0, 1}
    <2>1. IsFiniteSet(1 .. n)
      BY FS_Interval
    <2>2. QED
      BY <1>2, <2>1, FS_Subset, FS_EmptySet
  <1>5. ASSUME NEW j \in 1 .. n
        PROVE  /\ Cardinality({w \in fl : w < j}) \in {0, 1}
               /\ Cardinality({w \in fl : w < j}) <= Cardinality(fl)
               /\ Cardinality({w \in fl : w < j}) = 1 => j > 1
    <2> DEFINE X == {w \in fl : w < j}
    <2>1. X \in SUBSET fl
      OBVIOUS
    <2>2. j = 1 => X = {}
      <3>1. \A w \in fl : ~(w < 1)
        OBVIOUS
      <3>2. QED
        BY <3>1
    <2> HIDE DEF X
    <2>3. IsFiniteSet(X) /\ Cardinality(X) <= Cardinality(fl) /\ Cardinality(X) \in Nat
      BY <1>4, <2>1, FS_Subset, FS_CardinalityType
    <2>4. j = 1 => Cardinality(X) = 0
      BY <2>2, FS_EmptySet
    <2>5. Cardinality(X) \in {0, 1} /\ (Cardinality(X) = 1 => j > 1)
      BY <1>4, <2>3, <2>4
    <2>6. QED
      BY <2>3, <2>5 DEF X
  <1>6. ASSUME NEW j \in 1 .. n PROVE place(fl, j) \in Int /\ place(fl, j) >= offset
    <2>1. /\ Kth(ahead, j) \in Nat /\ Kth(ahead, j) >= bitindex
          /\ j > 1 => Kth(ahead, j) > bitindex
      OBVIOUS
    <2>2. PICK c : c = Cardinality({w \in fl : w < j})
      OBVIOUS
    <2>3. c \in {0, 1} /\ (c = 1 => j > 1)
      BY <1>5, <2>2
    <2>4. offset + Kth(ahead, j) - bitindex - c \in Int /\ offset + Kth(ahead, j) - bitindex - c >= offset
      BY <1>3, <2>1, <2>3
    <2>5. QED
      BY <2>2, <2>4
  <1>7. reported' \in BOOLEAN /\ faults' \in 0 .. MaxFaults
    BY <1>2, <1>3, FaultBound DEF RestType
  <1>8. DOMAIN target' = DOMAIN target
    BY <1>2
  <1>9. ASSUME NEW d \in DOMAIN target, target'[d] # target[d] PROVE d >= offset
    <2>1. d \in astray \/ at(fl, d) # {}
      BY <1>2, <1>9
    <2>2. CASE d \in astray
      BY <2>2
    <2>3. CASE at(fl, d) # {}
      <3>1. PICK j \in 1 .. n : place(fl, j) = d
        BY <2>3
      <3>2. QED
        BY <1>6, <3>1
    <2>4. QED
      BY <2>1, <2>2, <2>3
  <1>10. CASE n = 0
    <2>1. bitindex' = bitindex /\ offset' = offset
      BY <1>2, <1>10
    <2>2. offset <= offset
      BY <1>3
    <2>3. QED
      BY <1>3, <1>7, <1>8, <1>9, <1>10, <2>1, <2>2
  <1>11. CASE n # 0
    <2>1. n \in 1 .. n
      BY <1>11
    <2>2. Kth(ahead, n) \in Nat /\ Kth(ahead, n) >= bitindex /\ bitindex' = Kth(ahead, n) + 1
      BY <1>2, <1>11, <2>1
    <2>3. bitindex' \in Nat
      BY <2>2
    <2>4. offset' \in Start .. DiskSize /\ offset <= offset'
      <3>1. CASE over(fl) # {}
        <4>1. PICK o \in offset .. DiskSize : o = offset'
          BY <1>2, <1>11, <3>1
        <4>2. o \in Start .. DiskSize /\ offset <= o
          BY <1>3
        <4>3. QED
          BY <4>1, <4>2
      <3>2. CASE over(fl) = {}
        <4>1. offset' = offset + bitindex' - bitindex - Cardinality(fl)
          BY <1>2, <1>11, <3>2
        <4>2. ~(place(fl, n) >= DiskSize)
          BY <2>1, <3>2
        <4>3. PICK c, b : c = Cardinality({w \in fl : w < n}) /\ b = Cardinality(fl)
          OBVIOUS
        <4>4. c \in {0, 1} /\ b \in {0, 1} /\ c <= b
          BY <1>4, <1>5, <2>1, <4>3
        <4>5. ~(offset + Kth(ahead, n) - bitindex - c >= DiskSize)
          BY <4>2, <4>3
        <4>6. offset' = offset + (Kth(ahead, n) + 1) - bitindex - b
          BY <2>2, <4>1, <4>3
        <4>7. QED
          BY <1>3, <2>2, <4>4, <4>5, <4>6
      <3>3. QED
        BY <3>1, <3>2
    <2>5. QED
      BY <1>7, <1>8, <1>9, <1>11, <2>2, <2>3, <2>4
  <1>12. QED
    BY <1>10, <1>11

\* flushToDisk passes over n sectors of the slice.
LEMMA RestFlush ==
  ASSUME SaveInv, RestInv, phase = "inflate", ~firstpass, sum, NEW n \in Nat, n <= Plain,
         flushToDisk(n, Ahead), UNCHANGED <<volume, filenum, firstpass>>
  PROVE  /\ bitindex' \in Nat /\ bitindex' <= Lg(volume, filenum) * Byte
         /\ bitindex' <= ALLOCLG * Byte
         /\ offset' \in Start .. DiskSize /\ starto <= offset'
         /\ reported' \in BOOLEAN /\ faults' \in 0 .. MaxFaults
         /\ DOMAIN target' = DOMAIN target
         /\ Taken' = Taken + n /\ Taken \in Nat
         /\ Rank(volume, filenum, FirstOf(filenum) + bitindex') =
              Rank(volume, filenum, FirstOf(filenum) + bitindex) + n
  <1> DEFINE F == FirstOf(filenum)
             L == Lg(volume, filenum) * Byte
             m == Rank(volume, filenum, F + bitindex)
  <1>1. filenum < Blocks(volume) /\ m \in Nat /\ Plain \in Nat /\ Taken = m + 1
    BY PlainUnits
  <1>2. /\ VolumeType(volume) /\ filenum \in Nat
        /\ F \in Nat /\ L \in Nat /\ ALLOCLG * Byte \in Nat /\ L <= ALLOCLG * Byte
    BY <1>1, Within
  <1>3. bitindex \in Nat /\ starto \in Int /\ offset \in Int /\ bitindex <= L /\ starto <= offset
    BY TargetAssumption DEF RestInv, RestType, Placed
  <1>4. ASSUME NEW j \in 1 .. n
        PROVE  /\ Kth(Ahead, j) \in Nat /\ Kth(Ahead, j) >= bitindex
               /\ j > 1 => Kth(Ahead, j) > bitindex
    <2>1. j \in Nat \ {0} /\ j <= Plain
      BY <1>1
    <2>2. QED
      BY <2>1, BitAt DEF Bit
  <1>5. /\ bitindex' \in Nat
        /\ offset' \in Start .. DiskSize /\ offset <= offset'
        /\ reported' \in BOOLEAN /\ faults' \in 0 .. MaxFaults
        /\ DOMAIN target' = DOMAIN target
        /\ n = 0 => bitindex' = bitindex
        /\ n # 0 => bitindex' = Kth(Ahead, n) + 1
    BY <1>4, FlushAny DEF SaveInv, RestInv
  <1>6. bitindex' <= L /\ Rank(volume, filenum, F + bitindex') = m + n
    <2>1. CASE n = 0
      BY <1>1, <1>3, <1>5, <2>1
    <2>2. CASE n # 0
      <3> DEFINE b == Bit(n)
      <3>1. n \in Nat \ {0}
        BY <2>2
      <3>2. /\ b \in Nat /\ b < L /\ F + b \in UsedIn(volume, filenum)
            /\ Rank(volume, filenum, F + b) = m + n - 1
        BY <3>1, BitAt
      <3>3. bitindex' = b + 1
        BY <1>5, <2>2 DEF Bit
      <3>4. F + b \in Int
        BY <1>2, <3>2
      <3>5. Rank(volume, filenum, F + b + 1) = Rank(volume, filenum, F + b) + 1
        BY <1>1, <1>2, <3>2, <3>4, RankNext
      <3> HIDE DEF b, F, L, m
      <3>6. F + bitindex' = F + b + 1 /\ bitindex' <= L
        BY <1>2, <3>2, <3>3
      <3>7. Rank(volume, filenum, F + bitindex') = m + n
        BY <1>1, <3>2, <3>5, <3>6
      <3>8. QED
        BY <3>6, <3>7
    <2>3. QED
      BY <2>1, <2>2
  <1>7. Taken' = Rank(volume, filenum, F + bitindex') + 1
    BY DEF Taken
  <1> HIDE DEF F, L, m
  <1>8. Taken \in Nat /\ Taken' = Taken + n
    BY <1>1, <1>6, <1>7
  <1>9. starto <= offset' /\ bitindex' <= ALLOCLG * Byte
    <2>1. PICK o, b : o = offset' /\ b = bitindex'
      OBVIOUS
    <2>2. o \in Int /\ b \in Nat
      BY <1>5, <2>1, TargetAssumption
    <2>3. starto <= o /\ b <= ALLOCLG * Byte
      BY SMTT(40), <1>2, <1>3, <1>5, <1>6, <2>1, <2>2
    <2>4. QED
      BY <2>1, <2>3
  <1>10. QED
    BY <1>5, <1>6, <1>8, <1>9 DEF F, L, m

\* The copy from unit a + 1 on.
LEMMA CopyFrom ==
  ASSUME RestInv, NEW a \in Nat, a <= Len(copy), copy' = SubSeq(copy, a + 1, Len(copy))
  PROVE  /\ copy' \in Seq(Units) /\ Len(copy') = Len(copy) - a /\ Len(copy) \in Nat
         /\ DOMAIN copy' = 1 .. Len(copy) - a
         /\ \A j \in 1 .. Len(copy) - a : copy'[j] = copy[a + j] /\ a + j \in DOMAIN copy
  <1> DEFINE b == a + 1
             z == Len(copy)
  <1>1. copy \in Seq(Units) /\ z \in Nat /\ DOMAIN copy = 1 .. z
    BY LenProperties DEF RestInv, RestType
  <1>2. b \in Int /\ z \in Int /\ \A i \in b .. z : copy[i] \in Units
    BY <1>1, ElementOfSeq
  <1>3. /\ SubSeq(copy, b, z) \in Seq(Units)
        /\ Len(SubSeq(copy, b, z)) = IF b <= z THEN z - b + 1 ELSE 0
        /\ \A i \in 1 .. z - b + 1 : SubSeq(copy, b, z)[i] = copy[b + i - 1]
    BY <1>2, SubSeqProperties
  <1>4. (IF b <= z THEN z - b + 1 ELSE 0) = z - a
    <2>1. PICK y \in Nat : y = z /\ a <= y
      BY <1>1
    <2>2. a + 1 <= y \/ a = y
      BY <2>1
    <2>3. (IF a + 1 <= y THEN y - (a + 1) + 1 ELSE 0) = y - a
      BY <2>2
    <2>4. QED
      BY SMTT(40), <2>1, <2>3
  <1>5. ASSUME NEW j \in 1 .. z - a
        PROVE  j \in 1 .. z - b + 1 /\ b + j - 1 = a + j /\ a + j \in 1 .. z
    BY <1>1
  <1>6. copy' = SubSeq(copy, b, z) /\ copy' \in Seq(Units) /\ Len(copy') = z - a
    BY <1>3, <1>4
  <1>7. DOMAIN copy' = 1 .. z - a
    BY <1>6, LenProperties
  <1>8. QED
    BY <1>1, <1>3, <1>5, <1>6, <1>7

\* A full buffer: the rest of the copy goes on after it.
LEMMA RestBuffer ==
  ASSUME SaveInv, RestInv, InflateBuffer
  PROVE  RestInv'
  <1>1. /\ phase = "inflate" /\ ~firstpass /\ Plain >= TOTALLG /\ flushToDisk(TOTALLG, Ahead)
        /\ volume' = volume /\ files' = files /\ misread' = misread
        /\ filenum' = filenum /\ fmax' = fmax /\ copy' = SubSeq(copy, TOTALLG + 1, Len(copy))
        /\ firstpass' = firstpass /\ alloc' = alloc /\ sum' = sum /\ misbits' = misbits
        /\ starto' = starto /\ missed' = missed /\ phase' = phase /\ hurt' = hurt
    BY DEF InflateBuffer, saveVars
  <1>2. /\ TOTALLG \in Nat \ {0} /\ TOTALLG <= Plain /\ Plain \in Nat /\ Plain <= Len(copy)
        /\ Len(copy) \in Nat /\ sum /\ TOTALLG <= Len(copy)
    BY <1>1, FormatAssumption, PlainUnits
  <1>3. /\ bitindex' \in Nat /\ bitindex' <= Lg(volume, filenum) * Byte
        /\ bitindex' <= ALLOCLG * Byte
        /\ offset' \in Start .. DiskSize /\ starto <= offset'
        /\ reported' \in BOOLEAN /\ faults' \in 0 .. MaxFaults
        /\ DOMAIN target' = DOMAIN target
        /\ Taken' = Taken + TOTALLG /\ Taken \in Nat
    BY <1>1, <1>2, RestFlush
  <1>4. /\ filenum < Len(files) /\ alloc = filenum /\ fmax = Blocks(volume)
        /\ (filenum > 0 => fmax = Blocks(volume))
    BY <1>1, <1>2 DEF RestInv, Placed
  <1>5. /\ copy' \in Seq(Units) /\ Len(copy') = Len(copy) - TOTALLG
        /\ DOMAIN copy' = 1 .. Len(copy) - TOTALLG
        /\ \A j \in 1 .. Len(copy) - TOTALLG : copy'[j] = copy[TOTALLG + j] /\ TOTALLG + j \in DOMAIN copy
    BY <1>1, <1>2, CopyFrom
  <1>6. RestType'
    BY <1>1, <1>2, <1>3, <1>5, Zenon DEF RestInv, RestType
  <1>7. Inflating'
    <2>1. PICK t \in Nat : t = Taken + TOTALLG
      BY <1>2, <1>3
    <2>2. ASSUME NEW j \in DOMAIN copy'
          PROVE  (copy'[j].is = "bad" /\ j = Len(copy')) \/ (sum' /\ CopyUnit(copy'[j], filenum, t + j))
      <3>1. j \in 1 .. Len(copy') /\ j \in Int
        BY <1>2, <1>5
      <3>2. copy'[j] = copy[TOTALLG + j] /\ TOTALLG + j \in DOMAIN copy
        BY <1>5
      <3>3. t + j = Taken + (TOTALLG + j) /\ (TOTALLG + j = Len(copy) => j = Len(copy'))
        BY SMTT(40), <1>2, <1>3, <1>5, <2>1, <3>1
      <3>4. \/ copy[TOTALLG + j].is = "bad" /\ TOTALLG + j = Len(copy)
            \/ CopyUnit(copy[TOTALLG + j], filenum, Taken + (TOTALLG + j))
        BY <1>1, <3>2 DEF RestInv, Inflating
      <3>5. QED
        BY <1>1, <1>2, <3>2, <3>3, <3>4
    <2>3. Taken' = t
      BY <1>3, <2>1
    <2>4. QED
      BY <1>1, <2>2, <2>3, InflatingNext
  <1>8. Placed'
    BY <1>1, <1>2, <1>3, <1>4 DEF Placed
  <1>9. SaveBounds'
    BY BoundsKept DEF InflateBuffer
  <1>10. QED
    BY <1>6, <1>7, <1>8, <1>9 DEF RestInv

LEMMA RestStreamEnd ==
  ASSUME SaveInv, RestInv, StreamEnd
  PROVE  RestInv'
  <1>1. /\ phase = "inflate" /\ ~firstpass /\ Plain <= TOTALLG /\ flushToDisk(Plain, Ahead) /\ sum
        /\ volume' = volume /\ files' = files /\ misread' = misread
        /\ filenum' = filenum /\ fmax' = fmax /\ copy' = <<>>
        /\ firstpass' = firstpass /\ alloc' = alloc /\ sum' = sum /\ misbits' = misbits
        /\ starto' = starto /\ missed' = missed /\ phase' = "file" /\ hurt' = hurt
    BY DEF StreamEnd, saveVars
  <1>2. PICK n \in Nat : n = Plain /\ n <= Plain
    BY <1>1, PlainUnits
  <1>3. flushToDisk(n, Ahead)
    BY <1>1, <1>2
  <1>4. /\ bitindex' \in Nat /\ bitindex' <= Lg(volume, filenum) * Byte
        /\ bitindex' <= ALLOCLG * Byte
        /\ offset' \in Start .. DiskSize /\ starto <= offset'
        /\ reported' \in BOOLEAN /\ faults' \in 0 .. MaxFaults
        /\ DOMAIN target' = DOMAIN target
    BY <1>1, <1>2, <1>3, RestFlush
  <1>5. filenum < Len(files) /\ alloc = filenum /\ fmax = Blocks(volume)
    BY <1>1 DEF RestInv, Placed
  <1>6. RestType'
    <2>1. <<>> \in Seq(Units)
      OBVIOUS
    <2>2. QED
      BY <1>1, <1>4, <2>1, Zenon DEF RestInv, RestType
  <1>7. Inflating'
    BY <1>1 DEF Inflating
  <1>8. Placed'
    BY <1>1, <1>4, <1>5 DEF Placed
  <1>9. SaveBounds'
    BY BoundsKept DEF StreamEnd
  <1>10. QED
    BY <1>6, <1>7, <1>8, <1>9 DEF RestInv

\* The bits ahead in Bitmap, and any others ahead in memory.
LEMMA AheadFinite ==
  ASSUME SaveInv, RestInv, phase = "inflate", ~firstpass, NEW after \in SUBSET Memory
  PROVE  LET ahead == Ahead \union {b \in after : b >= ALLOCLG * Byte /\ b >= bitindex}
         IN  IsFiniteSet(ahead) /\ ahead \subseteq Nat /\ \A b \in ahead : b >= bitindex
  <1>1. filenum < Len(files) /\ alloc \in {filenum, NoTable}
    BY DEF RestInv, Placed
  <1>2. filenum < Blocks(volume)
    BY <1>1, FileInImage
  <1>3. VolumeType(volume) /\ filenum \in Nat /\ FirstOf(filenum) \in Nat /\ bitindex \in Nat
    BY <1>2, Within DEF RestInv, RestType
  <1>4. IsFiniteSet(Ahead) /\ Ahead \subseteq Nat /\ \A b \in Ahead : b >= bitindex
    <2>1. CASE alloc = NoTable
      <3>1. Ahead = misbits \ 0 .. bitindex - 1
        BY <2>1 DEF Ahead
      <3>2. PICK m \in SUBSET Nat : m = misbits /\ IsFiniteSet(m)
        BY DEF RestInv, RestType
      <3>3. PICK x : x = m \ 0 .. bitindex - 1
        OBVIOUS
      <3>4. IsFiniteSet(x)
        BY <3>2, <3>3, FS_Subset
      <3>5. x \subseteq Nat /\ \A b \in x : b >= bitindex
        BY <1>3, <3>3
      <3>6. QED
        BY <3>1, <3>2, <3>3, <3>4, <3>5
    <2>2. CASE alloc # NoTable
      <3>1. Ahead = BitsFrom(volume, filenum, bitindex)
        BY <1>1, <2>2 DEF Ahead, BitsFrom
      <3>2. /\ \A s \in UsedIn(volume, filenum) : s \in Int /\ s - FirstOf(filenum) \in Nat
            /\ \A c \in BitsFrom(volume, filenum, bitindex) :
                 \E s \in UsedIn(volume, filenum) : c = s - FirstOf(filenum) /\ s >= FirstOf(filenum) + bitindex
            /\ IsFiniteSet(BitsFrom(volume, filenum, bitindex))
        BY <1>2, <1>3, BitsFromIs
      <3>3. ASSUME NEW c \in BitsFrom(volume, filenum, bitindex) PROVE c \in Nat /\ c >= bitindex
        <4>1. PICK s \in UsedIn(volume, filenum) : c = s - FirstOf(filenum) /\ s >= FirstOf(filenum) + bitindex
          BY <3>2
        <4>2. s \in Int
          BY <3>2
        <4>3. QED
          BY <1>3, <4>1, <4>2
      <3>4. QED
        BY <3>1, <3>2, <3>3
    <2>3. QED
      BY <2>1, <2>2
  <1> DEFINE more == {b \in after : b >= ALLOCLG * Byte /\ b >= bitindex}
  <1>5. IsFiniteSet(more) /\ more \subseteq Nat /\ \A b \in more : b >= bitindex
    <2>1. Memory \subseteq Nat /\ IsFiniteSet(Memory)
      BY TargetAssumption
    <2>2. more \in SUBSET Memory
      OBVIOUS
    <2>3. IsFiniteSet(more)
      BY <2>1, <2>2, FS_Subset
    <2>4. QED
      BY <2>1, <2>3
  <1> HIDE DEF more
  <1>6. IsFiniteSet(Ahead \union more)
    BY <1>4, <1>5, FS_Union
  <1>7. QED
    BY <1>4, <1>5, <1>6 DEF more

\* What a damaged buffer does: it writes from the position on.
LEMMA JunkFlush ==
  ASSUME SaveInv, RestInv, InflateJunk
  PROVE  /\ bitindex' \in Nat
         /\ offset' \in Start .. DiskSize /\ offset <= offset'
         /\ reported' \in BOOLEAN /\ faults' \in 0 .. MaxFaults
         /\ DOMAIN target' = DOMAIN target
         /\ \A d \in DOMAIN target : target'[d] # target[d] => d >= offset
         /\ phase' \in {"inflate", "fatal"}
  <1>1. phase = "inflate" /\ ~firstpass
    BY DEF InflateJunk
  <1> DEFINE ahead(after) == Ahead \union {b \in after : b >= ALLOCLG * Byte /\ b >= bitindex}
             count(after) == Min({TOTALLG, Cardinality(ahead(after))})
  <1>2. PICK after \in SUBSET Memory :
          /\ flushToDisk(count(after), ahead(after))
          /\ phase' = IF count(after) = TOTALLG THEN phase ELSE "fatal"
    BY DEF InflateJunk
  <1>3. IsFiniteSet(ahead(after)) /\ ahead(after) \subseteq Nat /\ \A b \in ahead(after) : b >= bitindex
    BY <1>1, AheadFinite
  <1>4. PICK a, n : a = ahead(after) /\ n = count(after)
    OBVIOUS
  <1>5. n \in Nat /\ n <= Cardinality(a)
    <2>1. Cardinality(a) \in Nat /\ TOTALLG \in Nat
      BY <1>3, <1>4, FS_CardinalityType, FormatAssumption
    <2>2. PICK X : X = {TOTALLG, Cardinality(a)}
      OBVIOUS
    <2>3. \E x \in X : \A y \in X : x <= y
      <3>1. X \subseteq Nat /\ X # {}
        BY <2>1, <2>2
      <3>2. QED
        BY <3>1, Least
    <2>4. n = Min(X)
      BY <1>4, <2>2
    <2>5. n \in X /\ \A y \in X : n <= y
      BY <2>3, <2>4 DEF Min
    <2>6. QED
      BY <2>1, <2>2, <2>5
  <1>6. flushToDisk(n, a)
    BY <1>2, <1>4
  <1>7. bitindex \in Nat
    BY DEF RestInv, RestType
  <1>8. ASSUME NEW j \in 1 .. n
        PROVE  /\ Kth(a, j) \in Nat /\ Kth(a, j) >= bitindex
               /\ j > 1 => Kth(a, j) > bitindex
    <2>1. IsFiniteSet(a) /\ a \subseteq Nat /\ \A b \in a : b >= bitindex
      BY <1>3, <1>4
    <2>2. j \in Nat \ {0} /\ j <= Cardinality(a)
      BY <1>5, <2>1, FS_CardinalityType
    <2>3. QED
      BY <1>7, <2>1, <2>2, KthFrom
  <1>9. phase' \in {"inflate", "fatal"}
    BY <1>1, <1>2
  <1>10. QED
    BY <1>5, <1>6, <1>8, <1>9, FlushAny DEF SaveInv, RestInv

LEMMA RestJunk ==
  ASSUME SaveInv, RestInv, InflateJunk
  PROVE  RestInv'
  <1>1. /\ phase = "inflate" /\ ~firstpass /\ Follows("bad")
        /\ volume' = volume /\ files' = files /\ misread' = misread
        /\ filenum' = filenum /\ fmax' = fmax /\ copy' = SubSeq(copy, Plain + 1, Len(copy))
        /\ firstpass' = firstpass /\ alloc' = alloc /\ sum' = FALSE /\ misbits' = misbits
        /\ starto' = starto /\ missed' = missed /\ hurt' = TRUE
    BY DEF InflateJunk, saveVars
  <1>2. /\ bitindex' \in Nat
        /\ offset' \in Start .. DiskSize /\ offset <= offset'
        /\ reported' \in BOOLEAN /\ faults' \in 0 .. MaxFaults
        /\ DOMAIN target' = DOMAIN target
        /\ phase' \in {"inflate", "fatal"}
    BY JunkFlush
  <1>3. Plain \in Nat /\ Plain <= Len(copy) /\ Len(copy) \in Nat
    BY <1>1, PlainUnits
  <1>4. /\ filenum < Len(files) /\ starto <= offset /\ alloc \in {filenum, NoTable}
        /\ filenum > 0 => fmax = Blocks(volume)
    BY <1>1 DEF RestInv, Placed
  <1>5. /\ copy' \in Seq(Units) /\ Len(copy') = Len(copy) - Plain
        /\ DOMAIN copy' = 1 .. Len(copy) - Plain
        /\ \A j \in 1 .. Len(copy) - Plain : copy'[j] = copy[Plain + j] /\ Plain + j \in DOMAIN copy
    BY <1>1, <1>3, CopyFrom
  <1>6. Plain + 1 \in DOMAIN copy /\ copy[Plain + 1].is = "bad"
    BY <1>1, <1>3, LenProperties DEF Follows, RestInv, RestType
  <1>7. Plain + 1 = Len(copy)
    <2>1. ~CopyUnit(copy[Plain + 1], filenum, Taken + (Plain + 1))
      BY <1>6 DEF CopyUnit, Kind
    <2>2. QED
      BY <1>1, <1>6, <2>1 DEF RestInv, Inflating
  <1>8. \A j \in DOMAIN copy' : copy'[j].is = "bad" /\ j = Len(copy')
    <2>1. Len(copy') = 1 /\ DOMAIN copy' = {1}
      BY <1>3, <1>5, <1>7
    <2>2. copy'[1] = copy[Plain + 1]
      BY <1>5, <2>1
    <2>3. QED
      BY <1>6, <2>1, <2>2
  <1>9. starto <= offset'
    <2>1. PICK o \in Int : o = offset' /\ offset <= o
      BY <1>2, TargetAssumption
    <2>2. starto \in Int /\ offset \in Int
      BY TargetAssumption DEF RestInv, RestType
    <2>3. starto <= o
      BY <1>4, <2>1, <2>2
    <2>4. QED
      BY <2>1, <2>3
  <1>10. RestType'
    BY <1>1, <1>2, <1>5, Zenon DEF RestInv, RestType
  <1>11. Inflating'
    BY <1>8 DEF Inflating
  <1>12. Placed'
    <2>1. phase' # "save" /\ phase' # "get" /\ phase' # "open" /\ phase' # "file"
      BY <1>2
    <2>2. QED
      BY <1>1, <1>4, <1>9, <2>1 DEF Placed
  <1>13. SaveBounds'
    BY BoundsKept DEF InflateJunk
  <1>14. QED
    BY <1>10, <1>11, <1>12, <1>13 DEF RestInv

LEMMA RestStep == SaveInv /\ SaveInv' /\ RestInv /\ [Next]_vars => RestInv'
  <1> SUFFICES ASSUME SaveInv, SaveInv', RestInv, [Next]_vars PROVE RestInv'
    OBVIOUS
  <1>1. CASE SkipSector \/ ReadSector \/ EndBlock \/ WriteError
    BY <1>1, RestWhileSaving
  <1>2. CASE Get
    BY <1>2, RestGet
  <1>3. CASE Open
    BY <1>3, RestOpen
  <1>4. CASE OpenFails
    BY <1>4, RestOpenFails
  <1>5. CASE InflateHeader
    BY <1>5, RestHeader
  <1>6. CASE InflateBuffer
    BY <1>6, RestBuffer
  <1>7. CASE StreamEnd
    BY <1>7, RestStreamEnd
  <1>8. CASE ZlibError
    BY <1>8, RestZlib
  <1>9. CASE EndFile
    BY <1>9, RestEndFile
  <1>10. CASE UNCHANGED vars
    BY <1>10, RestStutter
  <1>11. CASE InflateDamaged
    BY <1>11, RestDamaged
  <1>12. CASE InflateJunk
    BY <1>12, RestJunk
  <1>13. QED
    BY <1>1, <1>2, <1>3, <1>4, <1>5, <1>6, <1>7, <1>8, <1>9, <1>10, <1>11, <1>12
       DEF Next, Step, Finished

LEMMA ImageInvariant == Spec => [](SaveInv /\ RestInv)
  BY SaveInit, SaveStep, RestInit, RestStep, PTL DEF Spec

\* However a copy is cut short or damaged, its bitmap too, and however often a file
\* is begun again: buffers and bits keep to the volume until damage is inflated, and
\* the position is never before the partition nor after the end of the disk
\* (autorestore.c 443-503, 517-666).
THEOREM ImageTypeOK == Spec => []TypeOK
  <1>1. SaveInv /\ RestInv => TypeOK
    <2> SUFFICES ASSUME SaveInv, RestInv PROVE TypeOK
      OBVIOUS
    <2>1. /\ fs \in FileSystems
          /\ phase \in {"save", "get", "open", "inflate", "file", "done", "fatal"}
          /\ blk \in Nat /\ blk <= Blocks(volume) /\ Len(files) <= Blocks(volume)
          /\ bit \in 0 .. ALLOCLG * Byte /\ Len(buffer) < TOTALLG
      BY DEF SaveInv, SaveType, Image, RestInv, SaveBounds
    <2>2. /\ filenum \in Nat /\ filenum <= Blocks(volume)
          /\ fmax \in {-1, Blocks(volume)} \union Misread
          /\ bitindex \in Nat /\ (sum => bitindex <= ALLOCLG * Byte)
          /\ offset \in Start .. DiskSize
          /\ faults \in 0 .. MaxFaults
      BY DEF RestInv, RestType
    <2>3. /\ misread \in BOOLEAN /\ hurt \in BOOLEAN /\ reported \in BOOLEAN /\ missed \in BOOLEAN
          /\ firstpass \in BOOLEAN /\ sum \in BOOLEAN
      BY DEF SaveInv, SaveType, RestInv, RestType
    <2>4. Blocks(volume) \in Nat
      BY VolumeOK DEF SaveInv
    <2>5. blk \in 0 .. Blocks(volume) /\ filenum \in 0 .. Blocks(volume)
      BY <2>1, <2>2, <2>4
    <2>6. {misread, hurt, reported, missed, firstpass, sum} \subseteq BOOLEAN
      BY <2>3, Zenon
    <2>7. QED
      BY <2>1, <2>2, <2>5, <2>6, Zenon DEF TypeOK
  <1>2. QED
    BY <1>1, ImageInvariant, PTL
--------------------------------------------------------------------------------
(* Each block file is restored as it should be before the next is begun.    *)

Holds(S) == \A s \in S : Start + s \in DOMAIN target /\ target[Start + s] = s

\* The used sectors of the slice before the next bit.
Behind == Under(UsedIn(volume, filenum), FirstOf(filenum) + bitindex)

\* With nothing reported, fo stands where the bitmap says, and what was inflated with
\* a right checksum so far is on the target.
CopyInv ==
  ~Failed =>
    /\ phase \in {"save", "get", "open"} => offset = Start + FirstOf(filenum)
    /\ phase \in {"inflate", "file"} =>
         starto = Start + FirstOf(filenum) /\ (sum => offset = starto + bitindex)
    /\ phase = "inflate" /\ sum => Holds(Behind)
    /\ phase = "file" => Holds(UsedIn(volume, filenum))
    /\ \A f \in 0 .. filenum - 1 : Holds(UsedIn(volume, f))
    /\ phase = "done" => filenum = Blocks(volume)

LEMMA CopyInvInit == Init => CopyInv
  <1> SUFFICES ASSUME Init PROVE CopyInv
    OBVIOUS
  <1>1. phase = "save" /\ filenum = 0 /\ offset = Start
    BY DEF Init
  <1>2. FirstOf(0) = 0 /\ Start + 0 = Start /\ 0 .. 0 - 1 = {}
    BY FormatAssumption, TargetAssumption DEF FirstOf
  <1>3. QED
    BY <1>1, <1>2 DEF CopyInv

\* An error once shown stays shown.
LEMMA FailedStays ==
  ASSUME SaveInv, RestInv, [Next]_vars, Failed
  PROVE  Failed'
  <1>1. /\ (misread => misread') /\ (missed => missed') /\ (reported => reported')
        /\ volume' = volume
    <2>1. CASE SkipSector \/ EndBlock \/ WriteError
      <3>1. volume' = volume /\ misread' = misread /\ UNCHANGED restVars
        BY <2>1 DEF SkipSector, EndBlock, WriteError, saveVars
      <3>2. QED
        BY <3>1 DEF restVars
    <2>2. CASE Get \/ Open \/ OpenFails \/ InflateHeader \/ InflateDamaged \/ ZlibError \/ EndFile
      BY <2>2 DEF Get, Open, OpenFails, InflateHeader, InflateDamaged, ZlibError, EndFile, saveVars, restVars
    <2>3. CASE InflateBuffer \/ InflateJunk \/ StreamEnd
      <3>1. volume' = volume /\ misread' = misread /\ missed' = missed
        BY <2>3 DEF InflateBuffer, InflateJunk, StreamEnd, saveVars
      <3>2. \E x : reported' = (reported \/ x # {})
        BY <2>3, Zenon DEF InflateBuffer, InflateJunk, StreamEnd, flushToDisk
      <3>3. QED
        BY <3>1, <3>2, Zenon
    <2>6. CASE ReadSector
      <3>1. volume' = volume /\ reported' = reported /\ missed' = missed
        BY <2>6 DEF ReadSector, restVars
      <3>2. \E x : misread' = (misread \/ x)
        BY <2>6, Zenon DEF ReadSector
      <3>3. QED
        BY <3>1, <3>2, Zenon
    <2>4. CASE UNCHANGED vars
      BY <2>4 DEF vars, saveVars, restVars
    <2>5. QED
      BY <2>1, <2>2, <2>3, <2>4, <2>6 DEF Next, Step, Finished
  <1>2. CASE misread \/ missed \/ reported
    BY <1>1, <1>2 DEF Failed
  <1>3. CASE phase = "fatal"
    BY <1>3 DEF Failed, Next, Step, SkipSector, ReadSector, EndBlock, WriteError, Get, Open, OpenFails, InflateHeader,
           InflateDamaged, InflateBuffer, InflateJunk, StreamEnd, ZlibError, EndFile, Finished, vars
  <1>4. CASE Aborted
    <2>1. phase # "save" /\ blk < Blocks(volume)
      BY <1>4 DEF Aborted
    <2>2. phase' # "save" /\ blk' = blk
      BY <2>1 DEF Next, Step, SkipSector, ReadSector, EndBlock, WriteError, Get, Open, OpenFails, InflateHeader,
           InflateDamaged, InflateBuffer, InflateJunk, StreamEnd, ZlibError, EndFile, Finished, vars, saveVars
    <2>3. QED
      BY <1>1, <2>1, <2>2 DEF Failed, Aborted
  <1>5. QED
    BY <1>2, <1>3, <1>4 DEF Failed

\* What the target holds at d after a flush of which the sectors X go there.
Filled(d, X) == IF X = {} THEN target[d] ELSE Contents(CHOOSE j \in X : TRUE)

\* The sectors of a buffer of n that go to d, when no write fails.
At(n, d) == {j \in 1 .. n : offset + Bit(j) - bitindex = d}

\* A flush that reports nothing.
Clean(n) ==
  /\ DOMAIN target' = DOMAIN target
  /\ \A d \in DOMAIN target : target'[d] = Filled(d, At(n, d))
  /\ \A j \in 1 .. n : ~(offset + Bit(j) - bitindex >= DiskSize)
  /\ IF n = 0 THEN UNCHANGED <<bitindex, offset>>
     ELSE bitindex' = Bit(n) + 1 /\ offset' = offset + bitindex' - bitindex

\* Without a failed write or seek every sector goes where its bit says.
LEMMA FlushClean ==
  ASSUME SaveInv, RestInv, phase = "inflate", ~firstpass, NEW n \in Nat, n <= Plain,
         flushToDisk(n, Ahead), ~reported'
  PROVE  Clean(n)
  <1> DEFINE place(fl, j) == offset + Bit(j) - bitindex - Cardinality({w \in fl : w < j})
             at(fl, d) == {j \in 1 .. n \ fl : place(fl, j) = d}
             over(fl) == {j \in 1 .. n : place(fl, j) >= DiskSize}
  <1>1. PICK fl \in SUBSET (1 .. n) :
          \E astray \in SUBSET {d \in DOMAIN target : d >= offset /\ over(fl) # {}} :
            /\ reported' = (reported \/ fl \union over(fl) # {})
            /\ target' = [d \in DOMAIN target |->
                            IF d \in astray THEN Garbage
                            ELSE Filled(d, at(fl, d))]
            /\ IF n = 0 THEN UNCHANGED <<bitindex, offset>>
               ELSE /\ bitindex' = Bit(n) + 1
                    /\ IF over(fl) = {}
                       THEN offset' = offset + bitindex' - bitindex - Cardinality(fl)
                       ELSE offset' \in offset .. DiskSize
    BY Zenon DEF flushToDisk, Filled, Bit
  <1>2. fl = {} /\ over(fl) = {}
    BY <1>1, Zenon
  <1>3. /\ target' = [d \in DOMAIN target |-> Filled(d, at(fl, d))]
        /\ IF n = 0 THEN UNCHANGED <<bitindex, offset>>
           ELSE bitindex' = Bit(n) + 1 /\ offset' = offset + bitindex' - bitindex - Cardinality(fl)
    <2>1. PICK astray \in SUBSET {d \in DOMAIN target : d >= offset /\ over(fl) # {}} :
            /\ target' = [d \in DOMAIN target |->
                            IF d \in astray THEN Garbage
                            ELSE Filled(d, at(fl, d))]
            /\ IF n = 0 THEN UNCHANGED <<bitindex, offset>>
               ELSE /\ bitindex' = Bit(n) + 1
                    /\ IF over(fl) = {}
                       THEN offset' = offset + bitindex' - bitindex - Cardinality(fl)
                       ELSE offset' \in offset .. DiskSize
      BY <1>1
    <2>2. \A d : d \notin astray
      BY <1>2
    <2>3. QED
      BY <1>2, <2>1, <2>2
  <1>4. \A j : {w \in fl : w < j} = {}
    BY <1>2, Zenon
  <1>5. offset \in Int /\ bitindex \in Nat
    BY TargetAssumption DEF RestInv, RestType
  <1>6. \A j \in 1 .. n : Bit(j) \in Nat /\ j \in Nat \ {0} /\ j <= Plain
    <2>1. ASSUME NEW j \in 1 .. n PROVE j \in Nat \ {0} /\ j <= Plain
      BY PlainUnits
    <2>2. QED
      BY <2>1, BitAt
  <1>7. \A j \in 1 .. n : place(fl, j) = offset + Bit(j) - bitindex
    <2>1. Cardinality({}) = 0
      BY FS_EmptySet
    <2>2. \A j \in 1 .. n : offset + Bit(j) - bitindex - 0 = offset + Bit(j) - bitindex
      BY <1>5, <1>6
    <2>3. QED
      BY <1>4, <2>1, <2>2, Zenon
  <1>8. \A d : at(fl, d) = At(n, d)
    BY <1>2, <1>7, Zenon DEF At
  <1>9. \A j \in 1 .. n : ~(offset + Bit(j) - bitindex >= DiskSize)
    <2>1. \A j \in 1 .. n : ~(place(fl, j) >= DiskSize)
      BY <1>2, Zenon
    <2> HIDE DEF place
    <2>2. QED
      BY <1>7, <2>1, Zenon
  <1>10. /\ DOMAIN target' = DOMAIN target
         /\ \A d \in DOMAIN target : target'[d] = Filled(d, At(n, d))
    BY <1>3, <1>8, Zenon
  <1>11. IF n = 0 THEN UNCHANGED <<bitindex, offset>>
         ELSE bitindex' = Bit(n) + 1 /\ offset' = offset + bitindex' - bitindex
    <2>1. CASE n = 0
      BY <1>3, <2>1
    <2>2. CASE n # 0
      <3>1. n \in 1 .. n
        BY <2>2
      <3>2. bitindex' = Bit(n) + 1 /\ offset' = offset + bitindex' - bitindex - 0
        BY <1>2, <1>3, <2>2, FS_EmptySet
      <3>3. QED
        BY <1>5, <1>6, <2>2, <3>1, <3>2
    <2>3. QED
      BY <2>1, <2>2
  <1>12. QED
    BY <1>9, <1>10, <1>11, Zenon DEF Clean

\* A sector before the damage belongs where its bit puts it.
LEMMA CopyData ==
  ASSUME SaveInv, RestInv, phase = "inflate", ~firstpass, ~misread,
         NEW j \in Nat \ {0}, j <= Plain
  PROVE  Contents(j) = FirstOf(filenum) + Bit(j)
  <1> DEFINE F == FirstOf(filenum)
             m == Rank(volume, filenum, F + bitindex)
             z == Size(volume, filenum)
  <1>1. /\ filenum < Blocks(volume) /\ m \in Nat /\ Plain \in Nat /\ Plain <= Len(copy)
        /\ Len(copy) \in Nat /\ m + Plain <= z
    BY PlainUnits
  <1>2. VolumeType(volume) /\ filenum \in Nat /\ z \in Nat
    BY <1>1, Within
  <1>3. F + Bit(j) \in UsedIn(volume, filenum) /\ Rank(volume, filenum, F + Bit(j)) = m + j - 1
    BY BitAt
  <1>4. Taken = m + 1 /\ j \in 1 .. Plain
    BY <1>1, PlainUnits
  <1>5. Contents(j) = copy[j].data
    BY <1>1 DEF Contents
  <1>6. CopyUnit(copy[j], filenum, m + 1 + j)
    BY <1>4, PlainUnits
  <1>7. Contents(j) = DataOf(volume, filenum, m + 1 + j)
    BY <1>5, <1>6 DEF CopyUnit
  <1> HIDE DEF m, z, F
  <1>9. DataOf(volume, filenum, m + 1 + j) = Kth(UsedIn(volume, filenum), (m + j - 1) + 1)
    <2>1. PICK k, i : k = m + 1 + j /\ i = (m + j - 1) + 1
      OBVIOUS
    <2>2. k \in 2 .. z + 1 /\ k - 1 = i
      BY <1>1, <1>2, <2>1
    <2>3. DataOf(volume, filenum, k) = Kth(UsedIn(volume, filenum), i)
      BY <2>2 DEF DataOf, z
    <2>4. QED
      BY <2>1, <2>3
  <1>10. Kth(UsedIn(volume, filenum), Rank(volume, filenum, F + Bit(j)) + 1) = F + Bit(j)
    BY <1>1, <1>2, <1>3, RankKth
  <1>11. QED
    BY <1>3, <1>7, <1>9, <1>10 DEF F

\* Every used sector a buffer passes over is one of its sectors.
LEMMA BitOf ==
  ASSUME SaveInv, RestInv, phase = "inflate", ~firstpass, NEW n \in Nat, n <= Plain,
         NEW b \in Nat,
         Rank(volume, filenum, FirstOf(filenum) + b) =
           Rank(volume, filenum, FirstOf(filenum) + bitindex) + n,
         NEW s \in UsedIn(volume, filenum),
         FirstOf(filenum) + bitindex <= s, s < FirstOf(filenum) + b
  PROVE  \E j \in 1 .. n : FirstOf(filenum) + Bit(j) = s
  <1> DEFINE F == FirstOf(filenum)
             m == Rank(volume, filenum, F + bitindex)
             S == UsedIn(volume, filenum)
             r == Rank(volume, filenum, s)
  <1>1. filenum < Blocks(volume) /\ m \in Nat /\ Plain \in Nat
    BY PlainUnits
  <1>2. VolumeType(volume) /\ filenum \in Nat /\ F \in Nat /\ F + bitindex \in Int
    BY SMTT(40), <1>1, Within DEF RestInv, RestType
  <1>3. IsFiniteSet(S) /\ S \subseteq Int /\ s \in Int /\ s \in S
    BY <1>1, <1>2, UsedType
  <1>4. r \in Nat /\ Rank(volume, filenum, s + 1) = r + 1
    BY <1>1, <1>2, <1>3, RankNext
  <1>5. F + b \in Int /\ s + 1 \in Int /\ s + 1 <= F + b
    BY <1>2, <1>3
  <1>6. m <= r
    <2>1. Cardinality(Under(S, F + bitindex)) <= Cardinality(Under(S, s))
      BY <1>2, <1>3, UnderMono
    <2>2. QED
      BY <2>1 DEF Rank
  <1>7. r + 1 <= m + n
    <2>1. Cardinality(Under(S, s + 1)) <= Cardinality(Under(S, F + b))
      BY <1>3, <1>5, UnderMono
    <2>2. QED
      BY <1>4, <2>1 DEF Rank
  <1> DEFINE j == r - m + 1
  <1>8. j \in 1 .. n /\ j \in Nat \ {0} /\ j <= Plain /\ m + j - 1 = r
    BY <1>1, <1>4, <1>6, <1>7
  <1> HIDE DEF j
  <1>9. F + Bit(j) \in S /\ Rank(volume, filenum, F + Bit(j)) = m + j - 1
    BY <1>8, BitAt
  <1>10. Cardinality(Under(S, F + Bit(j))) = Cardinality(Under(S, s))
    BY <1>8, <1>9 DEF Rank
  <1>11. F + Bit(j) = s
    <2>1. PICK t : t = F + Bit(j)
      OBVIOUS
    <2> HIDE DEF S, F, m, r
    <2>2. t = s
      BY <1>3, <1>9, <1>10, <2>1, RankUnique
    <2>3. QED
      BY <2>1, <2>2
  <1>12. QED
    BY <1>8, <1>11

\* What a flush of sound sectors leaves on the target: only sectors of the slice from
\* the next bit on change, and for the better.
LEMMA FlushWrites ==
  ASSUME SaveInv, RestInv, phase = "inflate", ~firstpass, sum, NEW n \in Nat, n <= Plain,
         flushToDisk(n, Ahead), UNCHANGED <<volume, filenum, firstpass>>, ~reported', offset = Start + FirstOf(filenum) + bitindex
  PROVE  /\ DOMAIN target' = DOMAIN target
         /\ offset' = Start + FirstOf(filenum) + bitindex'
         /\ \A d \in DOMAIN target : target'[d] # target[d] =>
              d - Start \in UsedIn(volume, filenum) /\ FirstOf(filenum) + bitindex <= d - Start
         /\ ~misread =>
              \A s \in UsedIn(volume, filenum) :
                FirstOf(filenum) + bitindex <= s /\ s < FirstOf(filenum) + bitindex'
                  => Start + s \in DOMAIN target /\ target'[Start + s] = s
  <1> DEFINE F == FirstOf(filenum)
             S == UsedIn(volume, filenum)
  <1>1. Clean(n)
    BY FlushClean
  <1>2. /\ filenum < Blocks(volume) /\ Plain \in Nat
    BY PlainUnits
  <1>3. VolumeType(volume) /\ filenum \in Nat /\ F \in Nat /\ Start \in Nat
    BY <1>2, Within
  <1>4. bitindex \in Nat
    BY DEF RestInv, RestType
  <1>5. /\ bitindex' \in Nat
        /\ Rank(volume, filenum, F + bitindex') = Rank(volume, filenum, F + bitindex) + n
    BY RestFlush
  <1>6. DOMAIN target' = DOMAIN target
    BY <1>1 DEF Clean
  <1>7. offset' = Start + F + bitindex'
    <2>1. offset' = offset + bitindex' - bitindex
      <3>1. CASE n = 0
        BY <1>1, <1>3, <1>4, <3>1 DEF Clean
      <3>2. CASE n # 0
        BY <1>1, <3>2 DEF Clean
      <3>3. QED
        BY <3>1, <3>2
    <2> HIDE DEF F
    <2>2. QED
      BY <1>3, <1>4, <1>5, <2>1 DEF F
  <1>8. ASSUME NEW d, NEW j \in At(n, d)
        PROVE  /\ j \in 1 .. n /\ j \in Nat \ {0} /\ j <= Plain
               /\ d = Start + F + Bit(j) /\ d - Start = F + Bit(j)
               /\ F + Bit(j) \in S /\ F + bitindex <= F + Bit(j)
    <2>1. j \in 1 .. n /\ offset + Bit(j) - bitindex = d
      BY DEF At
    <2>2. j \in Nat \ {0} /\ j <= Plain
      BY <1>2, <2>1
    <2>3. Bit(j) \in Nat /\ Bit(j) >= bitindex /\ F + Bit(j) \in S
      BY <2>2, BitAt
    <2> HIDE DEF F, S
    <2>4. offset = Start + F + bitindex
      BY DEF F
    <2>5. QED
      BY <1>3, <1>4, <2>1, <2>2, <2>3, <2>4
  <1>9. ASSUME NEW d \in DOMAIN target, target'[d] # target[d]
        PROVE  d - Start \in S /\ F + bitindex <= d - Start
    <2>1. At(n, d) # {}
      BY <1>1, <1>9 DEF Clean, Filled
    <2>2. PICK j : j \in At(n, d)
      BY <2>1
    <2>3. QED
      BY <1>8, <2>2
  <1>10. ASSUME ~misread, NEW s \in S, F + bitindex <= s, s < F + bitindex'
         PROVE  Start + s \in DOMAIN target /\ target'[Start + s] = s
    <2>1. PICK j \in 1 .. n : F + Bit(j) = s
      BY <1>5, <1>10, BitOf
    <2> DEFINE d == Start + s
               k == CHOOSE i \in At(n, d) : TRUE
    <2>2. j \in Nat \ {0} /\ j <= Plain
      BY <1>2
    <2>3. Bit(j) \in Nat /\ F + Bit(j) \in S
      BY <2>2, BitAt
    <2>4. j \in At(n, d)
      <3> HIDE DEF F
      <3>1. offset = Start + F + bitindex
        BY DEF F
      <3>2. offset + Bit(j) - bitindex = Start + s
        BY <1>3, <1>4, <2>1, <2>3, <3>1
      <3>3. QED
        BY <3>2 DEF At
    <2>5. k \in At(n, d)
      BY <2>4
    <2>12. d \in DOMAIN target
      <3>1. DOMAIN target = 0 .. DiskSize - 1 /\ DiskSize \in Nat
        BY TargetAssumption DEF RestInv, RestType
      <3>2. ~(offset + Bit(j) - bitindex >= DiskSize)
        BY <1>1 DEF Clean
      <3>3. offset + Bit(j) - bitindex = d
        BY <2>4 DEF At
      <3>4. d \in Nat
        BY <1>2, <1>3, UsedType
      <3> HIDE DEF d
      <3>5. QED
        BY <3>1, <3>2, <3>3, <3>4
    <2>6. target'[d] = Contents(k)
      BY <1>1, <2>4, <2>12 DEF Clean, Filled
    <2> HIDE DEF k, d
    <2>7. k \in 1 .. n /\ k \in Nat \ {0} /\ k <= Plain /\ d - Start = F + Bit(k)
      BY <1>8, <2>5
    <2>9. Contents(k) = F + Bit(k)
      BY <1>10, <2>7, CopyData
    <2>10. d - Start = s
      <3>1. s \in Int
        BY <1>2, <1>3, UsedType
      <3>2. QED
        BY <1>3, <3>1 DEF d
    <2>11. QED
      BY <2>6, <2>7, <2>9, <2>10, <2>12 DEF d
  <1>11. QED
    BY <1>6, <1>7, <1>9, <1>10

\* A step that leaves the restore alone.
LEMMA CopyRests ==
  ASSUME CopyInv, ~Failed', ~Failed, UNCHANGED <<volume, filenum, offset, target>>,
         \/ phase \in {"save", "get"} /\ phase' \in {"save", "get", "open"}
         \/ UNCHANGED <<phase, starto, bitindex, sum>>
  PROVE  CopyInv'
  <1>1. volume' = volume /\ filenum' = filenum /\ offset' = offset /\ target' = target
    OBVIOUS
  <1>5. \A f \in 0 .. filenum - 1 : Holds(UsedIn(volume, f))'
    BY <1>1, Zenon DEF CopyInv, Holds
  <1>6. CASE phase \in {"save", "get"} /\ phase' \in {"save", "get", "open"}
    BY <1>1, <1>5, <1>6 DEF CopyInv
  <1>7. CASE UNCHANGED <<phase, starto, bitindex, sum>>
    BY <1>1, <1>7, Zenon DEF CopyInv, Holds, Behind
  <1>8. QED
    BY <1>6, <1>7

\* A file begun, or begun again, has nothing behind it yet.
LEMMA CopyBegins ==
  ASSUME SaveInv, RestInv, CopyInv, ~Failed, ~Failed',
         Open \/ InflateHeader \/ InflateDamaged \/ ZlibError
  PROVE  CopyInv'
  <1>1. volume' = volume /\ filenum' = filenum /\ target' = target
    BY DEF Open, InflateHeader, InflateDamaged, ZlibError
  <1>2. \A f \in 0 .. filenum - 1 : Holds(UsedIn(volume, f))'
    BY <1>1, Zenon DEF CopyInv, Holds
  <1>3. filenum < Blocks(volume) /\ (phase = "inflate" /\ firstpass => bitindex = 0 /\ sum)
    BY FileInImage DEF RestInv, Placed, Open, InflateHeader, InflateDamaged, ZlibError
  <1>4. VolumeType(volume) /\ filenum \in Nat /\ FirstOf(filenum) \in Nat /\ Start \in Nat
    BY <1>3, Within
  <1>5. ASSUME bitindex' = 0 PROVE Behind' = {}
    <2>1. \A s \in UsedIn(volume, filenum) : ~(s < FirstOf(filenum) + 0)
      BY <1>3, <1>4, UsedType
    <2>2. Under(UsedIn(volume, filenum), FirstOf(filenum) + 0) = {}
      BY <2>1, Zenon DEF Under
    <2>3. QED
      BY <1>1, <1>5, <2>2, Zenon DEF Behind
  <1>6. CASE Open
    <2>1. phase = "open" /\ phase' = "inflate" /\ offset' = offset /\ starto' = offset /\ bitindex' = 0
      BY <1>6 DEF Open
    <2>2. offset = Start + FirstOf(filenum) /\ offset = offset + 0
      BY <1>4, <2>1 DEF CopyInv
    <2>3. Holds(Behind)'
      BY <1>5, <2>1 DEF Holds
    <2>4. QED
      BY <1>1, <1>2, <2>1, <2>2, <2>3 DEF CopyInv
  <1>7. CASE InflateHeader
    <2>1. /\ phase = "inflate" /\ firstpass /\ phase' = phase /\ offset' = offset /\ starto' = starto
          /\ bitindex' = 0 /\ bitindex = 0 /\ sum
      BY <1>3, <1>7 DEF InflateHeader
    <2>2. Holds(Behind)'
      BY <1>5, <2>1 DEF Holds
    <2>3. QED
      BY <1>1, <1>2, <2>1, <2>2 DEF CopyInv
  <1>8. CASE ZlibError
    <2>1. phase = "inflate" /\ phase' = "open" /\ offset' = starto
      BY <1>8 DEF ZlibError, Back
    <2>2. QED
      BY <1>1, <1>2, <2>1 DEF CopyInv
  <1>9. CASE InflateDamaged
    <2>1. phase = "inflate" /\ phase' = phase /\ sum' = FALSE /\ starto' = starto
      BY <1>9 DEF InflateDamaged
    <2>2. QED
      BY <1>1, <1>2, <2>1 DEF CopyInv
  <1>10. QED
    BY <1>6, <1>7, <1>8, <1>9

\* The bits left over lead to the next slice, or the image is complete.
LEMMA CopyEndFile ==
  ASSUME SaveInv, RestInv, CopyInv, ~Failed, ~Failed', EndFile
  PROVE  CopyInv'
  <1>1. /\ phase = "file" /\ volume' = volume /\ target' = target /\ filenum' = filenum + 1
        /\ offset' = IF offset + Lg(volume, alloc) * Byte - bitindex <= DiskSize
                     THEN offset + Lg(volume, alloc) * Byte - bitindex ELSE offset
        /\ phase' = (IF fmax # -1 /\ filenum' >= fmax THEN "done" ELSE "get")
    BY DEF EndFile
  <1>2. /\ filenum < Len(files) /\ alloc = filenum /\ fmax = Blocks(volume) /\ sum
    BY <1>1 DEF RestInv, Placed
  <1>3. filenum < Blocks(volume)
    BY <1>2, FileInImage
  <1>4. /\ VolumeType(volume) /\ filenum \in Nat /\ FirstOf(filenum) \in Nat /\ Start \in Nat
        /\ Lg(volume, filenum) * Byte \in Nat /\ Blocks(volume) \in Nat
    BY <1>3, Within
  <1>5. starto = Start + FirstOf(filenum) /\ offset = starto + bitindex /\ bitindex \in Nat
    BY <1>1, <1>2 DEF CopyInv, RestInv, RestType
  <1>9. ASSUME NEW f \in 0 .. filenum' - 1 PROVE Holds(UsedIn(volume, f))'
    <2>1. f \in 0 .. filenum - 1 \/ f = filenum
      BY <1>1, <1>4
    <2>2. Holds(UsedIn(volume, f))
      BY <1>1, <2>1 DEF CopyInv
    <2>3. QED
      BY <1>1, <2>2, Zenon DEF Holds
  <1>6. CASE filenum + 1 < Blocks(volume)
    <2>1. phase' = "get"
      BY <1>1, <1>2, <1>4, <1>6
    <2>2. FirstOf(filenum + 1) = FirstOf(filenum) + Lg(volume, filenum) * Byte
      BY <1>3, <1>4, <1>6, SliceType
    <2>5. Start + FirstOf(filenum + 1) <= DiskSize
      <3>1. filenum + 1 \in Nat
        BY <1>4
      <3>2. QED
        BY <1>6, <3>1, Room DEF SaveInv
    <2>6. PICK F, L : F = FirstOf(filenum) /\ L = Lg(volume, filenum) * Byte
      OBVIOUS
    <2>7. offset + L - bitindex = Start + FirstOf(filenum + 1)
      <3>1. FirstOf(filenum + 1) = F + L /\ F \in Nat /\ L \in Nat /\ offset = Start + F + bitindex
        BY <1>4, <1>5, <2>2, <2>6
      <3>2. QED
        BY <1>4, <1>5, <3>1
    <2>3. offset' = Start + FirstOf(filenum + 1)
      BY <1>1, <1>2, <2>5, <2>6, <2>7
    <2>4. QED
      BY <1>1, <1>9, <2>1, <2>3 DEF CopyInv
  <1>7. CASE ~(filenum + 1 < Blocks(volume))
    <2>1. phase' = "done" /\ filenum' = Blocks(volume)
      BY <1>1, <1>2, <1>3, <1>4, <1>7
    <2>2. QED
      BY <1>1, <1>9, <2>1 DEF CopyInv
  <1>8. QED
    BY <1>6, <1>7

\* A flush leaves what is behind it alone, and adds to it what it passes over.
LEMMA CopyFlush ==
  ASSUME SaveInv, RestInv, CopyInv, ~Failed, ~Failed', phase = "inflate", ~firstpass,
         sum, NEW n \in Nat, n <= Plain, flushToDisk(n, Ahead), volume' = volume,
         filenum' = filenum, starto' = starto, firstpass' = firstpass
  PROVE  /\ DOMAIN target' = DOMAIN target
         /\ \A d \in DOMAIN target : target'[d] # target[d] => d - Start \in UsedIn(volume, filenum)
         /\ starto' = Start + FirstOf(filenum) /\ offset' = starto' + bitindex'
         /\ Holds(Behind)'
         /\ \A f \in 0 .. filenum - 1 : Holds(UsedIn(volume, f))'
  <1> DEFINE F == FirstOf(filenum)
             S == UsedIn(volume, filenum)
  <1>1. filenum < Blocks(volume)
    BY PlainUnits
  <1>2. VolumeType(volume) /\ filenum \in Nat /\ F \in Nat /\ Start \in Nat
    BY <1>1, Within
  <1>3. starto = Start + F /\ offset = starto + bitindex
    BY DEF CopyInv
  <1>4. offset = Start + FirstOf(filenum) + bitindex /\ ~reported' /\ ~misread
    BY <1>3 DEF Failed
  <1>5. bitindex \in Nat /\ bitindex' \in Nat
    BY RestFlush DEF RestInv, RestType
  <1>6. /\ DOMAIN target' = DOMAIN target
        /\ offset' = Start + F + bitindex'
        /\ \A d \in DOMAIN target : target'[d] # target[d] => d - Start \in S /\ F + bitindex <= d - Start
        /\ \A s \in S : F + bitindex <= s /\ s < F + bitindex'
                          => Start + s \in DOMAIN target /\ target'[Start + s] = s
    BY <1>4, FlushWrites
  <1>7. S \subseteq Nat
    BY <1>1, <1>2, UsedType
  <1> HIDE DEF F
  <1>8. ASSUME NEW s \in Nat, s < F + bitindex, Start + s \in DOMAIN target
        PROVE  target'[Start + s] = target[Start + s]
    <2>1. ~(F + bitindex <= (Start + s) - Start)
      BY <1>2, <1>5, <1>8
    <2>2. QED
      BY <1>6, <1>8, <2>1
  <1>9. Holds(Behind)'
    <2>1. Holds(Behind)
      BY DEF CopyInv
    <2>2. ASSUME NEW s \in S, s < F + bitindex'
          PROVE  Start + s \in DOMAIN target /\ target'[Start + s] = s
      <3>1. s \in Nat
        BY <1>7
      <3>2. CASE s < F + bitindex
        <4>1. s \in Behind
          BY <3>2 DEF Behind, Under, F
        <4>2. Start + s \in DOMAIN target /\ target[Start + s] = s
          BY <2>1, <4>1 DEF Holds
        <4>3. QED
          BY <1>8, <3>1, <3>2, <4>2
      <3>3. CASE ~(s < F + bitindex)
        <4>1. F + bitindex <= s
          BY <1>2, <1>5, <3>1, <3>3
        <4>2. QED
          BY <1>6, <2>2, <4>1
      <3>4. QED
        BY <3>2, <3>3
    <2>3. \A s : s \in Behind' <=> s \in S /\ s < F + bitindex'
      BY Zenon DEF Behind, Under, F, S
    <2>4. QED
      BY <1>6, <2>2, <2>3, Zenon DEF Holds
  <1>10. ASSUME NEW f \in 0 .. filenum - 1 PROVE Holds(UsedIn(volume, f))'
    <2>1. Holds(UsedIn(volume, f))
      BY DEF CopyInv
    <2>2. ASSUME NEW s \in UsedIn(volume, f)
          PROVE  Start + s \in DOMAIN target /\ target'[Start + s] = s
      <3>1. f \in Nat /\ f < filenum
        BY <1>2
      <3>2. s \in Nat /\ s < F
        BY <1>1, <1>2, <3>1, SlicesApart DEF F
      <3>3. s < F + bitindex
        BY <1>2, <1>5, <3>2
      <3>4. Start + s \in DOMAIN target /\ target[Start + s] = s
        BY <2>1 DEF Holds
      <3>5. QED
        BY <1>8, <3>2, <3>3, <3>4
    <2>3. QED
      BY <1>6, <2>2, Zenon DEF Holds
  <1>11. starto' = Start + FirstOf(filenum) /\ offset' = starto' + bitindex'
    BY <1>3, <1>6 DEF F
  <1>12. QED
    BY <1>6, <1>9, <1>10, <1>11

\* A full buffer.
LEMMA CopyBuffer ==
  ASSUME SaveInv, RestInv, CopyInv, ~Failed, ~Failed', InflateBuffer
  PROVE  CopyInv'
  <1>1. /\ phase = "inflate" /\ ~firstpass /\ Plain >= TOTALLG /\ flushToDisk(TOTALLG, Ahead)
        /\ volume' = volume /\ filenum' = filenum /\ sum' = sum /\ firstpass' = firstpass
        /\ starto' = starto /\ phase' = phase
    BY DEF InflateBuffer
  <1>2. TOTALLG \in Nat /\ TOTALLG <= Plain /\ sum
    BY <1>1, FormatAssumption, PlainUnits
  <1>3. /\ starto' = Start + FirstOf(filenum) /\ offset' = starto' + bitindex'
        /\ Holds(Behind)'
        /\ \A f \in 0 .. filenum - 1 : Holds(UsedIn(volume, f))'
    BY <1>1, <1>2, CopyFlush
  <1>4. QED
    BY <1>1, <1>3 DEF CopyInv

\* A damaged buffer: what was restored before is before the position.
LEMMA JunkWrites ==
  ASSUME SaveInv, RestInv, CopyInv, ~Failed, InflateJunk
  PROVE  /\ DOMAIN target' = DOMAIN target
         /\ \A d \in DOMAIN target : target'[d] # target[d] => d - Start >= FirstOf(filenum)
  <1>1. phase = "inflate" /\ ~firstpass
    BY DEF InflateJunk
  <1>2. /\ DOMAIN target' = DOMAIN target
        /\ \A d \in DOMAIN target : target'[d] # target[d] => d >= offset
    BY JunkFlush
  <1>3. starto = Start + FirstOf(filenum) /\ starto <= offset
    BY <1>1 DEF CopyInv, RestInv, Placed
  <1>4. filenum < Blocks(volume)
    BY <1>1, PlainUnits
  <1>5. FirstOf(filenum) \in Nat /\ Start \in Nat
    BY <1>4, Within
  <1>6. offset \in Int /\ \A d \in DOMAIN target : d \in Int
    BY TargetAssumption DEF RestInv, RestType
  <1>7. QED
    BY <1>2, <1>3, <1>5, <1>6

LEMMA CopyJunk ==
  ASSUME SaveInv, RestInv, CopyInv, ~Failed, ~Failed', InflateJunk
  PROVE  CopyInv'
  <1>1. /\ phase = "inflate" /\ ~firstpass /\ volume' = volume /\ filenum' = filenum
        /\ sum' = FALSE /\ starto' = starto
    BY DEF InflateJunk
  <1>2. phase' = "inflate"
    BY JunkFlush DEF Failed
  <1>3. /\ DOMAIN target' = DOMAIN target
        /\ \A d \in DOMAIN target : target'[d] # target[d] => d - Start >= FirstOf(filenum)
    BY JunkWrites
  <1>4. filenum < Blocks(volume)
    BY <1>1, PlainUnits
  <1>5. VolumeType(volume) /\ filenum \in Nat /\ FirstOf(filenum) \in Nat /\ Start \in Nat
    BY <1>4, Within
  <1>6. ASSUME NEW f \in 0 .. filenum - 1 PROVE Holds(UsedIn(volume, f))'
    <2>1. Holds(UsedIn(volume, f))
      BY <1>1 DEF CopyInv
    <2>2. ASSUME NEW s \in UsedIn(volume, f)
          PROVE  Start + s \in DOMAIN target /\ target'[Start + s] = s
      <3>1. f \in Nat /\ f < filenum
        BY <1>5
      <3>2. s \in Nat /\ s < FirstOf(filenum)
        BY <1>4, <1>5, <3>1, SlicesApart
      <3>3. ~((Start + s) - Start >= FirstOf(filenum))
        BY <1>5, <3>2
      <3>4. Start + s \in DOMAIN target /\ target[Start + s] = s
        BY <2>1 DEF Holds
      <3>5. QED
        BY <1>3, <3>3, <3>4
    <2>3. QED
      BY <1>1, <1>3, <2>2, Zenon DEF Holds
  <1>7. starto = Start + FirstOf(filenum)
    BY <1>1 DEF CopyInv
  <1>8. QED
    BY <1>1, <1>2, <1>6, <1>7 DEF CopyInv

\* With the end of the stream the slice is complete.
LEMMA CopyStreamEnd ==
  ASSUME SaveInv, RestInv, CopyInv, ~Failed, ~Failed', StreamEnd
  PROVE  CopyInv'
  <1>1. /\ phase = "inflate" /\ ~firstpass /\ Follows("end") /\ flushToDisk(Plain, Ahead) /\ sum
        /\ volume' = volume /\ filenum' = filenum /\ starto' = starto /\ phase' = "file"
        /\ firstpass' = firstpass
    BY DEF StreamEnd
  <1>2. PICK n \in Nat : n = Plain /\ n <= Plain
    BY <1>1, PlainUnits
  <1>3. flushToDisk(n, Ahead)
    BY <1>1, <1>2
  <1>4. /\ starto' = Start + FirstOf(filenum) /\ offset' = starto' + bitindex'
        /\ Holds(Behind)' /\ DOMAIN target' = DOMAIN target
        /\ \A f \in 0 .. filenum - 1 : Holds(UsedIn(volume, f))'
    BY <1>1, <1>2, <1>3, CopyFlush
  <1>5. Behind' = UsedIn(volume, filenum)
    <2> DEFINE F == FirstOf(filenum)
               S == UsedIn(volume, filenum)
               z == Size(volume, filenum)
    <2>1. filenum < Blocks(volume) /\ Rank(volume, filenum, F + bitindex) + Plain = z
      BY <1>1, PlainUnits
    <2>2. Rank(volume, filenum, F + bitindex') = z /\ bitindex' \in Nat
      BY <1>1, <1>2, <1>3, <2>1, RestFlush
    <2>3. VolumeType(volume) /\ filenum \in Nat /\ F \in Nat /\ z \in Nat
      BY <2>1, Within
    <2>4. IsFiniteSet(S) /\ S \subseteq Int
      BY <2>1, <2>3, UsedType
    <2>5. ASSUME NEW s \in S, ~(s < F + bitindex') PROVE FALSE
      <3>1. s \in Int /\ F + bitindex' \in Int /\ F + bitindex' <= s /\ s + 1 \in Int
        BY <2>2, <2>3, <2>4, <2>5
      <3>2. PICK c \in Int : c = F + bitindex'
        BY <3>1
      <3>3. Cardinality(Under(S, c)) <= Cardinality(Under(S, s))
        BY <2>4, <3>1, <3>2, UnderMono
      <3>4. z <= Rank(volume, filenum, s)
        BY <2>2, <3>2, <3>3 DEF Rank
      <3>5. /\ Rank(volume, filenum, s) \in Nat
            /\ Rank(volume, filenum, s + 1) = Rank(volume, filenum, s) + 1
            /\ Rank(volume, filenum, s + 1) <= z
        BY <2>1, <2>3, <3>1, RankNext
      <3>6. QED
        BY <2>3, <3>4, <3>5
    <2>6. QED
      BY <1>1, <2>5, Zenon DEF Behind, Under
  <1>6. Holds(UsedIn(volume, filenum))'
    BY <1>1, <1>4, <1>5, Zenon DEF Holds
  <1>7. QED
    BY <1>1, <1>4, <1>6 DEF CopyInv

\* A step after which nothing has been reported did not cut the save short.
LEMMA CutShort ==
  ASSUME SaveInv, WriteError
  PROVE  Failed'
  <1>1. phase = "save" /\ phase' = "get" /\ volume' = volume /\ blk' = blk
    BY DEF WriteError, saveVars
  <1>2. blk < Blocks(volume)
    BY <1>1, Loop
  <1>3. QED
    BY <1>1, <1>2 DEF Failed, Aborted

\* The steps that move neither the disk nor the count of block files.
Aside == SkipSector \/ ReadSector \/ EndBlock \/ Get \/ UNCHANGED vars

\* They leave the restore where it is.
LEMMA AsideKeeps ==
  ASSUME ~Failed', Aside
  PROVE  /\ UNCHANGED <<volume, filenum, offset, target, hurt>>
         /\ \/ phase \in {"save", "get"} /\ phase' \in {"save", "get", "open"}
            \/ UNCHANGED <<phase, starto, bitindex, sum>>
  <1>1. CASE SkipSector \/ ReadSector \/ EndBlock
    BY <1>1 DEF SkipSector, ReadSector, EndBlock, restVars
  <1>2. CASE Get
    <2>1. ~missed'
      BY DEF Failed
    <2>2. QED
      BY <1>2, <2>1 DEF Get
  <1>3. CASE UNCHANGED vars
    BY <1>3 DEF vars, restVars
  <1>4. QED
    BY <1>1, <1>2, <1>3 DEF Aside

LEMMA CopyStep == SaveInv /\ RestInv /\ CopyInv /\ [Next]_vars => CopyInv'
  <1> SUFFICES ASSUME SaveInv, RestInv, CopyInv, [Next]_vars, ~Failed' PROVE CopyInv'
    BY DEF CopyInv
  <1>1. ~Failed
    BY FailedStays
  <1>2. CASE Aside
    BY <1>1, <1>2, AsideKeeps, CopyRests
  <1>3. CASE Open \/ InflateHeader \/ InflateDamaged \/ ZlibError
    BY <1>1, <1>3, CopyBegins
  <1>4. CASE InflateBuffer
    BY <1>1, <1>4, CopyBuffer
  <1>5. CASE StreamEnd
    BY <1>1, <1>5, CopyStreamEnd
  <1>6. CASE EndFile
    BY <1>1, <1>6, CopyEndFile
  <1>7. CASE WriteError
    BY <1>7, CutShort
  <1>8. CASE OpenFails
    BY <1>8 DEF OpenFails, Failed
  <1>9. CASE InflateJunk
    BY <1>1, <1>9, CopyJunk
  <1>10. QED
    BY <1>2, <1>3, <1>4, <1>5, <1>6, <1>7, <1>8, <1>9 DEF Next, Step, Finished, Aside

LEMMA CopyInvariant == Spec => [](SaveInv /\ RestInv /\ CopyInv)
  BY ImageInvariant, CopyInvInit, CopyStep, PTL DEF Spec

\* The abstract specification uses its own copy of the image format.
LEMMA SameFormat ==
  ASSUME NEW v, NEW f
  PROVE  Copy!UsedIn(v, f) = UsedIn(v, f) /\ Copy!Blocks(v) = Blocks(v) /\ Copy!FirstOf(f) = FirstOf(f)
  BY DEF Copy!UsedIn, UsedIn, Copy!Slice, Slice, Copy!Lg, Lg, Copy!FirstOf, FirstOf, Copy!Blocks, Blocks

LEMMA CopyStarts == Init => Copy!CopyInit
  <1> SUFFICES ASSUME Init PROVE Copy!CopyInit
    OBVIOUS
  <1>1. /\ target = [d \in 0 .. DiskSize - 1 |-> Old] /\ filenum = 0 /\ phase = "save"
        /\ hurt = FALSE /\ misread = FALSE /\ reported = FALSE /\ missed = FALSE
    BY DEF Init
  <1>2. \A d \in DOMAIN target : target[d] = Copy!Old
    BY <1>1 DEF Old, Copy!Old
  <1>3. ~Failed
    BY <1>1 DEF Failed, Aborted
  <1>4. QED
    BY <1>1, <1>2, <1>3 DEF Copy!CopyInit

\* Every step of the two programs is one of the restore, or none.
LEMMA CopyRefines ==
  SaveInv /\ RestInv /\ CopyInv /\ [Next]_vars => [Copy!CopyNext]_(Copy!copyVars)
  <1> SUFFICES ASSUME SaveInv, RestInv, CopyInv, [Next]_vars
               PROVE  Copy!CopyNext \/ UNCHANGED Copy!copyVars
    OBVIOUS
  <1>1. volume' = volume
    BY DEF Next, Step, SkipSector, ReadSector, EndBlock, WriteError, Get, Open, OpenFails, InflateHeader,
           InflateDamaged, InflateBuffer, InflateJunk, StreamEnd, ZlibError, EndFile, Finished, vars
  <1>2. CASE Failed'
    BY <1>1, <1>2 DEF Copy!CopyNext, Copy!Fail
  <1>3. CASE ~Failed'
    <2>1. ~Failed
      BY <1>3, FailedStays
    <2>2. CASE Aside
      <3>1. /\ UNCHANGED <<volume, filenum, target, hurt>>
            /\ (phase # "done" /\ phase' # "done") \/ phase' = phase
        BY <1>3, <2>2, AsideKeeps
      <3>2. QED
        BY <1>3, <2>1, <3>1 DEF Copy!copyVars
    <2>3. CASE Open \/ InflateHeader \/ ZlibError
      <3>1. UNCHANGED <<volume, filenum, target, hurt>> /\ phase # "done" /\ phase' # "done"
        BY <2>3 DEF Open, InflateHeader, ZlibError
      <3>2. QED
        BY <1>3, <2>1, <3>1 DEF Copy!copyVars
    <2>4. CASE InflateBuffer \/ StreamEnd
      <3>1. /\ phase = "inflate" /\ ~firstpass /\ phase' # "done"
            /\ volume' = volume /\ filenum' = filenum /\ starto' = starto
            /\ firstpass' = firstpass /\ hurt' = hurt
        BY <2>4 DEF InflateBuffer, StreamEnd
      <3>2. PICK n \in Nat : n <= Plain /\ flushToDisk(n, Ahead) /\ sum
        BY <2>4, <3>1, FormatAssumption, PlainUnits DEF InflateBuffer, StreamEnd
      <3>3. /\ DOMAIN target' = DOMAIN target
            /\ \A d \in DOMAIN target : target'[d] # target[d] => d - Start \in UsedIn(volume, filenum)
        BY <1>3, <2>1, <3>1, <3>2, CopyFlush
      <3>4. Copy!WriteSome
        BY <1>3, <2>1, <3>1, <3>3, SameFormat DEF Copy!WriteSome
      <3>5. QED
        BY <3>4 DEF Copy!CopyNext
    <2>5. CASE EndFile
      <3>1. /\ phase = "file" /\ volume' = volume /\ target' = target /\ filenum' = filenum + 1
            /\ hurt' = hurt
            /\ phase' = (IF fmax # -1 /\ filenum' >= fmax THEN "done" ELSE "get")
        BY <2>5 DEF EndFile
      <3>2. filenum < Len(files) /\ fmax = Blocks(volume)
        BY <3>1 DEF RestInv, Placed
      <3>3. filenum < Blocks(volume)
        BY <3>2, FileInImage
      <3>4. filenum \in Nat /\ Blocks(volume) \in Nat
        BY <3>3, Within
      <3>5. phase' = IF filenum' = Blocks(volume) THEN "done" ELSE "get"
        BY <3>1, <3>2, <3>3, <3>4
      <3>6. Copy!Restored(filenum)
        BY <2>1, <3>1, SameFormat DEF CopyInv, Holds, Copy!Restored
      <3>7. Copy!FinishFile
        BY <1>3, <2>1, <3>1, <3>3, <3>5, <3>6, SameFormat DEF Copy!FinishFile
      <3>8. QED
        BY <3>7 DEF Copy!CopyNext
    <2>6. CASE WriteError \/ OpenFails
      BY <1>3, <2>6, CutShort DEF OpenFails, Failed
    <2>7. CASE InflateDamaged \/ InflateJunk
      <3>1. /\ phase # "done" /\ phase' # "done" /\ hurt' = TRUE
            /\ volume' = volume /\ filenum' = filenum
        BY <2>7, JunkFlush DEF InflateDamaged, InflateJunk
      <3>2. /\ DOMAIN target' = DOMAIN target
            /\ \A d \in DOMAIN target : target'[d] # target[d] => d - Start >= FirstOf(filenum)
        BY <2>1, <2>7, JunkWrites DEF InflateDamaged
      <3>3. Copy!WriteSome
        BY <1>3, <2>1, <3>1, <3>2, SameFormat DEF Copy!WriteSome
      <3>4. QED
        BY <3>3 DEF Copy!CopyNext
    <2>8. QED
      BY <2>2, <2>3, <2>4, <2>5, <2>6, <2>7 DEF Next, Step, Finished, Aside
  <1>4. QED
    BY <1>2, <1>3

\* Block files reach the target in order, each complete before the next is begun,
\* wherever one is damaged or cut short and however often it is begun again: the two
\* programs implement ImageCopy.  Until something damaged is inflated only sectors of
\* the slice are written, and not even a damaged bitmap reaches those of the files
\* restored before (compress-loop.h 55-112, autorestore.c 443-666).
THEOREM ImageCopied == Spec => CopiesImage
  BY CopyInvariant, CopyStarts, CopyRefines, PTL DEF Spec, CopiesImage, Copy!CopySpec

--------------------------------------------------------------------------------
(* The bitmap leaves out no sector that is needed.                          *)

\* An allocation group of n blocks: the ring of free blocks has the length it says,
\* and what is free lies in the group.
GroupConsistent(ag, n) ==
  /\ ag.flcount \in 0 .. AGFL_SIZE /\ ag.flfirst \in 0 .. AGFL_SIZE - 1
  /\ ag.flcount # 0 =>
       /\ ag.fllast = (ag.flfirst + ag.flcount - 1) % AGFL_SIZE
       /\ \A i \in Ring(ag) : ag.bno[i] \in 0 .. n - 1
  /\ \A e \in UNION ag.leaves : e.start \in Nat /\ e.count \in Nat /\ e.start + e.count <= n

\* A file system as its own fsck would leave it.
Consistent(f) ==
  /\ f.is = "rfs" => f.map \subseteq 0 .. f.blocks - 1
  /\ f.is = "e2fs" => f.first \in Nat /\ f.per_group \in Nat \ {0}
  /\ f.is = "xfs" => /\ f.agblocks \in Nat \ {0} /\ DOMAIN f.ags \subseteq Int
                     /\ \A a \in DOMAIN f.ags : GroupConsistent(f.ags[a], f.agblocks)

\* The raw partitions image_raw saves whole: see the run ImageRaw for the others.
PartByte(f) == f.is = "raw" => f.size % Byte # 0

\* The bytes of a bitmap of n bits hold them all.
LEMMA BytesHold ==
  ASSUME NEW n \in Nat \ {0}, NEW s \in Nat, s < n
  PROVE  s < ((n + Byte - 1) \div Byte) * Byte
  <1> DEFINE q == (n + Byte - 1) \div Byte
  <1>1. q \in Nat /\ n + Byte - 1 < q * Byte + Byte
    BY DivBelow, FormatAssumption
  <1> HIDE DEF q
  <1>2. s < q * Byte
    <2>1. Byte \in Nat \ {0} /\ q * Byte \in Nat
      BY <1>1, FormatAssumption
    <2>2. QED
      BY <1>1, <2>1
  <1>3. QED
    BY <1>2 DEF q

LEMMA DivMod ==
  ASSUME NEW x \in Nat, NEW a \in Nat \ {0}
  PROVE  x % a \in 0 .. a - 1 /\ x = (x \div a) * a + (x % a)
  OBVIOUS

\* image_raw, when the last byte of the bitmap is not full.
LEMMA RawNeeds ==
  ASSUME NEW f \in FileSystems, f.is = "raw", PartByte(f), NEW s \in Nat, Needs(f, s)
  PROVE  s \in bitmap(f).used /\ s < bitmap(f).lg * Byte
  <1> DEFINE n == f.size
             q == (n + Byte - 1) \div Byte
             r == n % Byte
  <1>1. n \in Nat \ {0} /\ s < n /\ r # 0
    BY FileSystemAssumption DEF Needs, PartByte
  <1>2. bitmap(f) = raw_allocated_sectors(n)
    BY DEF bitmap
  <1>3. s < q * Byte
    BY <1>1, BytesHold
  <1>4. Byte \in Nat \ {0}
    BY FormatAssumption
  <1> DEFINE d == n \div Byte
  <1>5. d \in Nat /\ n = d * Byte + r /\ r \in 0 .. Byte - 1
    BY <1>1, <1>4, DivMod, DivBelow
  <1>6. q \in Nat /\ q * Byte <= n + Byte - 1 /\ n + Byte - 1 < q * Byte + Byte
    <2>1. PICK x \in Nat : x = n + Byte - 1
      BY <1>1, <1>4
    <2>2. x \div Byte \in Nat /\ (x \div Byte) * Byte <= x /\ x < (x \div Byte) * Byte + Byte
      BY <1>4, DivBelow
    <2>3. QED
      BY <2>1, <2>2
  <1> HIDE DEF r, d, q, n
  <1>7. d * Byte \in Nat /\ (d + 1) * Byte = d * Byte + Byte /\ (d + 2) * Byte = d * Byte + Byte + Byte /\ q * Byte \in Nat
    BY <1>4, <1>5, <1>6
  <1>8. ~(q < d + 1)
    <2> SUFFICES ASSUME q < d + 1 PROVE FALSE
      OBVIOUS
    <2>1. q * Byte <= d * Byte
      BY <1>4, <1>5, <1>6, MulMono
    <2>2. QED
      BY <1>1, <1>4, <1>5, <1>6, <1>7, <2>1
  <1>9. ~(d + 1 < q)
    <2> SUFFICES ASSUME d + 1 < q PROVE FALSE
      OBVIOUS
    <2>1. (d + 2) * Byte <= q * Byte
      BY <1>4, <1>5, <1>6, MulMono
    <2>2. QED
      BY <1>1, <1>4, <1>5, <1>6, <1>7, <2>1
  <1>10. q - 1 = d
    BY <1>5, <1>6, <1>8, <1>9
  <1>11. s \in 0 .. (q - 1) * Byte - 1 \/ s \in (q - 1) * Byte .. (q - 1) * Byte + r - 1
    BY <1>1, <1>4, <1>5, <1>7, <1>10
  <1>12. s \in raw_allocated_sectors(n).used /\ raw_allocated_sectors(n).lg = q
    BY <1>1, <1>11 DEF raw_allocated_sectors, q, r
  <1>13. QED
    BY <1>2, <1>3, <1>12

LEMMA SwapNeeds ==
  ASSUME NEW f \in FileSystems, f.is = "swap", NEW s \in Nat, Needs(f, s)
  PROVE  s \in bitmap(f).used /\ s < bitmap(f).lg * Byte
  <1>1. s < Byte /\ Byte \in Nat \ {0}
    BY FormatAssumption DEF Needs
  <1>2. 1 * Byte <= Byte * Byte
    BY <1>1, MulMono
  <1>3. s < Byte * Byte /\ Byte * Byte \in Nat
    BY <1>1, <1>2
  <1>4. QED
    BY <1>3 DEF bitmap, swap_allocated_sectors

LEMMA LvmNeeds ==
  ASSUME NEW f \in FileSystems, f.is = "lvm", NEW s \in Nat, Needs(f, s)
  PROVE  s \in bitmap(f).used /\ s < bitmap(f).lg * Byte
  <1>1. f.size \in Nat \ {0} /\ s < f.size
    BY FileSystemAssumption DEF Needs
  <1>2. s < ((f.size + Byte - 1) \div Byte) * Byte
    BY <1>1, BytesHold
  <1>3. bitmap(f) = lvm_allocated_sectors(f.size)
    BY DEF bitmap
  <1>4. QED
    BY <1>1, <1>2, <1>3 DEF lvm_allocated_sectors

\* image_lvmreiserfs.
LEMMA RfsNeeds ==
  ASSUME NEW f \in FileSystems, f.is = "rfs", Consistent(f), NEW s \in Nat, Needs(f, s)
  PROVE  s \in bitmap(f).used /\ s < bitmap(f).lg * Byte
  <1> DEFINE off == f.off
             n == f.blocks * Byte
  <1>1. /\ f.blocks \in Nat \ {0} /\ off \in Nat /\ Byte \in Nat \ {0} /\ n \in Nat \ {0}
        /\ f.map \subseteq 0 .. f.blocks - 1
        /\ s < off \/ (s - off) \div Byte \in f.map
    BY FileSystemAssumption, FormatAssumption DEF Needs, Consistent
  <1>2. bitmap(f) = rfs_allocated_sectors(f)
    BY DEF bitmap
  <1>3. CASE s < off
    <2>1. s < n + off /\ n + off \in Nat \ {0}
      BY <1>1, <1>3
    <2>2. s < ((n + off + Byte - 1) \div Byte) * Byte
      BY <2>1, BytesHold
    <2>3. s \in 0 .. off - 1
      BY <1>1, <1>3
    <2>4. QED
      BY <1>2, <2>2, <2>3 DEF rfs_allocated_sectors
  <1>4. CASE ~(s < off)
    <2> DEFINE i == s - off
    <2>1. i \in Nat /\ i + off = s /\ i \div Byte \in f.map
      <3>1. i \div Byte \in f.map
        BY <1>1, <1>4
      <3> HIDE DEF off
      <3>2. i \in Nat /\ i + off = s
        BY <1>1, <1>4
      <3>3. QED
        BY <3>1, <3>2
    <2> HIDE DEF i
    <2>2. i \div Byte < f.blocks
      BY <1>1, <2>1
    <2>3. i < n
      BY <1>1, <2>1, <2>2, DivBounds
    <2>4. s < n + off /\ n + off \in Nat \ {0} /\ i \in 0 .. n - 1
      BY <1>1, <2>1, <2>3
    <2>5. s < ((n + off + Byte - 1) \div Byte) * Byte
      BY <2>4, BytesHold
    <2>6. s \in {x + off : x \in {x \in 0 .. n - 1 : x \div Byte \in f.map}}
      BY <2>1, <2>4
    <2>7. QED
      BY <1>2, <2>5, <2>6 DEF rfs_allocated_sectors
  <1>5. QED
    BY <1>3, <1>4

\* A sector is one of the sectors of its block.
LEMMA InItsBlock ==
  ASSUME NEW s \in Nat, NEW c \in Nat \ {0}
  PROVE  s \div c \in Nat /\ s \in SectorsOf(s \div c, c)
  <1> DEFINE b == s \div c
  <1>1. b \in Nat /\ b * c <= s /\ s < b * c + c
    BY DivBelow
  <1> HIDE DEF b
  <1>2. b * c \in Nat /\ (b + 1) * c = b * c + c
    BY <1>1
  <1>3. s \in b * c .. (b + 1) * c - 1
    BY <1>1, <1>2
  <1>4. QED
    BY <1>1, <1>3 DEF SectorsOf, b

\* Block k after the first data block is block k % n of group k \div n.
LEMMA InItsGroup ==
  ASSUME NEW k \in Nat, NEW n \in Nat \ {0}, NEW d \in Nat, k < d
  PROVE  \E g, j \in Nat : k = g * n + j /\ j < n /\ g < (d + n - 1) \div n
  <1> DEFINE g == k \div n
             j == k % n
             x == d + n - 1
             q == x \div n
  <1>1. g \in Nat /\ j \in 0 .. n - 1 /\ k = g * n + j
    BY DivMod, DivBelow
  <1>2. x \in Nat
    OBVIOUS
  <1>3. q \in Nat /\ x < q * n + n
    <2> HIDE DEF x
    <2>1. QED
      BY <1>2, DivBelow
  <1> HIDE DEF g, j, q
  <1>4. g < q
    <2> SUFFICES ASSUME ~(g < q) PROVE FALSE
      OBVIOUS
    <2>1. q * n <= g * n /\ q * n \in Nat /\ g * n \in Nat
      BY <1>1, <1>3, MulMono
    <2>2. QED
      BY <1>1, <1>3, <2>1
  <1>5. j \in Nat /\ j < n
    BY <1>1
  <1>6. QED
    BY <1>1, <1>4, <1>5 DEF q, x

\* image_e2fs: the bit of a block is in the group of the block.
LEMMA E2fsNeeds ==
  ASSUME NEW f \in FileSystems, f.is = "e2fs", Consistent(f), NEW s \in Nat, Needs(f, s)
  PROVE  s \in bitmap(f).used /\ s < bitmap(f).lg * Byte
  <1> DEFINE c == f.nbsect
             b == s \div c
             n == f.per_group
             N == f.blocks
             groups == (N - f.first + n - 1) \div n
             set(g) == {j \in 0 .. Min({f.first + g * n + n, N}) - (f.first + g * n) - 1 : g * n + j \in f.map}
             in(g) == UNION {SectorsOf(f.first + g * n + j, c) : j \in set(g)}
  <1>1. /\ N \in Nat \ {0} /\ c \in Nat \ {0} /\ n \in Nat \ {0} /\ f.first \in Nat
        /\ b < N /\ (b < f.first \/ b - f.first \in f.map)
    BY FileSystemAssumption DEF Needs, Consistent
  <1>2. bitmap(f) = list_desc(f)
    BY DEF bitmap
  <1>3. /\ list_desc(f).lg = (N * c + Byte - 1) \div Byte
        /\ list_desc(f).used = 0 .. f.first * c - 1 \union UNION {in(g) : g \in 0 .. groups - 1}
    BY DEF list_desc
  <1>4. b \in Nat /\ s \in SectorsOf(b, c)
    BY <1>1, InItsBlock
  <1>5. s < N * c /\ N * c \in Nat \ {0}
    BY <1>1, DivBounds
  <1>6. s < ((N * c + Byte - 1) \div Byte) * Byte
    BY <1>5, BytesHold
  <1>7. CASE b < f.first
    <2>1. s < f.first * c
      BY <1>1, <1>7, DivBounds
    <2>2. s \in 0 .. f.first * c - 1
      BY <1>1, <2>1
    <2>3. QED
      BY <1>2, <1>3, <1>6, <2>2, Zenon
  <1>8. CASE ~(b < f.first)
    <2> DEFINE k == b - f.first
               d == N - f.first
    <2> HIDE DEF b
    <2>1. k \in Nat /\ d \in Nat /\ k < d /\ b = f.first + k
      BY <1>1, <1>4, <1>8
    <2>2. k \in f.map
      BY <1>1, <1>8
    <2> HIDE DEF k, d
    <2>3. PICK g, j \in Nat : k = g * n + j /\ j < n /\ g < (d + n - 1) \div n
      BY <1>1, <2>1, InItsGroup
    <2>4. g \in 0 .. groups - 1
      <3>1. groups \in Nat /\ g < groups
        <4>1. d + n - 1 \in Nat
          BY <1>1, <2>1
        <4>2. (d + n - 1) \div n \in Nat
          BY <1>1, <4>1, DivBelow
        <4>3. QED
          BY <2>3, <4>2 DEF d
      <3> HIDE DEF groups
      <3>2. QED
        BY <3>1
    <2>5. j \in set(g)
      <3> DEFINE G == f.first + g * n
                 m == Min({G + n, N})
      <3>1. G \in Nat /\ b = G + j
        <4>1. g * n \in Nat
          BY <1>1, <2>3
        <4>2. QED
          BY <1>1, <2>1, <2>3, <4>1
      <3> HIDE DEF G
      <3>2. m = G + n \/ m = N
        <4>1. G + n \in Int /\ N \in Int
          BY <1>1, <3>1
        <4>2. \E x \in {G + n, N} : \A y \in {G + n, N} : x <= y
          BY <4>1
        <4>3. m \in {G + n, N}
          BY <4>2 DEF Min
        <4>4. QED
          BY <4>3
      <3> HIDE DEF m
      <3>3. j \in 0 .. m - G - 1
        BY <1>1, <2>3, <3>1, <3>2
      <3>4. QED
        BY <2>2, <2>3, <3>3 DEF m, G
    <2>6. f.first + g * n + j = b
      <3>1. g * n \in Nat
        BY <1>1, <2>3
      <3>2. QED
        BY <1>1, <2>1, <2>3, <3>1
    <2>7. s \in in(g)
      <3> HIDE DEF set
      <3>1. SectorsOf(f.first + g * n + j, c) = SectorsOf(b, c)
        BY <2>6
      <3>2. QED
        BY <1>4, <2>5, <3>1
    <2> HIDE DEF in, groups
    <2>8. s \in UNION {in(h) : h \in 0 .. groups - 1}
      BY <2>4, <2>7
    <2>9. QED
      BY <1>2, <1>3, <1>6, <2>8, Zenon
  <1>9. QED
    BY <1>7, <1>8

\* The slots from flfirst round to fllast are the flcount ones after flfirst.
LEMMA RingSlots ==
  ASSUME NEW ag, ag.flcount \in 1 .. AGFL_SIZE, ag.flfirst \in 0 .. AGFL_SIZE - 1,
         ag.fllast = (ag.flfirst + ag.flcount - 1) % AGFL_SIZE, NEW i \in Ring(ag)
  PROVE  \E k \in 0 .. ag.flcount - 1 : i = (ag.flfirst + k) % AGFL_SIZE
  <1>1. PICK c, p, l : c = ag.flcount /\ p = ag.flfirst /\ l = ag.fllast
    OBVIOUS
  <1>2. c \in {1, 2, 3} /\ p \in {0, 1, 2} /\ l = (p + c - 1) % 3
    BY <1>1 DEF AGFL_SIZE
  <1>3. l \in {0, 1, 2}
    BY <1>2
  <1>4. i \in IF p <= l THEN p .. l ELSE p .. 2 \union 0 .. l
    BY <1>1 DEF Ring, AGFL_SIZE
  <1>5. \/ p <= l /\ i \in p .. l
        \/ ~(p <= l) /\ (i \in p .. 2 \/ i \in 0 .. l)
    BY <1>4
  <1>6. i \in {0, 1, 2}
    BY <1>2, <1>3, <1>5
  <1> DEFINE k == (i + 3 - p) % 3
  <1>7. k \in 0 .. c - 1 /\ i = (p + k) % 3
    BY <1>2, <1>3, <1>5, <1>6
  <1>8. QED
    BY <1>1, <1>7 DEF AGFL_SIZE

\* What image_xfs takes for free in a group is free, and in the group.
LEMMA FreeInGroup ==
  ASSUME NEW ag, NEW n \in Nat, GroupConsistent(ag, n),
         NEW x \in scanFreelist(ag) \union scanSbtree(ag)
  PROVE  /\ x \in 0 .. n - 1
         /\ \/ x \in {ag.bno[(ag.flfirst + k) % AGFL_SIZE] : k \in 0 .. ag.flcount - 1}
            \/ \E e \in UNION ag.leaves : ~(x < e.start \/ x >= e.start + e.count)
  <1>1. CASE x \in scanFreelist(ag)
    <2>1. ag.flcount # 0 /\ \E i \in Ring(ag) : x = ag.bno[i]
      BY <1>1 DEF scanFreelist
    <2>2. PICK i \in Ring(ag) : x = ag.bno[i]
      BY <2>1
    <2>3. /\ ag.flcount \in 1 .. AGFL_SIZE /\ ag.flfirst \in 0 .. AGFL_SIZE - 1
          /\ ag.fllast = (ag.flfirst + ag.flcount - 1) % AGFL_SIZE
      <3>1. ag.flcount \in 0 .. AGFL_SIZE
        BY DEF GroupConsistent
      <3>2. ag.flcount \in 1 .. AGFL_SIZE
        BY <2>1, <3>1 DEF AGFL_SIZE
      <3>3. QED
        BY <2>1, <3>2 DEF GroupConsistent
    <2>4. PICK k \in 0 .. ag.flcount - 1 : i = (ag.flfirst + k) % AGFL_SIZE
      BY <2>3, RingSlots
    <2>5. x \in 0 .. n - 1
      BY <2>1, <2>2 DEF GroupConsistent
    <2>6. QED
      BY <2>2, <2>4, <2>5
  <1>2. CASE x \in scanSbtree(ag)
    <2>1. PICK e \in UNION ag.leaves : x \in e.start .. e.start + e.count - 1
      BY <1>2 DEF scanSbtree
    <2>2. e.start \in Nat /\ e.count \in Nat /\ e.start + e.count <= n
      BY DEF GroupConsistent
    <2>3. x \in 0 .. n - 1 /\ ~(x < e.start \/ x >= e.start + e.count)
      BY <2>1, <2>2
    <2>4. QED
      BY <2>3
  <1>3. QED
    BY <1>1, <1>2

\* A block has one place in one group.
LEMMA OneGroup ==
  ASSUME NEW n \in Nat \ {0}, NEW a \in Int, NEW b \in 0 .. n - 1, NEW c \in Int, NEW d \in 0 .. n - 1,
         a * n + b = c * n + d
  PROVE  a = c /\ b = d
  <1>1. ASSUME NEW x \in Int, NEW y \in Int, x < y, NEW u \in 0 .. n - 1, NEW w \in 0 .. n - 1
        PROVE  x * n + u < y * n + w
    <2>1. (x + 1) * n <= y * n
      BY <1>1, MulMono
    <2>2. (x + 1) * n = x * n + n /\ x * n \in Int /\ y * n \in Int
      OBVIOUS
    <2>3. QED
      BY <2>1, <2>2
  <1>2. a * n \in Int /\ c * n \in Int
    OBVIOUS
  <1>3. ~(a < c) /\ ~(c < a)
    <2>1. ~(a * n + b < c * n + d) /\ ~(c * n + d < a * n + b)
      BY <1>2
    <2>2. QED
      BY <1>1, <2>1
  <1>4. a = c
    BY <1>3
  <1>5. QED
    BY <1>2, <1>4

\* image_xfs: no block in use is in a free list or a leaf of any group.
LEMMA XfsNeeds ==
  ASSUME NEW f \in FileSystems, f.is = "xfs", Consistent(f), NEW s \in Nat, Needs(f, s)
  PROVE  s \in bitmap(f).used /\ s < bitmap(f).lg * Byte
  <1> DEFINE B == s \div Byte
             n == f.agblocks
             a == B \div n
             b == B % n
             ag == f.ags[a]
             of(x) == {x * n + y : y \in scanFreelist(f.ags[x]) \union scanSbtree(f.ags[x])}
             free == UNION {of(x) : x \in DOMAIN f.ags}
  <1>1. /\ f.blocks \in Nat \ {0} /\ n \in Nat \ {0} /\ Byte \in Nat \ {0} /\ DOMAIN f.ags \subseteq Int
        /\ \A x \in DOMAIN f.ags : GroupConsistent(f.ags[x], n)
    BY SMTT(40), FileSystemAssumption, FormatAssumption DEF Consistent
  <1>2. /\ B < f.blocks
        /\ b \notin {ag.bno[(ag.flfirst + k) % AGFL_SIZE] : k \in 0 .. ag.flcount - 1}
        /\ \A e \in UNION ag.leaves : b < e.start \/ b >= e.start + e.count
    BY DEF Needs
  <1>3. bitmap(f) = readsb(f)
    BY DEF bitmap
  <1>4. /\ readsb(f).lg = f.blocks
        /\ readsb(f).used = UNION {SectorsOf(x, Byte) : x \in 0 .. f.blocks - 1 \ free}
    BY SMTT(40) DEF readsb
  <1>5. B \in Nat /\ s \in SectorsOf(B, Byte) /\ s < f.blocks * Byte
    BY <1>1, <1>2, InItsBlock, DivBounds
  <1> HIDE DEF B
  <1>6. a \in Nat /\ b \in 0 .. n - 1 /\ B = a * n + b
    BY <1>1, <1>5, DivMod, DivBelow
  <1>7. B \notin free
    <2> SUFFICES ASSUME B \in free PROVE FALSE
      OBVIOUS
    <2>1. PICK x \in DOMAIN f.ags : B \in of(x)
      <3> HIDE DEF of
      <3>1. QED
        OBVIOUS
    <2>2. PICK y \in scanFreelist(f.ags[x]) \union scanSbtree(f.ags[x]) : B = x * n + y
      BY <2>1
    <2>3. /\ y \in 0 .. n - 1
          /\ \/ y \in {f.ags[x].bno[(f.ags[x].flfirst + k) % AGFL_SIZE] : k \in 0 .. f.ags[x].flcount - 1}
             \/ \E e \in UNION f.ags[x].leaves : ~(y < e.start \/ y >= e.start + e.count)
      BY <1>1, FreeInGroup
    <2>4. x = a /\ y = b
      <3> HIDE DEF a, b, n
      <3>1. x \in Int
        BY <1>1
      <3>2. QED
        BY <1>1, <1>6, <2>2, <2>3, <3>1, OneGroup
    <2>5. QED
      BY <1>2, <2>3, <2>4
  <1> HIDE DEF free
  <1>8. B \in 0 .. f.blocks - 1 \ free
    <2>1. B < f.blocks /\ B \in Nat /\ f.blocks \in Nat
      BY <1>1, <1>2, <1>5, Zenon
    <2>2. B \in 0 .. f.blocks - 1
      BY <2>1
    <2>3. QED
      BY <1>7, <2>2, Zenon
  <1>9. s \in readsb(f).used
    BY <1>4, <1>5, <1>8
  <1>10. QED
    BY <1>3, <1>4, <1>5, <1>9

\* No image_* program leaves out a sector in use.
LEMMA NeedsInBitmap ==
  ASSUME NEW f \in FileSystems, Consistent(f), PartByte(f), NEW s \in Nat, Needs(f, s)
  PROVE  s \in bitmap(f).used /\ s < bitmap(f).lg * Byte
  BY RawNeeds, SwapNeeds, LvmNeeds, RfsNeeds, E2fsNeeds, XfsNeeds, FileSystemAssumption

\* A consistent file system, saved and restored without a reported error, has back
\* every sector it needs: the bitmap of the image_* program leaves none out, and no
\* relative seek, buffer, block file or retry on the way displaces one.  A raw
\* partition must not fill its last byte of bitmap (image_raw.c 66).
THEOREM ImageRestored ==
  ASSUME \A f \in FileSystems : Consistent(f) /\ PartByte(f)
  PROVE  Spec => []InUseRestored
  <1>1. SaveInv /\ RestInv /\ CopyInv => InUseRestored
    <2> SUFFICES ASSUME SaveInv, RestInv, CopyInv, phase = "done", ~Failed,
                        NEW s \in 0 .. DiskSize - 1, Needs(fs, s)
                 PROVE  Start + s \in DOMAIN target /\ target[Start + s] = s
      BY DEF InUseRestored
    <2>1. fs \in FileSystems /\ volume = bitmap(fs) /\ VolumeType(volume)
      BY VolumeOK DEF SaveInv, SaveType
    <2>2. s \in Nat
      OBVIOUS
    <2>3. s \in volume.used /\ s < volume.lg * Byte
      BY <2>1, <2>2, NeedsInBitmap
    <2>4. PICK f \in 0 .. Blocks(volume) - 1 : s \in UsedIn(volume, f)
      BY <2>1, <2>2, <2>3, InABlockFile
    <2>5. filenum = Blocks(volume) /\ \A g \in 0 .. filenum - 1 : Holds(UsedIn(volume, g))
      BY DEF CopyInv
    <2>6. QED
      BY <2>4, <2>5 DEF Holds
  <1>2. QED
    BY <1>1, CopyInvariant, PTL

================================================================================
