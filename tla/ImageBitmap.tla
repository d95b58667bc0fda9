------------------------------ MODULE ImageBitmap ------------------------------
(***************************************************************************)
(* Which sectors an image_* program saves: the bitmap it builds from the   *)
(* file system on the partition, against the sectors that are in use.      *)
(* A file system is a record with the name of its program in "is".         *)
(***************************************************************************)
EXTENDS ImageFormat, FiniteSetsExt

\* The sectors of block b, nbsect sectors per block.
SectorsOf(b, nbsect) == b * nbsect .. (b + 1) * nbsect - 1
--------------------------------------------------------------------------------
\* image_raw and image_jfs: every byte but the last is 0xFF, the last one has the
\* bits of the sectors left over from a whole number of bytes.
raw_allocated_sectors(size) ==
  LET bytes == (size + Byte - 1) \div Byte
  IN  [lg |-> bytes,
       used |-> 0 .. (bytes - 1) * Byte - 1
                \union IF size % Byte # 0
                       THEN (bytes - 1) * Byte .. (bytes - 1) * Byte + (size % Byte) - 1
                       ELSE {}]

\* image_swap: the bytes of the bitmap are as many as its sectors should be.
swap_allocated_sectors == [lg |-> Byte, used |-> 0 .. Byte * Byte - 1]

\* image_lvm: the size sectors of LVM metadata before the physical extents.
lvm_allocated_sectors(size) == [lg |-> (size + Byte - 1) \div Byte, used |-> 0 .. size - 1]

\* image_lvmreiserfs: the off sectors of LVM metadata, then the blocks set in the
\* bitmap of the file system; one block is Byte sectors.
rfs_allocated_sectors(fs) ==
  [lg |-> (fs.blocks * Byte + fs.off + Byte - 1) \div Byte,
   used |-> 0 .. fs.off - 1
            \union {i + fs.off : i \in {i \in 0 .. fs.blocks * Byte - 1 : i \div Byte \in fs.map}}]

\* image_e2fs: the blocks before the first data block, then group by group the
\* blocks whose bit is set; bit b of the map is block first + b.
list_desc(fs) ==
  LET groups == (fs.blocks - fs.first + fs.per_group - 1) \div fs.per_group
      group_blk(g) == fs.first + g * fs.per_group
      next_blk(g) == Min({group_blk(g) + fs.per_group, fs.blocks})
      set(g) == {j \in 0 .. next_blk(g) - group_blk(g) - 1 : g * fs.per_group + j \in fs.map}
  IN  [lg |-> (fs.blocks * fs.nbsect + Byte - 1) \div Byte,
       used |-> 0 .. fs.first * fs.nbsect - 1
                \union UNION {UNION {SectorsOf(group_blk(g) + j, fs.nbsect) : j \in set(g)} :
                                g \in 0 .. groups - 1}]

\* image_xfs: all blocks, less the free ones of every allocation group: the ring
\* of the free list from flfirst to fllast, and the extents in the leaves of the
\* tree of free space.  One block is one byte of bitmap.
AGFL_SIZE == 3       \* XFS_AGFL_SIZE, slots of the ring
Ring(ag) == IF ag.flfirst <= ag.fllast THEN ag.flfirst .. ag.fllast
            ELSE ag.flfirst .. AGFL_SIZE - 1 \union 0 .. ag.fllast

scanFreelist_ahead(ag) ==
  IF ag.flcount = 0 THEN {} ELSE {ag.bno[(i + 1) % AGFL_SIZE] : i \in Ring(ag)}

scanFreelist(ag) == IF ag.flcount = 0 THEN {} ELSE {ag.bno[i] : i \in Ring(ag)}
scanSbtree(ag) == UNION {e.start .. e.start + e.count - 1 : e \in UNION ag.leaves}
readsb(fs) ==
  LET free == UNION {{a * fs.agblocks + b : b \in scanFreelist(fs.ags[a]) \union scanSbtree(fs.ags[a])} :
                      a \in DOMAIN fs.ags}
  IN  [lg |-> fs.blocks, used |-> UNION {SectorsOf(b, Byte) : b \in 0 .. fs.blocks - 1 \ free}]
--------------------------------------------------------------------------------
bitmap(fs) == CASE fs.is = "raw"  -> raw_allocated_sectors(fs.size)
                [] fs.is = "swap" -> swap_allocated_sectors
                [] fs.is = "lvm"  -> lvm_allocated_sectors(fs.size)
                [] fs.is = "rfs"  -> rfs_allocated_sectors(fs)
                [] fs.is = "e2fs" -> list_desc(fs)
                [] fs.is = "xfs"  -> readsb(fs)

\* The programs that exit instead: image_xfs when it found more free blocks than
\* the super block counts, image_lvmreiserfs when the file system does not fill
\* the extents of its LVM volume (lvm_sect, 0 without LVM).
accepts(fs) ==
  /\ fs.is = "xfs" => Cardinality(bitmap(fs).used) >= (fs.blocks - fs.fdblocks) * Byte
  /\ fs.is = "rfs" => fs.lvm_sect = 0 \/ fs.blocks * Byte = fs.lvm_sect

\* What a file system needs, by its own definition of free.
Needs(fs, s) ==
  CASE fs.is \in {"raw", "lvm"} -> s < fs.size
    [] fs.is = "swap" -> s < Byte
    [] fs.is = "rfs"  -> s < fs.off \/ (s - fs.off) \div Byte \in fs.map
    [] fs.is = "e2fs" -> LET b == s \div fs.nbsect
                         IN  b < fs.blocks /\ (b < fs.first \/ b - fs.first \in fs.map)
    [] fs.is = "xfs"  -> LET a == (s \div Byte) \div fs.agblocks
                             b == (s \div Byte) % fs.agblocks
                             ag == fs.ags[a]
                             ring == {ag.bno[(ag.flfirst + n) % AGFL_SIZE] : n \in 0 .. ag.flcount - 1}
                         IN  /\ s \div Byte < fs.blocks
                             /\ b \notin ring
                             /\ \A e \in UNION ag.leaves : b < e.start \/ b >= e.start + e.count
================================================================================
