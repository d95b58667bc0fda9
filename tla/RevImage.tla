-------------------------------- MODULE RevImage --------------------------------
(***************************************************************************)
(* A partition is saved by an image_* program (compress_volume, in         *)
(* compress.c and compress-loop.h) and restored by autorestore (restore    *)
(* and flushToDisk).  Both walk the bitmap of each block file and move by  *)
(* relative seeks over the unused sectors, so a step too many or too few   *)
(* anywhere displaces all that follows.  A sector stands for its contents: *)
(* the source holds sector s at s.                                         *)
(*                                                                         *)
(* Faults: a read error on the source, a full disk on the server, a copy   *)
(* of a block file that comes truncated or damaged, a block file that      *)
(* cannot be got, a write error on the target.  Damage makes a stream      *)
(* inflate to anything from there on.  Two things are taken not to happen: *)
(* damage the checksum at the end of the stream does not show, and damage  *)
(* that spells a keyword the header does not have.                         *)
(***************************************************************************)
EXTENDS ImageBitmap

CONSTANTS FileSystems, \* what may be on the partition
          Start,       \* the sector of the target where the partition begins
          DiskSize,    \* sectors of the target
          Misread,     \* what the number of block files may read in a damaged header
          Misbits,     \* the bitmaps that may be in one
          Memory,      \* bits that may be set in memory after the end of Bitmap
          MaxFaults

ASSUME TargetAssumption == /\ Start \in Nat /\ DiskSize \in Nat /\ MaxFaults \in Nat
                           /\ Misread \subseteq Nat
                           /\ Misbits \subseteq SUBSET (0 .. ALLOCLG * Byte - 1)
                           /\ Memory \subseteq Nat /\ IsFiniteSet(Memory)

\* What the super block of a file system says: it is not empty, and its sizes are
\* what they are used for.
ASSUME FileSystemAssumption ==
  \A f \in FileSystems :
    /\ f.is \in {"raw", "swap", "lvm", "rfs", "e2fs", "xfs"}
    /\ f.is \in {"raw", "lvm"} => f.size \in Nat \ {0}
    /\ f.is \in {"rfs", "e2fs", "xfs"} => f.blocks \in Nat \ {0}
    /\ f.is = "rfs" => f.off \in Nat
    /\ f.is = "e2fs" => f.nbsect \in Nat \ {0}

\* autorestore goes no further when the disk is smaller than the one that was saved
\* (AutoSave): only the last byte of the bitmap may go beyond the end of the disk.
ASSUME RoomAssumption ==
  \A f \in FileSystems :
    accepts(f) => Start + bitmap(f).lg * Byte < DiskSize + Byte

VARIABLES
  fs,        \* what is on the partition
  volume,    \* PARAMS: its bitmap
  phase,     \* "save", then "get", "open", "inflate", "file", "done", "fatal"
  \* compress_volume: the block file, the bit of its slice, the sectors to skip,
  \* the position of fi, the buffer
  blk, bit, skip, pos, buffer,
  files,     \* the image: the units of every block file written
  misread,   \* a read error was shown
  cut,       \* block files that lost their end when they were closed
  \* restore: the block file, how many there are (-1 before the first header), the
  \* units of the copy not inflated yet, whether the checksum will be right
  filenum, fmax, copy, sum,
  \* whether the header is still to come, the block file whose bitmap is loaded or
  \* the bits of a damaged one, the next bit, the position of fo and where it was
  \* when the file was begun
  firstpass, alloc, misbits, bitindex, offset, starto,
  target,    \* the disk
  hurt,      \* damaged data was inflated
  reported,  \* a write error was shown
  missed,    \* the loop ended because a block file could not be got
  faults

saveVars == <<blk, bit, skip, pos, buffer, files, misread, cut>>
restVars == <<filenum, fmax, copy, sum, firstpass, alloc, misbits, bitindex,
              offset, starto, target, hurt, reported, missed>>
vars == <<fs, volume, phase, saveVars, restVars, faults>>

Old == -1      \* a sector of the target never written
Garbage == -2  \* what is in a buffer after a failed read or a damaged stream
NoTable == -1  \* the bitmap loaded is of no block file

Unit(f, is, data) == [file |-> f, is |-> is, data |-> data]
Fault == faults < MaxFaults /\ faults' = faults + 1

Init ==
  /\ fs \in {f \in FileSystems : accepts(f)}
  /\ volume = bitmap(fs)
  /\ phase = "save"
  /\ blk = 0 /\ bit = 0 /\ skip = 0 /\ pos = 0 /\ buffer = <<>>
  /\ files = <<<<Unit(0, "header", 0)>>>> /\ misread = FALSE /\ cut = {}
  /\ filenum = 0 /\ fmax = -1 /\ copy = <<>> /\ sum = TRUE
  /\ firstpass = TRUE /\ alloc = NoTable /\ misbits = {} /\ bitindex = 0
  /\ offset = Start /\ starto = Start
  /\ target = [d \in 0 .. DiskSize - 1 |-> Old]
  /\ hurt = FALSE /\ reported = FALSE /\ missed = FALSE
  /\ faults = 0
--------------------------------------------------------------------------------
\* compress_data: the buffer goes to the stream of the block file, and its end.
Compressed(data, end) ==
  [files EXCEPT ![blk + 1] =
     @ \o [j \in DOMAIN data |-> Unit(blk, "sector", data[j])]
       \o IF end THEN <<Unit(blk, "end", 0)>> ELSE <<>>]

Slices == Lg(volume, blk) * Byte

SkipSector ==
  /\ phase = "save" /\ bit < Slices /\ FirstOf(blk) + bit \notin volume.used
  /\ skip' = skip + 1
  /\ bit' = bit + 1
  /\ UNCHANGED <<fs, volume, phase, blk, pos, buffer, files, misread, cut, restVars,
                 faults>>

Full_late(data) == Len(data) > TOTALLG
Full(data) == Len(data) = TOTALLG

\* A used sector: seek over the ones skipped, read, compress a full buffer.  A
\* read that fails is shown, leaves what it likes in the buffer, may or may not
\* move the position (POSIX leaves it open), and the loop goes on.
ReadSector ==
  /\ phase = "save" /\ bit < Slices /\ FirstOf(blk) + bit \in volume.used
  /\ \E fails \in BOOLEAN :
       LET got == Append(buffer, IF fails THEN Garbage ELSE pos + skip)
       IN  /\ IF fails THEN Fault /\ pos' \in {pos + skip, pos + skip + 1}
              ELSE pos' = pos + skip + 1 /\ UNCHANGED faults
           /\ misread' = (misread \/ fails)
           /\ IF Full(got)
              THEN buffer' = <<>> /\ files' = Compressed(got, FALSE)
              ELSE buffer' = got /\ UNCHANGED files
  /\ skip' = 0
  /\ bit' = bit + 1
  /\ UNCHANGED <<fs, volume, phase, blk, cut, restVars>>

\* The position after the unused sectors at the end of a slice.
Passed_unmoved == pos
Passed == pos + skip

\* The end of a slice: the last buffer, or compress_end, ends the stream; the
\* trailing unused sectors are passed over; the next file gets its header.  The
\* result of fclose is not looked at: what it could not write is missing and the
\* save goes on.
EndBlock ==
  LET last == blk + 1 = Blocks(volume)
      done == Compressed(buffer, TRUE)
      whole == Len(done[blk + 1])
      closed(n) == [done EXCEPT ![blk + 1] = SubSeq(@, 1, n)]
  IN  /\ phase = "save" /\ bit = Slices
      /\ pos' = Passed
      /\ skip' = 0 /\ bit' = 0 /\ buffer' = <<>>
      /\ blk' = blk + 1
      /\ \E n \in 0 .. whole :
           /\ files' = IF last THEN closed(n)
                       ELSE Append(closed(n), <<Unit(blk + 1, "header", 0)>>)
           /\ IF n = whole THEN UNCHANGED <<cut, faults>>
              ELSE Fault /\ cut' = cut \union {blk}
      /\ phase' = IF last THEN "get" ELSE "save"
      /\ UNCHANGED <<fs, volume, misread, restVars>>

\* compress_write_error: the server's disk is full, the program exits and leaves
\* the block file without an end.  autosave goes on, so the image can be restored.
WriteError ==
  /\ phase = "save" /\ Fault
  /\ phase' = "get"
  /\ UNCHANGED <<fs, volume, saveVars, restVars>>
--------------------------------------------------------------------------------
\* fops.get.  One that fails ends the loop, and nobody is told.
Get ==
  /\ phase = "get"
  /\ \/ filenum < Len(files) /\ phase' = "open" /\ UNCHANGED <<missed, faults>>
     \/ /\ IF filenum < Len(files) THEN Fault ELSE UNCHANGED faults
        /\ phase' = "done" /\ missed' = TRUE
  /\ UNCHANGED <<fs, volume, saveVars, filenum, fmax, copy, sum, firstpass, alloc, misbits,
                 bitindex, offset, starto, target, hurt, reported>>

\* inflateInit begins a new checksum.
Checksum_kept == sum
Checksum == TRUE

\* The label start: the position is saved and the file opened.  What is read of it
\* may be cut short, or damaged from some unit on.
Open ==
  LET whole == files[filenum + 1]
      upto(n) == SubSeq(whole, 1, n)
  IN  /\ phase = "open"
      /\ \/ copy' = whole /\ UNCHANGED faults
         \/ /\ Fault
            /\ \E n \in 0 .. Len(whole) - 1 :
                 copy' \in {upto(n), Append(upto(n), Unit(filenum, "bad", Garbage))}
      /\ sum' = Checksum /\ firstpass' = TRUE /\ bitindex' = 0
      /\ starto' = offset
      /\ phase' = "inflate"
      /\ UNCHANGED <<fs, volume, saveVars, filenum, fmax, alloc, misbits, offset, target,
                     hurt, reported, missed>>

\* A file that was there and cannot be opened is the one fatal error.
OpenFails ==
  /\ phase = "open" /\ Fault
  /\ phase' = "fatal"
  /\ UNCHANGED <<fs, volume, saveVars, restVars>>

\* The first buffer: the bitmap, and in the first file the number of files.
InflateHeader ==
  /\ phase = "inflate" /\ firstpass /\ copy # <<>> /\ Head(copy).is = "header"
  /\ alloc' = Head(copy).file
  /\ fmax' = IF alloc' = 0 THEN Blocks(volume) ELSE fmax
  /\ firstpass' = FALSE /\ bitindex' = 0
  /\ copy' = Tail(copy)
  /\ UNCHANGED <<fs, volume, phase, saveVars, filenum, sum, misbits, offset, starto, target,
                 hurt, reported, missed, faults>>

\* One that is damaged is used just the same, before there is a checksum: the bitmap
\* may be any, and the number of files.
InflateDamaged ==
  /\ phase = "inflate" /\ firstpass /\ copy # <<>> /\ Head(copy).is = "bad"
  /\ alloc' = NoTable /\ misbits' \in Misbits
  /\ fmax' \in {fmax} \union (IF filenum = 0 THEN Misread ELSE {})
  /\ firstpass' = FALSE /\ bitindex' = 0
  /\ sum' = FALSE /\ hurt' = TRUE
  /\ UNCHANGED <<fs, volume, phase, saveVars, filenum, copy, offset, starto, target,
                 reported, missed, faults>>

\* The bits from bitindex on.
Ahead == (IF alloc = NoTable THEN misbits
          ELSE {s - FirstOf(alloc) : s \in UsedIn(volume, alloc)}) \ 0 .. bitindex - 1

\* The undamaged sectors before the end of the stream, of the copy, or the damage.
Plain == LET others == {n \in DOMAIN copy : copy[n].is # "sector"}
         IN  IF others = {} THEN Len(copy) ELSE Min(others) - 1
Follows(is) == Plain < Len(copy) /\ copy[Plain + 1].is = is

Contents(j) == IF j <= Plain THEN copy[j].data ELSE Garbage

\* Write a buffer of n sectors, each at the next of the bits ahead, after a seek over
\* the bits not set.  A write that fails is reported and does not move the position,
\* so the sectors after it go one too low; a seek over the end of the disk is
\* reported too, and the sector goes where the position is.
flushToDisk(n, ahead) ==
  \E failed \in SUBSET (1 .. n) :
    LET place(j) == offset + Kth(ahead, j) - bitindex - Cardinality({w \in failed : w < j})
        at(d) == {j \in 1 .. n \ failed : place(j) = d}
        over == {j \in 1 .. n : place(j) >= DiskSize}
    IN  \E astray \in SUBSET {d \in DOMAIN target : d >= offset /\ over # {}} :
          /\ IF failed = {} THEN UNCHANGED faults ELSE Fault /\ Cardinality(failed) = 1
          /\ Cardinality(astray) <= Cardinality(over)
          /\ reported' = (reported \/ failed \union over # {})
          /\ target' = [d \in DOMAIN target |->
                          IF d \in astray THEN Garbage
                          ELSE IF at(d) = {} THEN target[d]
                          ELSE Contents(CHOOSE j \in at(d) : TRUE)]
          /\ IF n = 0 THEN UNCHANGED <<bitindex, offset>>
             ELSE /\ bitindex' = Kth(ahead, n) + 1
                  /\ IF over = {}
                     THEN offset' = offset + bitindex' - bitindex - Cardinality(failed)
                     ELSE offset' \in offset .. DiskSize

\* A full buffer.
InflateBuffer ==
  /\ phase = "inflate" /\ ~firstpass /\ Plain >= TOTALLG
  /\ flushToDisk(TOTALLG, Ahead)
  /\ copy' = SubSeq(copy, TOTALLG + 1, Len(copy))
  /\ UNCHANGED <<fs, volume, phase, saveVars, filenum, fmax, sum, firstpass, alloc, misbits,
                 starto, hurt, missed>>

\* A buffer that damage has filled.  The scan for its bits does not stop at the end
\* of Bitmap: it finds some after it, or comes to the end of the memory there is.
InflateJunk ==
  /\ phase = "inflate" /\ ~firstpass /\ Plain < TOTALLG /\ Follows("bad")
  /\ \E after \in SUBSET Memory :
       LET ahead == Ahead \union {b \in after : b >= ALLOCLG * Byte /\ b >= bitindex}
           n == Min({TOTALLG, Cardinality(ahead)})
       IN  /\ flushToDisk(n, ahead)
           /\ phase' = IF n = TOTALLG THEN phase ELSE "fatal"
  /\ copy' = SubSeq(copy, Plain + 1, Len(copy))
  /\ sum' = FALSE /\ hurt' = TRUE
  /\ UNCHANGED <<fs, volume, saveVars, filenum, fmax, firstpass, alloc, misbits, starto,
                 missed>>

\* The end of the stream, which inflate may reach with the last buffer just full.
StreamEnd ==
  /\ phase = "inflate" /\ ~firstpass /\ Plain <= TOTALLG /\ Follows("end") /\ sum
  /\ flushToDisk(Plain, Ahead)
  /\ copy' = <<>>
  /\ phase' = "file"
  /\ UNCHANGED <<fs, volume, saveVars, filenum, fmax, sum, firstpass, alloc, misbits,
                 starto, hurt, missed>>

\* Where a block file is begun again.
Back_unmoved == offset
Back == starto

\* The stream is damaged, its checksum wrong, or the copy ends before it does: get
\* the file again and begin it where it began.  The result of the second get is
\* not looked at.
ZlibError ==
  /\ phase = "inflate"
  /\ \/ copy = <<>>
     \/ firstpass /\ copy # <<>> /\ Head(copy).is = "bad"
     \/ ~firstpass /\ Plain = Len(copy) /\ Plain < TOTALLG
     \/ ~firstpass /\ Plain <= TOTALLG /\ (Follows("bad") \/ (Follows("end") /\ ~sum))
  /\ offset' = Back
  /\ phase' = "open"
  /\ UNCHANGED <<fs, volume, saveVars, filenum, fmax, copy, sum, firstpass, alloc, misbits,
                 bitindex, starto, target, hurt, reported, missed, faults>>

\* Pass over the bits left, go on to the next file, or stop after the last.  A seek
\* over the end of the disk fails and moves nothing, and nobody looks.
EndFile ==
  /\ phase = "file"
  /\ LET to == offset + Lg(volume, alloc) * Byte - bitindex
     IN  offset' = IF to <= DiskSize THEN to ELSE offset
  /\ filenum' = filenum + 1
  /\ phase' = IF fmax # -1 /\ filenum' >= fmax THEN "done" ELSE "get"
  /\ UNCHANGED <<fs, volume, saveVars, fmax, copy, sum, firstpass, alloc, misbits,
                 bitindex, starto, target, hurt, reported, missed, faults>>

Finished == phase \in {"done", "fatal"} /\ UNCHANGED vars

Step == \/ SkipSector \/ ReadSector \/ EndBlock \/ Get \/ Open \/ InflateHeader
        \/ InflateDamaged \/ InflateBuffer \/ InflateJunk \/ StreamEnd \/ ZlibError
        \/ EndFile

Next == Step \/ WriteError \/ OpenFails \/ Finished

\* Both programs are loops that go on until they are done.
Spec == Init /\ [][Next]_vars /\ WF_vars(Step)
--------------------------------------------------------------------------------
Aborted == phase # "save" /\ blk < Blocks(volume)

\* Somebody was told, or should have been.
Failed == misread \/ reported \/ missed \/ Aborted \/ phase = "fatal"

Copy == INSTANCE ImageCopy
          WITH next <- filenum,
               verdict <- IF Failed THEN "failed"
                          ELSE IF phase = "done" THEN "done" ELSE "busy"

\* Buffers and bit positions keep to the volume, the position on the target to the
\* disk, whatever a damaged bitmap said.
TypeOK ==
  /\ fs \in FileSystems
  /\ phase \in {"save", "get", "open", "inflate", "file", "done", "fatal"}
  /\ blk \in 0 .. Blocks(volume) /\ bit \in 0 .. ALLOCLG * Byte
  /\ Len(buffer) < TOTALLG /\ Len(files) <= Blocks(volume)
  /\ filenum \in 0 .. Blocks(volume) /\ fmax \in {-1, Blocks(volume)} \union Misread
  /\ bitindex \in Nat /\ (sum => bitindex <= ALLOCLG * Byte)
  /\ offset \in Start .. DiskSize
  /\ {misread, hurt, reported, missed, firstpass, sum} \subseteq BOOLEAN
  /\ faults \in 0 .. MaxFaults

\* Every block file compress_volume has closed holds the slice it should, header,
\* used sectors from their own places, end: the relative seeks over unused sectors
\* stay in step with the bitmap across buffers and across block files
\* (compress-loop.h 55-112), unless a read error was shown; and a file that lost
\* its end when it was closed has nothing wrong in front of it.
SavedFaithfully ==
  ~misread => \A f \in 0 .. blk - 1 :
                LET u == files[f + 1]
                    s == Stream(volume, f)
                IN  u = SubSeq(s, 1, Len(u)) /\ (f \notin cut => Len(u) = Len(s))

\* Block files reach the target in order, each complete before the next, however
\* often a damaged or truncated copy had to be restored again from where it began,
\* and not even a damaged bitmap harms those before it (autorestore.c 517-666).
CopiesImage == Copy!CopySpec

\* A partition saved and restored without a reported error has back every sector
\* its file system needs: the bitmap built by the image_* program leaves none out
\* and no step between there and the target displaces one.
InUseRestored ==
  phase = "done" /\ ~Failed =>
    \A s \in 0 .. DiskSize - 1 :
      Needs(fs, s) => Start + s \in DOMAIN target /\ target[Start + s] = s

\* A partition saved in raw mode is saved whole (autosave.c 70, image_raw.c 66).
RawIsWhole ==
  phase = "done" /\ ~Failed /\ fs.is = "raw" =>
    \A s \in 0 .. fs.size - 1 : target[Start + s] = s

\* Saving and restoring end, unless the save was cut short: a block file without an
\* end is inflated again for ever.
Ends == <>(phase \in {"done", "fatal"} \/ Aborted \/ cut # {})
================================================================================
