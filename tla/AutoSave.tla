-------------------------------- MODULE AutoSave --------------------------------
(***************************************************************************)
(* autosave walks /proc/partitions, then the LVM volumes, chooses for each *)
(* line the image_* program to run, and leaves in the image's directory    *)
(* the tables and boot sectors of every disk (PTABS, QTABS ...), one set   *)
(* of block files per partition and conf.txt, the commands that put them   *)
(* back; autorestore runs those commands.  Disks go by their BIOS number   *)
(* in between: autosave takes it from the hdmap file, by size, and         *)
(* autorestore counts.  A set of block files stands for the sectors it was *)
(* made from; what becomes of the sectors inside is RevImage.              *)
(*                                                                         *)
(* A machine is a record: lines, what /proc/partitions and /dev/mapper     *)
(* list, each [is, disk, num, start, size, type, fs, opens, ldm, known,    *)
(* on], num being the kernel's number of a partition and on, the disks and *)
(* partitions a volume has its physical extents on; map, the hdmap file    *)
(* (number :> size), with has_hdmap; exclude, the pairs of the exclude     *)
(* file; revoraw; present, a backup is in the directory; small, the disks  *)
(* now smaller than when they were saved.                                  *)
(***************************************************************************)
EXTENDS Integers, SequencesExt, FiniteSetsExt, Functions

CONSTANTS Machines,
          BOOT,      \* sectors saved in front of a partition: 63
          PE,        \* sectors of LVM metadata in front of the physical extents
          Numbers    \* BIOS numbers in hdmap, from 0: 256 of them

Volume0 == 4096 - 128   \* the number of the first LVM volume, less 128

\* What the kernel and the partition tables see to.  Disks, the partitions of a disk
\* and the volumes of the device mapper have names of their own, the partitions of a
\* disk follow its line and open only if it does, the volumes come last, and all
\* that is read of a disk or a partition is there.  A minor number has eight bits:
\* dnum2pre keeps no more of it.
WellFormed(m) ==
  LET lines == m.lines
      K == 1 .. Len(lines)
      Is(k, is) == lines[k].is = is
  IN  /\ lines \in Seq(Range(lines)) /\ Numbers + Len(lines) <= Volume0
      /\ DOMAIN m.map \subseteq 0 .. Numbers - 1 /\ \A i \in DOMAIN m.map : m.map[i] \in Nat
      /\ m.has_hdmap \in BOOLEAN /\ m.revoraw \in BOOLEAN /\ m.present \in BOOLEAN
      /\ \A k \in K : /\ lines[k].is \in {"disk", "part", "dm"} /\ lines[k].opens \in BOOLEAN
                      /\ lines[k].num \in Nat /\ lines[k].start \in Nat /\ lines[k].size \in Nat
                      /\ lines[k].fs = "lvm" => PE <= lines[k].size
      /\ \A i, k \in K : i # k /\ Is(i, "disk") /\ Is(k, "disk") => lines[i].disk # lines[k].disk
      /\ \A i, k \in K : i # k /\ Is(i, "part") /\ Is(k, "part") /\ lines[i].disk = lines[k].disk
                          => lines[i].num # lines[k].num
      /\ \A k \in K : Is(k, "dm") => /\ lines[k].num < 256
                                     /\ lines[k].on \subseteq {p \in Range(lines) : p.is # "dm"}
      /\ \A i, k \in K : i # k /\ Is(i, "dm") /\ Is(k, "dm") => lines[i].num # lines[k].num
      /\ \A i, k \in K : i < k /\ Is(i, "dm") => Is(k, "dm")
      /\ \A k \in K : Is(k, "disk") =>
           /\ lines[k].ldm[1] \in Nat /\ lines[k].ldm[2] \in Nat
           /\ lines[k].start = 0 /\ BOOT <= lines[k].size
           /\ lines[k].ldm[1] + lines[k].ldm[2] <= lines[k].size
      /\ \A k \in K : Is(k, "part") /\ lines[k].opens =>
           \E i \in 1 .. k - 1 :
             /\ Is(i, "disk") /\ lines[i].opens /\ lines[i].disk = lines[k].disk
             /\ lines[k].start + BOOT <= lines[i].size
             /\ \A j \in i + 1 .. k - 1 : Is(j, "part")

ASSUME SaveAssumption == /\ BOOT \in Nat \ {0} /\ PE \in Nat /\ Numbers \in Nat \ {0}
                         /\ \A m \in Machines : WellFormed(m)

VARIABLES machine,
          phase,     \* "save", "refused", "restore", "stuck", "done"
          line,      \* save: lines read
          dnum,      \* the number of the present disk, less 128
          lastnum, hdmap, \* gethdbios
          should_backup_lvm,
          tabs,      \* the ?TABS files: per number, <<sector, contents>> in order
          images,    \* the block files: per name, the line they were made from, how
                     \* many of its sectors they have, and whether they have an end
          conf,      \* the commands in conf.txt
          shown,     \* lines whose failure was shown
          died,      \* lines whose program died after it had accepted them
          cmd,       \* autorestore: commands run
          target     \* per disk (and LVM volume) and sector, what was written there

saveVars == <<line, dnum, lastnum, hdmap, should_backup_lvm, tabs, images, conf, shown,
              died>>
vars == <<machine, phase, saveVars, cmd, target>>

Used == -1   \* 0xFFFFFFFF in hdmap

Line == machine.lines[line + 1]
Lines == Range(machine.lines)

Init ==
  /\ machine \in Machines
  /\ phase = "save"
  /\ line = 0 /\ dnum = -1 /\ lastnum = -1 /\ should_backup_lvm = FALSE
  /\ hdmap = [i \in 0 .. Numbers - 1 |-> IF i \in DOMAIN machine.map THEN machine.map[i] ELSE Used]
  /\ tabs = <<>> /\ images = <<>> /\ conf = <<>> /\ shown = {} /\ died = {}
  /\ cmd = 0 /\ target = <<>>
--------------------------------------------------------------------------------
\* save() stops at once when there is a backup in the directory.
Refuse ==
  /\ phase = "save" /\ line = 0 /\ machine.present
  /\ phase' = "refused"
  /\ UNCHANGED <<machine, saveVars, cmd, target>>

Reading == phase = "save" /\ ~machine.present /\ line < Len(machine.lines)

\* gethdbios: the first number whose size is the disk's or one more, or else the
\* one after the last.
Fits(size) == {i \in DOMAIN hdmap : hdmap[i] \in {size, size + 1}}
gethdbios_reusing(size) ==
  /\ lastnum' = IF machine.has_hdmap /\ Fits(size) # {} THEN Min(Fits(size)) ELSE lastnum + 1
  /\ UNCHANGED hdmap

gethdbios(size) ==
  LET found == machine.has_hdmap /\ Fits(size) # {}
  IN  /\ lastnum' = IF found THEN Min(Fits(size)) ELSE lastnum + 1
      /\ hdmap' = IF found THEN [hdmap EXCEPT ![lastnum'] = Used] ELSE hdmap

\* save_raw: sectors of a disk, added to the file of its number.
Sectors(first, last) == [j \in 1 .. last - first + 1 |-> first + j - 1]

save_raw(n, l, sectors) ==
  LET old == IF n \in DOMAIN tabs THEN tabs[n] ELSE <<>>
      new == [j \in DOMAIN sectors |-> <<sectors[j], <<l.disk, sectors[j]>>>>]
  IN  tabs' = [m \in DOMAIN tabs \union {n} |-> IF m = n THEN old \o new ELSE tabs[m]]

\* A line that cannot be opened is logged and passed over.
Unopened ==
  /\ Reading /\ ~Line.opens
  /\ dnum' = IF Line.is = "dm" THEN Volume0 + Line.num ELSE dnum
  /\ line' = line + 1
  /\ UNCHANGED <<machine, phase, lastnum, hdmap, should_backup_lvm, tabs, images,
                 conf, shown, died, cmd, target>>

\* A whole disk: its number, the command for its tables, the sectors of the logical
\* disk manager if there is one, the boot sectors.
Disk ==
  /\ Reading /\ Line.opens /\ Line.is = "disk"
  /\ gethdbios(Line.size)
  /\ dnum' = lastnum'
  /\ conf' = Append(conf, [op |-> "ptabs", hd |-> dnum'])
  /\ save_raw(dnum', Line, Sectors(Line.ldm[1], Line.ldm[1] + Line.ldm[2] - 1)
                             \o Sectors(0, BOOT - 1))
  /\ line' = line + 1
  /\ UNCHANGED <<machine, phase, should_backup_lvm, images, shown, died, cmd, target>>

\* The number of a partition in names, commands and the exclude file: four bits of
\* the minor number, although IDE disks have six.  Its type is the one sfdisk gives
\* for that number.
poff(l) == IF l.is = "dm" THEN 0 ELSE l.num % 16
ttype(l) ==
  LET asked == {k \in Lines : k.is = "part" /\ k.disk = l.disk /\ k.num = poff(l)}
  IN  IF l.is = "dm" \/ asked = {} THEN "none" ELSE (CHOOSE k \in asked : TRUE).type

isexcluded == {<<dnum, 0>>, <<dnum, poff(Line)>>} \intersect machine.exclude # {}
Saved == Line.size > BOOT /\ ttype(Line) # "extended" /\ ~isexcluded

\* The first sectors of a partition, and for a logical one those in front of it.
Boot == Sectors(IF poff(Line) < 5 THEN Line.start
                ELSE IF Line.start <= BOOT THEN 0 ELSE Line.start - BOOT, Line.start + BOOT - 1)

Partcopy(hd, dev) == [op |-> "partcopy", hd |-> hd, num |-> poff(Line), sect |-> Line.start,
                      dev |-> dev]

\* The programs in the order they are tried: image_raw if told to, those that know
\* the file system, image_lvm, image_raw for the types it is kept for.
program(l) == CASE machine.revoraw -> "raw"
                [] ~machine.revoraw /\ l.fs = "known" -> "fs"
                [] ~machine.revoraw /\ l.fs = "lvm" /\ ttype(l) = "8e" -> "lvm"
                [] ~machine.revoraw /\ l.fs # "known" /\ ttype(l) = "diag" -> "raw"
                [] OTHER -> "none"

\* image_lvm saves only the metadata in front of the physical extents.
MetadataOnly_never(l) == FALSE
MetadataOnly(l) == program(l) = "lvm"
Extent(l) == IF program(l) = "lvm" THEN PE ELSE l.size

\* A program that accepts the partition is run and its result is not looked at: it
\* may die before the first block file or anywhere after.
Image(name) ==
  LET made(n, ended) == [m \in DOMAIN images \union {name} |->
                           IF m = name THEN [of |-> Line, got |-> n, ended |-> ended]
                           ELSE images[m]]
  IN  \/ images' = made(Extent(Line), TRUE) /\ UNCHANGED died
      \/ /\ images' \in {images} \union {made(n, FALSE) : n \in 0 .. Extent(Line)}
         /\ died' = died \union {Line}

\* Nobody wants the line: the operator is told.
Save(name) ==
  \/ program(Line) = "none" /\ shown' = shown \union {Line} /\ UNCHANGED <<images, died>>
  \/ program(Line) # "none" /\ Image(name) /\ UNCHANGED shown

Partition ==
  /\ Reading /\ Line.opens /\ Line.is = "part"
  /\ save_raw(dnum, Line, Boot)
  /\ IF Saved
     THEN /\ conf' = Append(conf, Partcopy(dnum, "none"))
          /\ Save(<<dnum, poff(Line)>>)
          /\ should_backup_lvm' = (should_backup_lvm \/ MetadataOnly(Line))
     ELSE UNCHANGED <<conf, images, shown, died, should_backup_lvm>>
  /\ line' = line + 1
  /\ UNCHANGED <<machine, phase, dnum, lastnum, hdmap, cmd, target>>

\* A volume of the device mapper: passed over as long as no image_lvm has saved a
\* physical volume without its contents.  Its number is over 4095, which no line of
\* the exclude file names.
Volume ==
  /\ Reading /\ Line.opens /\ Line.is = "dm"
  /\ dnum' = Volume0 + Line.num
  /\ IF should_backup_lvm /\ Line.size > BOOT
     THEN conf' = Append(conf, Partcopy(dnum', Line.disk)) /\ Save(<<dnum', 0>>)
     ELSE UNCHANGED <<conf, images, shown, died>>
  /\ line' = line + 1
  /\ UNCHANGED <<machine, phase, lastnum, hdmap, should_backup_lvm, tabs, cmd, target>>
--------------------------------------------------------------------------------
\* makehdmap: the disks in the order of /proc/partitions, those with a major number
\* it knows.  Its loop reads the last line twice.
isdisk(l) == l.is = "disk" /\ l.known
proc(lines) == SelectSeq(lines, LAMBDA l : l.is # "dm")
makehdmap(lines) == LET all == SelectSeq(Append(proc(lines), Last(proc(lines))), isdisk)
                    IN  [i \in 0 .. Len(all) - 1 |-> all[i + 1].disk]
restoremap == makehdmap(machine.lines)

\* conf.tmp becomes conf.txt; autorestore reads it, unless a disk is too small: then
\* it says so and sleeps for ever.
EndSave ==
  /\ phase = "save" /\ ~machine.present /\ line = Len(machine.lines)
  /\ phase' = IF Range(restoremap) \intersect machine.small # {} THEN "stuck" ELSE "restore"
  /\ UNCHANGED <<machine, saveVars, cmd, target>>

\* Later writes of a sequence of <<sector, contents>> to a disk go over earlier ones.
Written(disk, ws) ==
  target' = [x \in DOMAIN target \union {<<disk, ws[j][1]>> : j \in DOMAIN ws} |->
               LET js == {j \in DOMAIN ws : x = <<disk, ws[j][1]>>}
               IN  IF js = {} THEN target[x] ELSE ws[Max(js)][2]]

Command == conf[cmd + 1]
Restoring == phase = "restore" /\ cmd < Len(conf)

\* restore_raw.
Ptabs ==
  /\ Restoring /\ Command.op = "ptabs" /\ Command.hd \in DOMAIN restoremap
  /\ Written(restoremap[Command.hd], tabs[Command.hd])
  /\ cmd' = cmd + 1
  /\ UNCHANGED <<machine, phase, saveVars>>

\* What restore writes of image i: its sectors from sect on.
Copied_from_zero(i, sect) == [j \in 1 .. i.got |-> <<j - 1, <<i.of.disk, i.of.start + j - 1>>>>]
Copied_rounded_up(i, sect) ==
  [j \in 1 .. i.got + 1 |-> <<sect + j - 1, <<i.of.disk, i.of.start + j - 1>>>>]
Copied(i, sect) == [j \in 1 .. i.got |-> <<sect + j - 1, <<i.of.disk, i.of.start + j - 1>>>>]

\* restore, to the LVM volume the command names or to the disk of its number.  There
\* is nothing to restore when there are no block files; a block file without an end
\* is restored again for ever, and one that is not there ends the loop (RevImage).
Copy ==
  LET name == <<Command.hd, Command.num>>
      disk == IF Command.hd >= Volume0 THEN Command.dev ELSE restoremap[Command.hd]
  IN  /\ Restoring /\ Command.op = "partcopy"
      /\ Command.hd \in DOMAIN restoremap \/ Command.hd >= Volume0
      /\ IF name \in DOMAIN images
         THEN /\ Written(disk, Copied(images[name], Command.sect))
              /\ phase' \in {phase} \union (IF images[name].ended THEN {} ELSE {"stuck"})
         ELSE UNCHANGED <<phase, target>>
      /\ cmd' = cmd + 1
      /\ UNCHANGED <<machine, saveVars>>

\* A number beyond the disks counted is a null device name: open fails, every write
\* of the command is reported and nothing is written.
NoDisk ==
  /\ Restoring /\ Command.hd \notin DOMAIN restoremap /\ Command.hd < Volume0
  /\ cmd' = cmd + 1
  /\ UNCHANGED <<machine, phase, saveVars, target>>

EndRestore ==
  /\ phase = "restore" /\ cmd = Len(conf)
  /\ phase' = "done"
  /\ UNCHANGED <<machine, saveVars, cmd, target>>

Finished == phase \in {"refused", "stuck", "done"} /\ UNCHANGED vars

Next == \/ Refuse \/ Unopened \/ Disk \/ Partition \/ Volume \/ EndSave
        \/ Ptabs \/ Copy \/ NoDisk \/ EndRestore \/ Finished

Spec == Init /\ [][Next]_vars
--------------------------------------------------------------------------------
\* The numbers follow the order of /proc/partitions.
InOrder == \A n \in DOMAIN tabs : n \in DOMAIN restoremap
             /\ \A w \in Range(tabs[n]) : w[2][1] = restoremap[n]

\* Two partitions of a disk that have the same number in four bits, which IDE disks
\* with more than fifteen have.
Alike(l, m) == /\ l # m /\ l.is = "part" /\ m.is = "part"
               /\ l.disk = m.disk /\ l.num % 16 = m.num % 16
Doubled(l) == \E m \in Lines : Alike(l, m)
Apart == \A l \in Lines : ~Doubled(l)

\* What is saved comes from a line, and no write leaves the disk or volume it is for
\* when disks are restored to themselves (autosave.c 522-535, autorestore.c 302-316).
TypeOK ==
  /\ machine \in Machines
  /\ phase \in {"save", "refused", "restore", "stuck", "done"}
  /\ line \in 0 .. Len(machine.lines) /\ cmd \in 0 .. Len(conf)
  /\ lastnum \in -1 .. Numbers + Len(machine.lines)
  /\ should_backup_lvm \in BOOLEAN
  /\ \A n \in DOMAIN images : images[n].of \in Lines /\ images[n].got \in 0 .. Extent(images[n].of)
  /\ shown \subseteq Lines /\ died \subseteq Lines
  /\ InOrder /\ Apart => \A x \in DOMAIN target : \E l \in Lines :
                            x[1] = l.disk /\ x[2] \in 0 .. l.start + l.size - 1

\* hdmap, if there is one, has a number for each disk and no two disks whose sizes it
\* could mistake.
Disks == {l \in Lines : l.is = "disk" /\ l.opens}
Listed ==
  machine.has_hdmap =>
    \A l \in Disks :
      /\ Cardinality({m \in Disks : m.size = l.size})
           <= Cardinality({i \in DOMAIN machine.map : machine.map[i] \in {l.size, l.size + 1}})
      /\ \A m \in Disks : m.size \notin {l.size - 1, l.size + 1}

\* No image is written over another but that of a partition with the same four bits:
\* two other commands never have one name, and every disk has a ?TABS file of its
\* own, whether the numbers are counted or taken from hdmap by size (autosave.c 459
\* and 811-835).
OwnName ==
  Listed => /\ \A i, j \in DOMAIN conf :
                 i # j /\ conf[i].op = conf[j].op /\ conf[i].hd = conf[j].hd =>
                   /\ conf[i].op = "partcopy"
                   /\ conf[i].num = conf[j].num =>
                        \E l, m \in Lines : /\ Alike(l, m)
                                            /\ l.start = conf[i].sect /\ m.start = conf[j].sect
            /\ \A n \in DOMAIN tabs : Cardinality({w[2][1] : w \in Range(tabs[n])}) = 1

\* After a save every line that holds data has block files of its own with an end,
\* or else is excluded, was shown, had a program that died, or was written over by
\* one of the same four bits.  A volume of the device mapper without block files
\* lies on nothing saved without its contents: each of its physical volumes is in
\* an image, or is one of those, or a whole disk (autosave.c 438-440, 608-615).
Excluded(l) == \E n \in DOMAIN tabs : /\ \E w \in Range(tabs[n]) : w[2][1] = l.disk
                                     /\ {<<n, 0>>, <<n, poff(l)>>} \intersect machine.exclude # {}
NoData(l) == ~l.opens \/ l.is = "disk" \/ l.size <= BOOT \/ l.type = "extended"
Given_up(l) == NoData(l) \/ Excluded(l) \/ l \in shown \/ l \in died \/ Doubled(l)
Imaged(l) == \E n \in DOMAIN images : images[n].of = l /\ images[n].ended
Below(l) == l.is = "dm" /\ \A p \in l.on : Given_up(p) \/ (Imaged(p) /\ program(p) # "lvm")
Accounted ==
  phase \in {"restore", "stuck", "done"} /\ Listed =>
    \A l \in Lines : Given_up(l) \/ Imaged(l) \/ Below(l)

\* When the numbers follow the order of /proc/partitions and differ in four bits, a
\* restore puts every sector it writes where it came from, and all the tables and
\* what the images have of the partitions are back at its end (autorestore.c 753-843
\* and 878-924).
Home == /\ \A x \in DOMAIN target : target[x] = x
        /\ phase = "done" =>
             /\ \A n \in DOMAIN images :
                  \A s \in images[n].of.start .. images[n].of.start + images[n].got - 1 :
                    <<images[n].of.disk, s>> \in DOMAIN target
             /\ \A n \in DOMAIN tabs : \A w \in Range(tabs[n]) : w[2] \in DOMAIN target
RestoredHome == InOrder /\ Apart => Home
================================================================================
