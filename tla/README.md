# A TLA+ development for LRS: command scheduler, images and their restore

LRS (Linbox Rescue Server) saves, restores and administers the PCs of a site
from one server.  This directory holds TLA+ models of its command scheduler (LSC),
of the saving and restoring of disk images and of the barrier of the server, the
TLC runs that check them on small instances and TLAPS proofs that hold for every
instance.

## 1. Inventory of the system

| part | where | state it keeps | operations | hard behaviour |
|---|---|---|---|---|
| LSC dispatcher | `webmin/lsc/include/scheduler.inc.php`, `commands.inc.php` | tables `commands`, `commands_on_host` | `add_command`, `dispatch_all_commands`, `dispatch` | several dispatchers at once, no lock, death in the middle |
| LSC passes | `scheduler.inc.php`, `scheduler-daemon.php` (cron), three web pages | none of their own | `start_all_commands` | several passes at once, the limit on launchers, starvation |
| LSC launcher | `command_launcher.inc.php`, `start_command_on_host.php` | a row of `commands_on_host`, the copy of it in memory | claim, connect, upload, execute, delete, repeat, release | races on a row, stale copies, retries, periods, death |
| LSC buttons | `commands_on_host.inc.php`, `commands.inc.php`, `killparent.sh` | rows | pause, play, stop of a row or a command | race with the launcher, kill of the wrong process |
| LSC remote access | `ssh.inc.php`, `copy.inc.php`, `exec.inc.php`, `delete.inc.php` | none | ping, ssh, scp | any command may fail or be killed |
| LSC history, file explorer, pages | rest of `webmin/lsc` | `commands_history` | append, list | none: read by no decision |
| `lrsd` | `server/admin/lrsd.c` | MTFTP barrier (`lastfile`, `lasttime`), packet buffers | one handler per packet kind | clients restoring at once share one barrier; lost and repeated UDP packets |
| server scripts | `server/admin/perl`, `lbs_starter`, `wake`, `wol` | ether file, menus, logs | add, rename, update a host | two scripts on one file |
| image tools | `client/revimage` (`compress.c`, `autosave`, `autorestore`, `image_*`) | block bitmap, split files, numbers of disks | save, restore | bitmap, buffer and file boundaries, relative seeks, read and write errors, retries, disks numbered twice |
| boot loader | `client/src_revoboot/builtins_lbs.c` | a transfer: packet pool, buffers, bitmap, place on the disk | `partcopy`, `new_get`; identify, inventory | lost, repeated and damaged packets, time-outs, buffers that wait for each other |
| other web modules | `webmin/lbs`, `lbs_common`, `lbs-cd`, `lbs-inventory`, `lrs-inventory`, `lbs-vnc`, `backuppc*`, `lrs-theme` | configuration files | forms | none of their own |
| vendored | GRUB, e2fsprogs, reiserfsprogs, zlib, busybox, lvm2, pump, BackupPC, phplib | | | third-party |

How they interact: the pages and cron share only the database.  A pass starts one
background process per row it selects; the process and the pages then write the
same row, one SQL statement at a time, with one lock in the whole module (the
claim).  `stop` also kills processes.  An image is written by `autosave` and the
`image_*` program it chooses, and restored by the boot loader over TFTP or by
`autorestore` from a file system or by multicast TFTP; the block files are all
that saving and restoring share.  Before each file of a multicast restore the
client asks `lrsd` how long to wait for the others.

What makes each LSC part correct:

* dispatcher: a command marked dispatched has a row on every host; one row per
  host; every command is dispatched at last;
* passes: a row that is due is started; the limit on launchers is kept;
* launcher: the phases happen in order, the script once, nothing before its date;
  a row is claimed by a living process; retries are bounded; a row comes to rest;
  a row shown as done has nothing left to do;
* buttons: what was stopped stays stopped; play makes a row run again.

What makes the others correct:

* saving: every sector in use is in the image, in the block file of its slice; no
  image is written over another, and nothing that holds data is passed over in
  silence;
* restoring: each used sector comes back to its place, whatever was lost, damaged or
  had to be repeated; no other sector is touched, but for damage, and then never what
  was restored before; the restore ends; disks are not confused;
* barrier: clients at one barrier leave it together; nobody waits for ever.

## 2. Modules and how they correspond to the code

* `LscRow` - the vocabulary of `commands_on_host`: the ENUMs, the WHERE clause of
  `start_all_commands` (`Startable`), the row changes of dispatch, pause, play,
  stop and of the `update()` of `repeat_resched`.
* `LscLauncher` - passes, launchers, operator.  `coh` is the table; `launcher[l].pc`
  is the next SQL statement or remote command of process `l`, the other fields
  are the PHP variables that outlive a statement (`att` is
  `$remains_connection_attempt`, `sess` says that `$session` is set, `snap` is the
  copy of the row `update()` writes back); `pass[p]` are the rows of the result a
  pass loops over; `operator` is a stop or play between two of its statements.
  `work` is what happened on the hosts: it is written by the actions `Run`,
  `Unreach` and `Update` and read by properties only.
* `LscPipeline` - the abstract promise: three phases in order, each begun once,
  ended once, started over only in a new period.
* `LscDispatch` - commands, dispatchers, the rows they insert.
* `ImageFormat` - the layout of an image: how `compress_volume` cuts the bitmap in
  slices, one block file each, and what a block file holds.
* `ImageBitmap` - which sectors an `image_*` program takes for used, program by
  program, and (`Needs`) which ones the file system needs by its own definition.
* `ImageCopy` - the abstract promise of a restore: block files in order, each
  complete before the next, no other sector written.  Once damaged data was used
  (`hurt`) it may write others, but none in front of the block file it is at; and it
  may fail, saying so.
* `RevoGet` - the boot loader's restore.  One round of the inner loop of `new_get` is
  a "turn" (the first of flush, inflate, gulp that has something to do), then a
  "poll" of the network; `tbuf` is the list of packet buffers, `compressed` the
  input of `inflate`, `out` its output; `toServer` and `toClient` are packets in
  flight, those of ports the client has left included.  Damage may hit any unit, the
  header with the bitmap, too; the code uses these before there is a checksum
  (`FlushHeader`), so `NoTable` and `Junk` stand for any bitmap and any contents.
  `fatal()` closes UDP in mid-transfer (`open`) and `getkey` waits (`Key`); `told` and
  `holed` say that a sector was not written.  The TFTP server and the network are
  external.
* `RevImage` - `compress_volume` and `autorestore`'s `restore`, one after the other.
  `pos` and `offset` are the positions of the two file descriptors, moved as the
  code moves them, by reads, writes and relative seeks.  A copy of a block file may be
  cut or damaged from any unit on; a damaged bitmap is used (`InflateDamaged`) and the
  scan may run over its end (`InflateJunk`).  `cut` are the block files `fclose` did not
  write whole, which nobody looks at.
* `AutoSave` - one line of `/proc/partitions` or `/dev/mapper` per step, then one line
  of `conf.txt` per step of the restore.  A sector stands for the disk and place it
  came from.  Names have four bits of the minor number (`poff`), as in the code; an
  image program that accepted a line may die anywhere (`Image`), and nobody looks.
* `LrsdBarrier` - the handler of `T` and `L3` packets, and clients that run
  `revowait` before each file.
* `MC...` - the commands, images, partitions and machines used in the runs.
* `LscLauncherProofs`, `LscSerialProofs`, `LscDispatchProofs`, `LrsdBarrierProofs`,
  `ImageFormatProofs`, `RevImageProofs`, `RevoGetProofs`, `AutoSaveProofs` - the theorems.
  `ImageFormatProofs` holds the lemmas about bitmaps, slices and block files that the
  proofs of saving and of both restores share.

Composition: `RevImage` extends `ImageBitmap`, which extends `ImageFormat`; `RevImage`
and `RevoGet` both implement `ImageCopy` (`INSTANCE ... WITH`).  `RevoGet` restores what
`ImageFormat` says, and `SavedFaithfully` of `RevImage` is that this is what is saved.

**Granularity.**  Every SQL statement that changes shared state is a step; a
SELECT and the test of its result are one step.  Merged into one step: the
COUNT and the SELECT of `start_all_commands`; the two UPDATEs that "reset the
connection attempts"; the five UPDATEs of play, whose WHERE clauses exclude each
other; and, in `Retry`, `set_next_launch_date(now)` with the
`update_next_launch_date` that follows (the row is held meanwhile, so no pass
looks at the date).  `LOCK TABLES ... WRITE` makes `Claim` one step in the code.

**Details that come from PHP and matter.**  PHP 4 copies objects on assignment, so
`$coh` is a copy of the row of its own.  All queries go through one object
`$database` whose `query()` frees the result before it: a loop over a result that
runs queries in its body ends after its first round.  This is so in
`dispatch_all_commands` (`EndPass`) and `lsc_command_set_stop` (`CommandStop`); the
loop of `start_all_commands` runs no query.  In `execute` the test of pause and stop
reads `$this->commond_on_host`, which does not exist, and never holds.
`files_delete` breaks out of its loop for a destination like `/` with no return
value set, which counts as success.

**Abstracted.**  Host names, paths, file lists, script text and outputs; a
connection (ping, ssh, wake on lan) and a remote command by whether it succeeds;
dates by small numbers, 0 for the zero date; `date_created` by the command's id;
`commands_history`, which nothing reads back, and with it the inventory step.
In the image modules: the contents of a sector by where it was read; compression
by units, the parts of a file that inflate to the header, to one sector or to
nothing (the end and its checksum), with sizes counted in units and sectors; zlib
by what it guarantees: from the damage on it gives anything, of any length, until an
error, at the latest at the checksum.  Two coincidences are taken not to happen: damage
that the checksum does not show, and damage that spells a keyword (`BLOCKS=`) the
header does not have.  A file system is the maps its program reads.  In the barrier: times by durations, so that the
clock needs no bound; `nc` by an answer within the second or none.
Variants named `X_...` in front of a definition `X` are plausible errors in that
definition; nothing uses them but the checks that each property notices one.

## 3. Runs

Named bounds: `MaxTime` (the clock stops), `MaxOps` (how often buttons are
pressed), `MaxCrash` (how many dispatchers die), the number of launcher processes
alive or dead, `MAX_COMMAND_LAUNCHER_PROCESSUS`, a parameter of the code, and
`MaxFaults`, how many packets, reads, writes, files or answers go wrong.  What damage
can make of a header is bounded by `Misread` (numbers), `Misbits` (bitmaps) and `Memory`
(bits behind the bitmap), which the theorems leave open.  A launcher that has ended may be started again for another row; a dead one may not.

Passing:

| run | instance | shows |
|---|---|---|
| `LauncherOverlap` | 1 row, 2 passes and 2 launchers at once, pause/play/stop, crashes | `TypeOK`; files before script (`UploadedFirst`); script before delete (`RanBeforeDelete`); `ClaimOwned`: a claim belongs to a process at work on the row, just killed by the stop in progress, or dead at work |
| `LauncherSerial` | 3 rows of a command (no files; a row from before 1.0.3; a host without address), every button, crashes | `ScriptOnce`, `DoneIsFinished` |
| `LauncherPeriodic` | periodic command with dates, 2 attempts, clock to 7 (three periods and the end date), pause, crashes | `NotEarly`, `ConnectionBudget`; the launcher implements `LscPipeline` |
| `LauncherSettles` | 3 dated rows (two attempts; an end date that may be missed; a host without address), pause/stop, fair scheduling | `Relaunchable`: what will be started again has work that can be done; `Settles`: every row ends done, failed, halted or given up, or is `Hopeless`: past its end date or without an address, and launched for ever |
| `DispatchCovered` | 3 commands (two hosts, one host, empty group), 2 dispatchers, 2 crashes | `TypeOK`, `Covered` |
| `DispatchSingle` | the same, 1 dispatcher, 3 crashes, fair | `OneRowPerHost`, `Dispatches` |
| `GetRestores` | two images of two block files, one of them possibly missing, the second image a sector too long for the disk, pool of 2 buffers, 2 ports used in turn, 2 faults (packets lost, repeated, resent or damaged anywhere, time-outs, failed writes), fair | `RestoredExactly`: after a good end without a message the disk is what the image says, and damage reached nothing in front of the volume; `NoStall`: a full pool, input or output always leaves work to do; `CopiesImage`: implements `ImageCopy`; `Fresh`: on a port that is used again nothing comes of an earlier transfer; `Ends` |
| `ImageRoundTrip` | eight partitions over six programs, one of them refused, one to three block files, 2 faults (reads, writes, `fclose`, copies cut or damaged anywhere, files missing), fair | `SavedFaithfully`: each closed block file holds its slice, or the front of it if `fclose` lost the rest; `InUseRestored`: save and restore without a reported error give back what the file system needs; `CopiesImage`; `Ends` |
| `Barrier` | 3 clients, 4 files (a tiny one, a small one, two others), delay 2, grace 1, forgotten after 3, 1 fault, fair | `Together`: who waits at a barrier leaves within the grace of the others and not early; `Completes` |
| `SaveAndRestore` | 109 machines: one to three disks, logical, extended, unreadable and raw partitions, an IDE disk with partitions 1 and 17, LVM on image_lvm's, on reiserfs' and on whole-disk physical volumes, LDM, with and without `hdmap`, `exclude`, raw mode; programs that die | `OwnName`: no image written over another, but where four bits do not tell partitions apart; `Accounted`: what is not in a complete image has one of the reasons listed, and a volume passed over lies on nothing saved without its contents; `RestoredHome`: all that is restored goes where it came from |

Two launchers and one row suffice for the races on a row, because launchers of
different rows share no state but the limit; two rows are used where a command
has several rows or the order of rows matters.  The clock reaches one period
beyond the end date, and every retry falls before it stops.  In
`LauncherSettles` the rows that are launched for ever are newer than the other one and
keep none out of the LIMIT; that older ones may is among the disagreements below.

For images, a byte of bitmap has two sectors instead of eight, a slice two bytes
and a buffer two sectors: small enough that slices, buffers and packets end at, before
and after each other's ends within a few sectors, which is where the code could
go wrong.  Two faults let a second one hit the recovery from the first.  Two ports and
a packet life of one request (`Life`) mean that from the third request on each is made on a port that
was used before, with packets and the session of the request in between still about.  Three
clients are one at the barrier, one late and one ahead of it; the theorem covers
any number.  `GetAssumption` states the relation between pool, packet and input
that `NoStall` needs; 10 buffers of 1456 bytes and an input of 8192 satisfy it.

**Environment.**  With `Overlap = FALSE` a pass begins only when no launcher of a
row it would select is alive and no other pass is under way.  This is what ten
minutes between cron runs usually give; nothing in the code enforces it, and three web pages start
passes of their own.  `ScriptOnce`, `DoneIsFinished`, `NotEarly` and `Settles` hold
in that environment and fail without it: a launcher that lost its row to another
one (see the findings) runs phases from stale tests.  `UploadedFirst`,
`RanBeforeDelete` and `ClaimOwned` hold under overlap.  `ConnectionBudget` is
checked without stop or play of a row, which lose or add attempts on purpose;
`PipelineSpec`, `Relaunchable` and `Settles` without play, which takes a phase back
to TODO and may do so between the two UPDATEs of a result (hazard at
`command_launcher.inc.php:140`).  `OwnName` and `Accounted` are about machines whose
`hdmap`, if there is one, has a number for every disk and no sizes that differ by
one sector (`Listed`); `RestoredHome` is about machines where the numbers follow the
order of `/proc/partitions` (`InOrder`), because `makehdmap` counts disks and does not
read `hdmap`, and where no two partitions of a disk agree in four bits (`Apart`).  These
conditions hold for some of the machines and fail for others.  `GetAssumption` has
`Life < PORTS`: a packet or a session of the server is gone when as many requests were
made as there are ports, 128; a restore that makes requests faster than that is not
covered.  `Ends` of `RevoGet` is about disks the volume fits on: on one too small the
loader waits for a key, times out with UDP closed and begins the file again.  Elsewhere
it ends, or waits for a key after a failed write, which nobody has to press.  `Ends` of `RevImage` leaves out images
whose save was cut short, which are restored for ever.

**Deadlock** is checked except where the system may really stop: every launcher
process of the instance has died (`LauncherOverlap`, `LauncherSerial`,
`LauncherPeriodic`), or every command is dispatched (`Dispatch*`).

**Fairness** (`LauncherSettles`, `DispatchSingle`): cron starts
passes again and again, the operating system runs every process, the page behind
a button that was pressed included, and time advances.
No button has to be pressed and nothing has to crash; weak fairness per process
is enough, and nothing is assumed about whether a connection or script succeeds.
`RevoGet`: the boot loader does nothing but its loop, and the server answers what
it receives, so one of the two goes on as long as one can; faults need not happen.
`RevImage`: both programs are sequential loops.  `LrsdBarrier`: time passes, and a client
that is switched on goes on; nobody need be switched on.

**Disagreements** between the code and what its comments or messages say.  Each run
checks one statement and TLC finds it violated:

| run | statement | what the code does |
|---|---|---|
| `LauncherExclusion` | a second launcher finds the row "already started" and leaves it | `free()` releases a row another launcher holds; a third one then works beside it |
| `ImageRaw` | "mark remaining sectors", "save everything in raw mode" | the last byte of the bitmap stays 0 when the size is a multiple of 8: the last eight sectors are not saved (`image_jfs` builds its bitmap in the same way) |

Of the same kind, met while modelling; the models show each of them, and no run is
kept for it:

* stop kills the ssh, not the launcher, which lives and overwrites `stop`
  (`commands.inc.php:768`, "stop and kill each job");
* the test of pause and stop at `command_launcher.inc.php:376` reads a misspelt
  member, and a paused row enters a phase without a session;
* play resets the attempts of another command's rows: it compares `id_command` with
  an `id_command_on_host` (`commands_on_host.inc.php:1029`);
* a host without an address is selected at every pass for ever, being the oldest,
  and keeps newer rows out of the LIMIT (`scheduler.inc.php:282`);
* a pass over the commands ends after the first one (`scheduler.inc.php:271`), and
  `lsc_command_set_stop` stops the first row of a command for the same reason;
* a row past its `end_date` is launched by every pass for ever and left as it is
  (`command_launcher.inc.php:391`);
* the launcher tests "done" before the claim and not after it; the LIMIT of
  `start_all_commands` does not take off the launchers already running; two
  dispatchers may both insert the row of a host, as "@todo lock table" says;
* `autorestore` takes a block file it cannot get for the end of the image and logs
  "restoration completed" (`autorestore.c:517`); a failed write does not move the
  position, so that all that follows is a sector too low (`:472`); a block file
  without an end, left by a full disk on the server, is restored again for ever;
* `autorestore` and the boot loader use the bitmap of a damaged block file before they
  see that it is damaged, and overwrite sectors after the block file that the volume
  may not have (`autorestore.c:585`, `builtins_lbs.c:662`); what belongs to the volume is
  put right later, what lies behind it is not;
* a failed write of the boot loader is shown, and the restore may still end well
  (`builtins_lbs.c:733`);
* `autosave` does not look at the result of an image program (`autosave.c:599`), and
  `compress_volume` not at that of `fclose` (`compress-loop.h:109`): the image is
  incomplete and nobody is told;
* partitions 1 and 17 of an IDE disk are saved under one name (`autosave.c:459`,
  "fixme: does not work for IDE"); LVM volumes on a whole disk are passed over
  (`autosave.c:439`);
* `makehdmap` "should use the 'hdmap' file if present" (`autorestore.c:876`) and does
  not: disks may be restored to each other;
* the first wait after a boot is ten seconds longer for the client that asks first
  only: the others leave up to ten seconds before it (`lrsd.c:441`).

## 4. Proofs

All theorems hold for every set of rows, commands, hosts, launchers, passes and
dispatchers, and for every size of bitmap, slice, buffer and disk, under the named
assumptions of the modules (ids are positive numbers, -1 is no process, columns have
their types, bounds are naturals, a file system is not empty), which TLC evaluates
in the runs.  The inductive invariants were checked by TLC on the instances of the
runs before they were proved.

* `TypeCorrect` (`LscLauncherProofs`): `Spec => []TypeOK`.  `TypeOK` is inductive once
  it says that a launcher in a connection attempt has an attempt left (so the
  decrement stays in the naturals) and that a kill is aimed at a process.
* `FilesBeforeScript`, `ScriptBeforeDelete` (`LscLauncherProofs`), assuming `Once`: no
  command is repeated.  The invariants are not inductive: a launcher acts on
  columns other processes write.  `OrderInv` adds what the columns mean
  (`Recorded`: DONE only if it was done on the host, IGNORED only if not asked
  for) and that what any launcher is about to do or to record is true
  (`Justified`).  Neither mutual exclusion nor crash freedom is needed, which is
  why the order survives the overlap that breaks exclusion.
* `NoOrphanClaim` (`LscLauncherProofs`), assuming `Once`: `ClaimOwned`.  `ClaimInv`
  strengthens "alive" to "past the claim, on this row".  The assumption is
  needed: `update()` of a repeated command may write back the pid of a process
  that has ended.
* `SerialScriptOnce`, `SerialDone`, `SerialNotEarly`
  (`LscSerialProofs`), assuming `Overlap = FALSE`, the environment of section 3:
  `ScriptOnce`, `DoneIsFinished` and `NotEarly`, with every button,
  crashes and repeated commands.  None of them is inductive, since a launcher acts
  on what it read before.  `SerialInv` adds that a row has one living launcher at
  most and none while a pass holds it, and that one pass holds rows at a time
  (`Exclusive`); that what a launcher has read is still true at the statement that uses
  it (`Own`), because only the operator writes the row beside it, and `play` resets a
  column only in a state the launcher shows between its last two UPDATEs; what a row shown as
  done, and one whose script has run, look like (`Sound`); and that the rows a
  pass has selected are still to be launched.  `Exclusive` is where the assumption
  enters; the run `LauncherExclusion` shows that the claim alone does not give it.
* `SerialBudget`, assuming also that launchers are finitely many and that `play` of a
  row, which gives a row without attempts a new one, is not pressed: `ConnectionBudget`.
  `BudgetInv` adds that `$remains_connection_attempt` is the column until the launcher
  has counted its attempt; an attempt whose launcher died in between is `Owed`.
* `SerialRelaunchable`, `LauncherImplementsPipeline` (`LscSerialProofs`), assuming
  `Overlap = FALSE`, `NoPlay` (no `play` of a row or a command) and, the second one for
  repeated commands only, `Tame` (launchers do not die, or nobody presses stop):
  `Relaunchable` and the refinement of `LscPipeline`.  `LaneInv` says that phases are in
  order in every row, and that a launcher between the SELECT that showed a phase to
  do and the UPDATE with its result has that phase to itself; `FreshInv` that a row
  nobody holds is as new, failed, done or halted.  `Tame` is needed: a launcher that dies in a phase leaves
  WORK_IN_PROGRESS behind, stop clears its pid, and the row may be selected again; and
  `repeat_resched` does not look at the columns it starts over.
* `DispatchTypeCorrect`, `DispatchCovers` (`LscDispatchProofs`): `Covered`, for any
  number of racing and dying dispatchers; `CoverInv` adds that the hosts a
  dispatcher has left behind have rows.
* `SingleDispatcherOneRow`, assuming `Alone`, at most one dispatcher: `OneRowPerHost`;
  the invariant adds that a host about to get a row has none.
* `BarrierTypes`, `BarrierTogether` (`LrsdBarrierProofs`): `TypeOK` and `Together`, for
  any clients, files and delays with `to + FIRST <= RESET` (`BarrierAssumption`).
  `Together` compares two clients, so it is not inductive; `Window` bounds each one
  by the barrier instead: a client at the barrier that was set up `since` seconds ago
  has between `to - since` and `to + FIRST - since` seconds left, and `TypeOK` keeps
  both from being negative.  The assumption is needed: with a longer delay the
  barrier is forgotten while clients still sleep for it, and a new one begins.
* `ImageSaved` (`RevImageProofs`): `SavedFaithfully`.  `SaveInv` relates three counters
  the code moves independently: the units written and buffered number one more than
  the used sectors before the bit the loop has come to (`Rank`), the position of the
  source with the sectors still to skip is that bit, and what is in the buffer are the
  next sectors in order.  Lemmas about the k-th member of a finite set carry it over
  every buffer and slice boundary.
* `ImageTypeOK`: `TypeOK` of `RevImage`, most of which is about the restore.  `RestInv`
  adds `Inflating`, that what is left of the copy continues the block file where the
  restore stands up to the damage, after which there is nothing to rely on, and `Placed`,
  that the restore of a file goes on from where it began and the bitmap in use is the
  file's own until damage is inflated.  `RoomAssumption` says what `checkhdspace` sees to:
  the disk is not smaller than the one saved.
* `ImageCopied`: the refinement of `ImageCopy` (`CopiesImage`).  `CopyInv` says, as long as
  nothing was reported, that the position is the one the bitmap gives, that with a
  right checksum so far the sectors behind it are on the target, and that earlier
  block files are complete.  What a damaged bitmap writes is at or after the place where the
  block file began, so the files before it stay complete, and what it overwrites of
  this one and of later ones is written again.
* `ImageRestored`: `InUseRestored`, assuming of every file system `Consistent` (a bitmap no
  larger than the file system, an XFS ring as long as it says, free extents within their
  group: what `fsck` checks and the programs rely on) and `PartByte`, that a raw partition
  does not fill its last byte of bitmap.  Both hold in `ImageRoundTrip`; `ImageRaw` shows
  that the second is needed.  `NeedsInBitmap` proves, program by program, that the
  bitmap leaves out nothing the file system needs.

* `GetTypeOK`, `GetFresh`, `GetNoStall`, `GetRestores`, `GetCopied` (`RevoGetProofs`): the four
  invariants of `GetRestores` and the refinement of `ImageCopy`, for every geometry of buffers,
  packets, ports and image that `GetAssumption` and `VolumeAssumption` allow, any number of block
  files and of faults, and no further hypothesis.  `GetInv` has the types of packets and
  sessions; `TransferInv` follows the units of a block file from the server to the disk.
  `Wire`: nothing on the port of the transfer belongs to another one or is ahead of it, which
  holds when a port comes round again because by then all that was left of its last request
  is gone (`Left`).  `Feed`: what was inflated, the input of `inflate` and the list of packets are
  the units received, in order, each its own or damaged.  `Output`: the output buffer continues
  the sectors passed so far, the header first, as long as nothing damaged was inflated.
  `Table`: a bitmap, damaged or not, has the bits of a slice.  `Disk`: earlier block files are
  complete unless the operator was told, this one is as far as `sectptr` says if it is
  undamaged, and other sectors were written only with damaged data and only behind the
  place the block file began at.  `NoStall` then rests on counting: a list shorter than the
  input of `inflate` occupies fewer packets than there are buffers.
* `SaveTypeOK`, `SaveOwnName`, `SaveAccounted`, `SaveRestoredHome` (`AutoSaveProofs`): `TypeOK`, `OwnName`,
  `Accounted` and `RestoredHome`, for every machine that is `WellFormed`: what the kernel and the
  partition tables see to (names are distinct, the partitions of a disk follow it, volumes come
  last, what is read is there, minor numbers of volumes have eight bits).  It says nothing
  of the four bits the code keeps of a partition's number: `OwnName` and `Accounted` name the
  partitions that these do not tell apart, `RestoredHome` leaves them out.  Every machine of the run
  is.  `SaveInv` says of each table, command and image which line it was made from (`Tables`,
  `Commands`, `Images`), that the number in use is that of the last disk read (`Current`), that
  names are distinct as long as no two disks share a number, but for partitions of the same four
  bits (`Own`), that every line passed is accounted for (`Passed`), and of the restore that all it wrote is at home and every command it
  ran has put back what it was for (`Restored`).  That two disks never share a number is a
  counting argument (`Numbered`): the disks of a size still to be read are no more than the
  numbers `hdmap` still has for it, and a number given away is marked and not found again.
  `Listed` is the hypothesis that starts it.

Only model-checked:

* liveness (`Settles`, `Dispatches`, `Ends`, `Completes`), which the prover does not handle;
* which machines are `InOrder`: `makehdmap` is a filter of the list of lines, and what it
  returns for every list is an induction over data.

Not claimed: that two launchers never work on one row, which is false (`LauncherExclusion`),
and true without overlap for no better reason than the assumption; what becomes of sectors behind
the volume after a damaged bitmap was used; that anybody is told of an image program that died;
the order of phases and `ClaimOwned` for repeated commands under overlap, where
`repeat_resched` starts over what another launcher may still be doing.  Without overlap the
order is part of `LscPipeline`, repeated commands included.

## 5. Not modelled

History, layout, forms, the file explorer: no decision depends on them.  `delete()`
of a command or a row is called by the unit tests only, and no page edits a
command that exists.  The rest of `lrsd`: registration, inventory and logs append to
files or start scripts, and nothing is kept between packets.  The other commands of
the boot loader send a packet or print.  `image_fat`, `image_ntfs` and `image_ufs`
are stubs that refuse every partition.  `decompress.c`, a stand-alone variant
of `restore` for one file.  User interfaces and command lines.

Nearly all of the C in the repository is third-party: GRUB, busybox, e2fsprogs,
reiserfsprogs, zlib, lvm2, pump, network drivers.  The models cover the program's own
logic, which is a few thousand lines of C, shell and PHP, and so a small share of
all lines.

## 6. Plan

Done: `LscRow`, `LscLauncher`, `LscPipeline`, `LscDispatch`; `ImageFormat`, `ImageBitmap`,
`ImageCopy`, `RevImage`, `RevoGet`, `AutoSave`; `LrsdBarrier`; their runs; a theorem for every
invariant the passing runs check and for the three refinements.  What could follow:

1. the starvation of newer rows by `Hopeless` ones, with a bound on the rows per pass;
2. the blocking read of `lrsd` (`lrsd.c:572`), the one hazard listed that no property covers.
