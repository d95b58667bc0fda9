-------------------------------- MODULE RevoGet --------------------------------
(***************************************************************************)
(* The boot loader restores a partition over TFTP (src_revoboot/           *)
(* builtins_lbs.c).  partcopy_func calls new_get for every block file of   *)
(* the image; new_get is one loop that receives packets into a pool of     *)
(* NB_BUF buffers, moves INBUFF bytes at a time into the input of inflate, *)
(* inflates into one output buffer and writes that buffer to the disk,     *)
(* stepping over the sectors the bitmap calls unused.  Whatever goes wrong *)
(* (a packet lost, repeated or out of turn, a zlib error, ten seconds of   *)
(* silence) it starts the block file again on another UDP port.            *)
(*                                                                         *)
(* One pass of new_get's inner loop is a turn, then a poll of the network. *)
(* The TFTP server and the network are external.  A unit of a compressed   *)
(* file is the part of it that inflates to the header or to one sector; a  *)
(* damaged one, and all that comes after it, inflates to anything.  Two    *)
(* things are taken not to happen: damage the checksum at the end of the   *)
(* stream does not show, and damage that spells a keyword the header does  *)
(* not have.                                                               *)
(***************************************************************************)
EXTENDS ImageFormat, FiniteSetsExt

CONSTANTS Start,      \* the sector of the disk where the volume begins
          Volumes,    \* the images to restore
          Missing,    \* block files that may be missing on the server
          DiskSize,   \* buf_geom.total_sectors
          TFTPBLOCK,  \* units per packet: 1456 bytes
          INBUFF,     \* units moved to inflate at a time: 8192 bytes
          NB_BUF,     \* packet buffers: 10
          PORTS,      \* UDP ports used in turn: 128
          Life,       \* requests a packet or a session of the server outlives
          Misread,    \* what a number in a damaged header may read
          MaxFaults   \* packets lost, repeated, resent or damaged, early timeouts
                      \* and write errors

ASSUME GetAssumption == /\ TFTPBLOCK \in Nat \ {0}
                        /\ INBUFF \in Nat \ {0}
                        /\ NB_BUF \in Nat \ {0}
                        /\ (NB_BUF - 1) * TFTPBLOCK + 1 >= INBUFF
                        /\ PORTS \in Nat \ {0, 1} /\ Life \in 0 .. PORTS - 1
                        /\ Misread \subseteq Nat
                        /\ Start \in Nat /\ DiskSize \in Nat /\ MaxFaults \in Nat

\* The bitmap of an image has a byte and no bit after its last.
ASSUME VolumeAssumption ==
  \A v \in Volumes : v.lg \in Nat \ {0} /\ v.used \subseteq 0 .. v.lg * Byte - 1

VARIABLES
  file,        \* partcopy_func: i, the block file being restored
  files,       \* how many there are; 1 until the first header is read
  curr,        \* new_get: in_sect, where the block file starts on the disk
  pc,          \* where the client is
  tftpport, lastblk, tftpend, end,
  open,        \* UDP is open: fatal() closes it in the middle of a transfer
  tbuf,        \* the units in the list of received buffers, first .. last
  compressed,  \* input of inflate not consumed yet (compressed_full: not empty)
  seen,        \* units inflated since the request
  sum,         \* the output so far is what the checksum at the end will confirm
  out, full,   \* the output buffer, and dbuf.full
  firstblock,
  alloc,       \* the bits set in alloc[] and the block file they are of, or NoTable
  sectptr,     \* bits of it passed (sectptr and sectmask)
  save_sect,
  disk,
  told,        \* in this transfer a sector was not written, with a message
  holed,       \* new_get returned 0 after such a transfer
  hurt,        \* damaged data was inflated, in any transfer
  image, gone, \* the volume on the server, its missing block files
  toServer, toClient, \* packets in flight
  session,     \* TFTP server: per client port, the file and the last block sent
  faults

place == <<file, files, curr>>
link == <<tftpport, lastblk, tftpend, open>>
stream == <<end, compressed, seen, sum, out, full, hurt>>
writer == <<firstblock, alloc, sectptr, save_sect, disk, told>>
getVars == <<pc, place, link, tbuf, stream, writer, holed>>
netVars == <<toServer, toClient, session, faults>>
imageVars == <<image, gone>>
vars == <<getVars, netVars, imageVars>>

Old == -1            \* a sector of the disk never written
Garbage == -2        \* one written with what a damaged packet inflated to

WORD == 65536        \* a block number has 16 bits

Ports == 0 .. PORTS - 1
NoSession == [file |-> -1, block |-> -1]
Junk == [unit |-> [file |-> -1, is |-> "bad", data |-> Garbage], k |-> 0]
NoTable == [of |-> -1, bits |-> {}]

\* The packets of block file f: the last is the first that is not full.
Packets(f) == Len(Stream(image, f)) \div TFTPBLOCK + 1
Units(f, b) ==
  LET s == Stream(image, f)
      first == (b - 1) * TFTPBLOCK
  IN  [j \in 1 .. Min({TFTPBLOCK, Len(s) - first}) |->
         [unit |-> s[first + j], k |-> first + j]]

Oack(p) == [port |-> p, op |-> "OACK", block |-> 0, data |-> <<>>]
Data(p, f, b) == [port |-> p, op |-> "DATA", block |-> b % WORD, data |-> Units(f, b)]
NotFound(p) == [port |-> p, op |-> "ERR", block |-> 0, data |-> <<>>]
Rrq(p, f) == [port |-> p, op |-> "RRQ", file |-> f, block |-> 0]
Ack(p, b) == [port |-> p, op |-> "ACK", file |-> -1, block |-> b % WORD]
Abort(p) == [port |-> p, op |-> "ERR", file |-> -1, block |-> 0]

Init ==
  /\ image \in Volumes
  /\ gone \in {{}, Missing}
  /\ file = 0 /\ files = 1 /\ curr = Start
  /\ pc = "restart"
  /\ tftpport = PORTS - 2
  /\ lastblk = -1 /\ tftpend = FALSE /\ end = 0 /\ open = FALSE
  /\ tbuf = <<>> /\ compressed = <<>> /\ seen = 0 /\ sum = TRUE
  /\ out = <<>> /\ full = FALSE
  /\ firstblock = TRUE /\ alloc = NoTable
  /\ sectptr = 0 /\ save_sect = Start
  /\ disk = [d \in 0 .. DiskSize - 1 |-> Old]
  /\ told = FALSE /\ holed = FALSE /\ hurt = FALSE
  /\ toServer = {} /\ toClient = {}
  /\ session = [p \in Ports |-> NoSession]
  /\ faults = 0
--------------------------------------------------------------------------------
\* The label restart: everything but the place on the disk is forgotten, and the
\* file is asked for on the next port.
NextPort_late == IF tftpport + 1 > PORTS THEN 0 ELSE tftpport + 1

NextPort_same == tftpport

NextPort == IF tftpport + 1 > PORTS - 1 THEN 0 ELSE tftpport + 1

Sector_kept == save_sect
Sector == curr

Forget ==
  /\ lastblk' = -1 /\ tftpend' = FALSE /\ end' = 0
  /\ tbuf' = <<>> /\ compressed' = <<>> /\ seen' = 0 /\ sum' = TRUE
  /\ out' = <<>> /\ full' = FALSE
  /\ firstblock' = TRUE /\ sectptr' = 0 /\ save_sect' = Sector

\* What is left of earlier requests when another is made (external): packets and
\* sessions of the last Life of them, those of ports closer than that.
Left(p) == (tftpport - p) % PORTS < Life

Request ==
  /\ pc = "restart"
  /\ tftpport' = NextPort
  /\ Forget
  /\ open' = TRUE /\ told' = FALSE
  /\ toServer' = {m \in toServer : Left(m.port)} \union {Rrq(tftpport', file)}
  /\ toClient' = {m \in toClient : Left(m.port)}
  /\ session' = [p \in Ports |-> IF Left(p) THEN session[p] ELSE NoSession]
  /\ pc' = "turn"
  /\ UNCHANGED <<place, alloc, disk, holed, hurt, faults, imageVars>>

\* "goto restart", with or without an error packet to the server.  It is not sent
\* when UDP is closed, and before the server has answered it goes to port 69, where
\* nobody heeds it.
Restart(sendERR) ==
  /\ pc' = "restart"
  /\ toServer' = IF sendERR /\ open /\ lastblk # -1
                 THEN toServer \union {Abort(tftpport)} ELSE toServer
  /\ UNCHANGED <<place, link, tbuf, stream, writer, holed, session>>
--------------------------------------------------------------------------------
\* The turn's four branches, in the order the code tries them.
tot_lg == Len(tbuf)

CanInflate == ~full /\ compressed # <<>> /\ end = 0
CanGulp_full_only == ~full /\ compressed = <<>> /\ tot_lg >= INBUFF

CanGulp == /\ ~full /\ compressed = <<>>
           /\ tot_lg >= INBUFF \/ (tftpend /\ tot_lg > 0)
Work == full \/ CanInflate \/ CanGulp

Emptied_unended == full' = FALSE /\ out' = <<>> /\ end' = end

\* A full buffer is emptied; the one filled by the end of the stream ends the loop.
Emptied == /\ full' = FALSE
           /\ out' = <<>>
           /\ end' = IF end = 1 THEN 2 ELSE end

\* Keywords of the header of block file f, ALLOCTABLELG= and BLOCKS=; the first
\* file's only says how many files there are.
val_ALLOCTABLELG(f) == Lg(image, f)
exist_BLOCKS(f) == f = 0

\* The first buffer is the header and the bitmap, used before any checksum: one that
\* is damaged gives any bitmap and any numbers.
FlushHeader ==
  LET f == out[1].unit.file
  IN  /\ pc = "turn" /\ full /\ firstblock
      /\ \/ /\ out[1].unit.is = "header"
            /\ alloc' = [of |-> f, bits |-> {s - FirstOf(f) : s \in UsedIn(image, f)}]
            /\ save_sect' = save_sect + val_ALLOCTABLELG(f) * Byte
            /\ files' = IF exist_BLOCKS(f) THEN Blocks(image) ELSE files
         \/ /\ out[1].unit.is = "bad"
            /\ alloc' = NoTable
            /\ \E n \in Misread : save_sect' = save_sect + n * Byte
            /\ files' \in {files} \union (IF exist_BLOCKS(file) THEN Misread ELSE {})
      /\ firstblock' = FALSE
      /\ sectptr' = 0
      /\ Emptied
      /\ pc' = "poll"
      /\ UNCHANGED <<file, curr, link, tbuf, compressed, seen, sum, disk, told, holed, hurt,
                     netVars, imageVars>>

\* The bits from sectptr on, and the place on the disk of the j-th of them.
Ahead == alloc.bits \ 0 .. sectptr - 1
Place(j) == curr + Kth(Ahead, j)

\* Where sectors go for which there is no bit: a damaged bitmap may have any, and
\* when damage gave more sectors than there are bits the scan runs over the end of
\* alloc[].
Astray == {d \in DOMAIN disk : d - curr >= IF alloc = NoTable THEN 0 ELSE ALLOCLG * Byte}

\* A buffer is written, each sector to the place of the next bit.  Sectors after the
\* end of the disk and those of a failed write are not written, with a message:
\* fatal() closes UDP and getkey waits.  What did not fit before the end of the disk
\* is tried again with the bits that follow; sect is past the end by then, and no
\* sector is written any more before the file is begun again.
FlushData ==
  LET n == Len(out)
      k == Min({n, Cardinality(Ahead)})
      fit == {j \in 1 .. k : Place(j) < DiskSize}
  IN  /\ pc = "turn" /\ full /\ ~firstblock
      /\ \E lost \in SUBSET fit :
         \E far \in SUBSET Astray :
           LET at(d) == {j \in fit \ lost : Place(j) = d}
               wrong == lost # {} \/ fit # 1 .. k \/ Cardinality(far) < n - k
           IN  /\ IF lost = {} THEN UNCHANGED faults
                  ELSE faults < MaxFaults /\ faults' = faults + 1
               /\ Cardinality(far) <= n - k
               /\ disk' = [d \in DOMAIN disk |->
                            IF at(d) # {} THEN out[CHOOSE j \in at(d) : TRUE].unit.data
                            ELSE IF d \in far THEN Garbage ELSE disk[d]]
               /\ told' = (told \/ wrong)
               /\ open' = (open /\ ~wrong)
               /\ pc' = IF wrong THEN "key" ELSE "poll"
      /\ sectptr' = IF n > k THEN ALLOCLG * Byte
                    ELSE IF n = 0 THEN sectptr ELSE Kth(Ahead, n) + 1
      /\ Emptied
      /\ UNCHANGED <<place, tftpport, lastblk, tftpend, tbuf, compressed, seen, sum,
                     firstblock, alloc, save_sect, holed, hurt, toServer, toClient, session,
                     imageVars>>

\* The key getkey waited for.
Key ==
  /\ pc = "key"
  /\ pc' = "poll"
  /\ UNCHANGED <<place, link, tbuf, stream, writer, holed, netVars, imageVars>>

\* What inflate can take of an undamaged stream: the header fills the output buffer,
\* TOTALLG sectors do.  It may or may not go on to the end of the stream when the
\* buffer is full.
Room == TOTALLG - Len(out)
Takes == {n \in 1 .. Len(compressed) :
            \/ n = 1 /\ compressed[1].unit.is \in {"header", "end"}
            \/ /\ \A j \in 1 .. n - 1 : compressed[j].unit.is = "sector"
               /\ \/ /\ compressed[n].unit.is = "sector"
                     /\ n = Room \/ (n < Room /\ n = Len(compressed))
                  \/ compressed[n].unit.is = "end" /\ n - 1 <= Room}

\* The unit continues the stream inflated so far.
Sound(j) == /\ compressed[j].unit.is # "bad"
            /\ compressed[j].k = seen + j
            /\ seen > 0 => compressed[j].unit.file = alloc.of

Inflate ==
  /\ pc = "turn" /\ CanInflate /\ sum
  /\ \E n \in Takes :
       LET ends == compressed[n].unit.is = "end"
           m == IF ends THEN n - 1 ELSE n
       IN  /\ \A j \in 1 .. n : Sound(j)
           /\ out' = out \o SubSeq(compressed, 1, m)
           /\ full' = (ends \/ compressed[1].unit.is = "header" \/ Len(out') = TOTALLG)
           /\ end' = IF ends THEN 1 ELSE end
           /\ compressed' = SubSeq(compressed, n + 1, Len(compressed))
           /\ seen' = seen + n
  /\ pc' = "poll"
  /\ UNCHANGED <<place, link, tbuf, sum, hurt, writer, holed, netVars, imageVars>>

\* The units inflated before the first damaged one.
Whole == IF ~sum THEN 0
         ELSE Max({n \in 0 .. Len(compressed) : \A j \in 1 .. n : Sound(j)})
Damaged == Whole < Len(compressed) /\ (firstblock => Whole = 0) /\ Whole < Room

\* A damaged stream inflates to whatever it likes until there is an error; the first
\* buffer of it is taken for the header.
InflateDamaged ==
  /\ pc = "turn" /\ CanInflate /\ Damaged
  /\ \E n \in Whole + 1 .. Len(compressed) :
       /\ IF firstblock THEN out' \in {<<>>, <<Junk>>}
          ELSE \E m \in Whole .. Room :
                 out' = out \o [j \in 1 .. m |-> IF j <= Whole THEN compressed[j] ELSE Junk]
       /\ full' = (Len(out') = IF firstblock THEN 1 ELSE TOTALLG)
       /\ full' \/ n = Len(compressed)
       /\ compressed' = SubSeq(compressed, n + 1, Len(compressed))
       /\ seen' = seen + n
  /\ sum' = FALSE /\ hurt' = TRUE
  /\ pc' = "poll"
  /\ UNCHANGED <<place, link, tbuf, end, writer, holed, netVars, imageVars>>

\* The error, at once or later.
ZlibError ==
  /\ pc = "turn" /\ CanInflate /\ Damaged
  /\ Restart(TRUE)
  /\ UNCHANGED <<toClient, faults, imageVars>>

\* Move INBUFF units, or what is left, from the list to inflate's input.
Gulp ==
  LET n == Min({INBUFF, tot_lg})
  IN  /\ pc = "turn" /\ CanGulp
      /\ compressed' = SubSeq(tbuf, 1, n)
      /\ tbuf' = SubSeq(tbuf, n + 1, tot_lg)
      /\ pc' = "poll"
      /\ UNCHANGED <<place, link, end, seen, sum, out, full, hurt, writer, holed,
                     netVars, imageVars>>

NoWork == /\ pc = "turn" /\ ~Work
          /\ pc' = "poll"
          /\ UNCHANGED <<place, link, tbuf, stream, writer, holed, netVars, imageVars>>
--------------------------------------------------------------------------------
\* The poll.  A buffer is in use as long as a unit of its packet is in the list.
InUse == Cardinality({(tbuf[j].k - 1) \div TFTPBLOCK : j \in DOMAIN tbuf})
get_empty == InUse < NB_BUF

\* Nothing to receive, or nowhere to put it: another turn.  A turn with no work
\* changes nothing and is left out.
NoPacket ==
  /\ pc = "poll" /\ Work
  /\ full \/ ~get_empty \/ ~tftpend \/ end # 2
  /\ pc' = "turn"
  /\ UNCHANGED <<place, link, tbuf, stream, writer, holed, netVars, imageVars>>

\* The outer loop ends on "end", once the last packet is there.
Returns ==
  /\ pc = "poll" /\ ~full /\ get_empty /\ tftpend /\ end = 2
  /\ pc' = "return"
  /\ UNCHANGED <<place, link, tbuf, stream, writer, holed, netVars, imageVars>>

\* udp_get returns a packet sent to the port of this transfer; a fault of the
\* network leaves a copy of it in flight.
Arrives(m) ==
  /\ pc = "poll" /\ ~full /\ get_empty /\ ~tftpend /\ open
  /\ m \in toClient /\ m.port = tftpport
  /\ \/ toClient' = toClient \ {m} /\ UNCHANGED faults
     \/ faults < MaxFaults /\ faults' = faults + 1 /\ UNCHANGED toClient

AfterPacket == IF end = 2 THEN "return" ELSE "turn"

ReceiveOack ==
  \E m \in toClient :
    /\ Arrives(m) /\ m.op = "OACK" /\ lastblk = -1
    /\ lastblk' = 0
    /\ toServer' = toServer \union {Ack(tftpport, 0)}
    /\ pc' = AfterPacket
    /\ UNCHANGED <<place, tftpport, tftpend, open, tbuf, stream, writer, holed, session,
                   imageVars>>

ReceiveData ==
  \E m \in toClient :
    /\ Arrives(m) /\ m.op = "DATA" /\ m.block = lastblk + 1
    /\ lastblk' = m.block
    /\ toServer' = toServer \union {Ack(tftpport, m.block)}
    /\ tbuf' = tbuf \o m.data
    /\ tftpend' = (Len(m.data) < TFTPBLOCK)
    /\ pc' = AfterPacket
    /\ UNCHANGED <<place, tftpport, open, stream, writer, holed, session, imageVars>>

\* A second OACK or a packet out of turn aborts the transfer, the packet just
\* received once more abandons it without a word; both begin again.
ReceiveWrong ==
  \E m \in toClient :
    /\ Arrives(m)
    /\ \/ m.op = "OACK" /\ lastblk # -1
       \/ m.op = "DATA" /\ m.block # lastblk + 1
    /\ Restart(m.op = "OACK" \/ m.block # lastblk)
    /\ UNCHANGED imageVars

ReceiveNotFound ==
  \E m \in toClient :
    /\ Arrives(m) /\ m.op = "ERR"
    /\ pc' = "failed"
    /\ UNCHANGED <<place, link, tbuf, stream, writer, holed, toServer, session, imageVars>>

\* Ten seconds without a packet: none is on its way or wanted, UDP is closed, or the
\* disk was slow (the seconds are counted while it writes, too).
Timeout ==
  /\ pc = "poll"
  /\ \/ /\ ~Work /\ ~(tftpend /\ end = 2)
        /\ tftpend \/ ~open \/ \A m \in toClient \union toServer : m.port # tftpport
        /\ UNCHANGED faults
     \/ faults < MaxFaults /\ faults' = faults + 1
  /\ Restart(TRUE)
  /\ UNCHANGED <<toClient, imageVars>>

Curr_in_place == curr
Curr == save_sect

\* partcopy_func goes on with the next block file after the sectors of this one.
NextFile ==
  /\ pc = "return"
  /\ curr' = Curr
  /\ file' = file + 1
  /\ holed' = (holed \/ told)
  /\ pc' = IF file' < files THEN "restart" ELSE "done"
  /\ UNCHANGED <<files, link, tbuf, stream, writer, netVars, imageVars>>
--------------------------------------------------------------------------------
\* The TFTP server (external): answers a request or an acknowledgement, ends the
\* session on an error packet, sends its last packet again when it waited too long.
Reply(p, s) == IF s.block = 0 THEN Oack(p) ELSE Data(p, s.file, s.block)

Serve ==
  \E m \in toServer :
    LET s == CASE m.op = "RRQ" /\ m.file \notin gone -> [file |-> m.file, block |-> 0]
               [] m.op = "ACK" /\ session[m.port].block = m.block
                    /\ m.block < Packets(session[m.port].file) ->
                    [session[m.port] EXCEPT !.block = m.block + 1]
               [] OTHER -> NoSession
    IN  /\ toServer' = toServer \ {m}
        /\ session' = [session EXCEPT ![m.port] = s]
        /\ toClient' = toClient \union
             (IF s # NoSession THEN {Reply(m.port, s)}
              ELSE IF m.op = "RRQ" THEN {NotFound(m.port)} ELSE {})
        /\ UNCHANGED <<getVars, faults, imageVars>>

Resend ==
  /\ session[tftpport] # NoSession
  /\ faults < MaxFaults /\ faults' = faults + 1
  /\ toClient' = toClient \union {Reply(tftpport, session[tftpport])}
  /\ UNCHANGED <<getVars, toServer, session, imageVars>>

\* The network (external) loses a packet, or damages some of what it carries.  To
\* lose a packet to or from a port the client has left is to leave it on its way.
Lose ==
  /\ faults < MaxFaults /\ faults' = faults + 1
  /\ \E m \in toServer \union toClient :
       /\ m.port = tftpport
       /\ toServer' = toServer \ {m}
       /\ toClient' = toClient \ {m}
  /\ UNCHANGED <<getVars, session, imageVars>>

Damage ==
  /\ faults < MaxFaults /\ faults' = faults + 1
  /\ \E m \in toClient : \E j \in DOMAIN m.data :
       /\ m.port = tftpport
       /\ toClient' = (toClient \ {m}) \union {[m EXCEPT !.data[j].unit.is = "bad"]}
  /\ UNCHANGED <<getVars, toServer, session, imageVars>>

Finished == pc \in {"done", "failed"} /\ UNCHANGED vars

Client == \/ Request \/ FlushHeader \/ FlushData \/ Inflate \/ InflateDamaged
          \/ ZlibError \/ Gulp
          \/ NoWork \/ NoPacket \/ Returns \/ ReceiveOack \/ ReceiveData
          \/ ReceiveWrong \/ ReceiveNotFound \/ Timeout \/ NextFile

Next == Client \/ Key \/ Serve \/ Resend \/ Lose \/ Damage \/ Finished

Spec == Init /\ [][Next]_vars

\* The client's loop never stops turning and the server answers what it gets: one
\* of them goes on as long as one of them can.  Nobody has to press a key.
FairSpec == Spec /\ WF_vars(Client \/ Serve)
--------------------------------------------------------------------------------
Copy == INSTANCE ImageCopy
          WITH volume <- image, target <- disk, next <- file,
               verdict <- IF holed THEN "failed"
                          ELSE IF pc \in {"done", "failed"} THEN pc ELSE "busy"

\* The client's counters and buffers keep to their sizes (builtins_lbs.c 95-123).
TypeOK ==
  /\ file \in 0 .. Blocks(image) /\ files \in Misread \union 1 .. Blocks(image)
  /\ pc \in {"restart", "turn", "key", "poll", "return", "done", "failed"}
  /\ tftpport \in Ports /\ lastblk \in -1 .. WORD - 1
  /\ tftpend \in BOOLEAN /\ end \in 0 .. 2 /\ full \in BOOLEAN
  /\ {firstblock, sum, open, told, holed, hurt} \subseteq BOOLEAN
  /\ Len(compressed) <= INBUFF /\ Len(out) <= TOTALLG
  /\ sectptr \in 0 .. ALLOCLG * Byte
  /\ DOMAIN disk = 0 .. DiskSize - 1
  /\ faults \in 0 .. MaxFaults

\* What reaches the client on the port it uses is of the block file it asked for,
\* also when the port was used before for another and packets, acknowledgements and
\* sessions of earlier requests are still about (builtins_lbs.c 644-648, 925).
Fresh ==
  pc \in {"turn", "key", "poll"} =>
    /\ \A m \in toClient : m.port = tftpport =>
         \A j \in DOMAIN m.data : m.data[j].unit.file = file
    /\ session[tftpport] # NoSession => session[tftpport].file = file

\* A restore that ends well has put every used sector of the volume at its place on
\* the disk, whatever was lost, repeated, damaged or timed out on the way, unless a
\* sector could not be written and the operator was told.  No other sector is
\* touched, but when damaged data was inflated: then none in front of the volume.
\* However often a block file is begun again, it is begun at its own place
\* (builtins_lbs.c 589-1036 and 471-497).
RestoredExactly ==
  /\ pc # "done" => curr = Start + FirstOf(file)
  /\ pc = "done" /\ ~holed =>
       \A s \in image.used : Start + s \in DOMAIN disk /\ disk[Start + s] = s
  /\ \A d \in DOMAIN disk :
       disk[d] # Old => d - Start \in image.used \/ (hurt /\ d >= Start)

\* Only the pool, the input and the output buffer can keep new_get from taking a
\* packet, and then it has work to do: it never waits for a packet it has no
\* buffer for, nor, of an undamaged stream, for more input after the last packet
\* (builtins_lbs.c 854-925).
NoStall ==
  pc = "poll" /\ (full \/ ~get_empty \/ (tftpend /\ sum)) => Work \/ end = 2

\* Every block file goes to the disk in order, complete before the next one begins,
\* and not even a damaged bitmap harms those before it (ImageCopy).
CopiesImage == Copy!CopySpec

\* When faults end (MaxFaults) the restore does, or it waits for a key.  On a disk
\* too small for the volume it may begin a block file again for ever.
Ends == (\A s \in image.used : Start + s < DiskSize)
          => <>[](pc \in {"done", "failed", "key"})
================================================================================
