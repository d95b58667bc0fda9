------------------------------- MODULE ImageCopy -------------------------------
(***************************************************************************)
(* What a restore promises: the block files reach the disk one after the   *)
(* other; while one is being restored only the sectors it describes are    *)
(* written; the next one starts when each of them holds its own contents;  *)
(* and success is reported after the last.  A restore may write a sector   *)
(* several times (it retries a block file from the start), garbage first   *)
(* (the checksum of a zlib stream comes at its end).  It may fail, saying  *)
(* so, and then promises nothing about the disk any more.  Damage to what  *)
(* is received may also damage the bitmap, which is used before the        *)
(* checksum is seen: then sectors after the place of the block file may be *)
(* written, never one before it.                                           *)
(***************************************************************************)
EXTENDS ImageFormat

CONSTANT Start       \* the sector of the disk where the volume begins

VARIABLES volume,    \* the volume in the image
          target,    \* the disk: per sector, the sector of the volume it holds, or Old
          next,      \* block files restored
          hurt,      \* damaged data has been used
          verdict    \* "busy", "done", "failed"

Old == -1            \* never written

copyVars == <<volume, target, next, hurt, verdict>>

Restored(f) == \A s \in UsedIn(volume, f) : Start + s \in DOMAIN target /\ target[Start + s] = s

CopyInit == /\ \A d \in DOMAIN target : target[d] = Old
            /\ next = 0 /\ hurt = FALSE
            /\ verdict = "busy"

\* Write some sectors of the current block file; from damaged data, others after
\* them, too.
WriteSome ==
  /\ verdict = "busy"
  /\ DOMAIN target' = DOMAIN target
  /\ hurt' \in {hurt, TRUE}
  /\ \A d \in DOMAIN target : target'[d] # target[d] =>
       \/ d - Start \in UsedIn(volume, next)
       \/ hurt' /\ d - Start >= FirstOf(next)
  /\ UNCHANGED <<volume, next, verdict>>

FinishFile ==
  /\ verdict = "busy"
  /\ next < Blocks(volume)
  /\ Restored(next)
  /\ next' = next + 1
  /\ verdict' = IF next' = Blocks(volume) THEN "done" ELSE "busy"
  /\ UNCHANGED <<volume, target, hurt>>

Fail == /\ verdict' = "failed"
        /\ volume' = volume

CopyNext == WriteSome \/ FinishFile \/ Fail

CopySpec == CopyInit /\ [][CopyNext]_copyVars
================================================================================
