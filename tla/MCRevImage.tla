------------------------------- MODULE MCRevImage -------------------------------
EXTENDS RevImage, TLC

\* An allocation group whose ring of free blocks wraps round (slots 2 and 0), one
\* with two leaves of free extents and an empty ring, and one that needs it all.
ring == [flcount |-> 2, flfirst |-> 2, fllast |-> 0,
         bno |-> [i \in 0 .. 2 |-> (i + 2) % 3], leaves |-> {}]
tree == [flcount |-> 0, flfirst |-> 0, fllast |-> 2, bno |-> [i \in 0 .. 2 |-> i],
         leaves |-> {{[start |-> 0, count |-> 1]}, {[start |-> 2, count |-> 1]}}]

xfs(fdblocks) == [is |-> "xfs", blocks |-> 6, agblocks |-> 3, fdblocks |-> fdblocks,
                  ags |-> (0 :> ring) @@ (1 :> tree)]

\* One partition or two per image_* program, of one to three block files each; the
\* second xfs is one image_xfs refuses.
MCFileSystems ==
  {[is |-> "raw", size |-> 5], [is |-> "swap"], [is |-> "lvm", size |-> 6],
   [is |-> "rfs", blocks |-> 3, off |-> 3, map |-> {0, 2}, lvm_sect |-> 0],
   [is |-> "e2fs", blocks |-> 8, first |-> 1, per_group |-> 4, nbsect |-> 1, map |-> {1, 4, 6}],
   [is |-> "e2fs", blocks |-> 3, first |-> 0, per_group |-> 4, nbsect |-> 2, map |-> {0, 2}],
   xfs(4), xfs(3)}

\* A damaged bitmap that says too little, and one that says the slice is full.
MCMisbits == {{1}, 0 .. 3}

\* A raw partition that fills its last byte of bitmap.
MCRawMultiple == {[is |-> "raw", size |-> 4]}
================================================================================
