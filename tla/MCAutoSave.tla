------------------------------- MODULE MCAutoSave -------------------------------
EXTENDS AutoSave, TLC

disk(d, size) == [is |-> "disk", disk |-> d, num |-> 0, start |-> 0, size |-> size,
                  type |-> "none", fs |-> "none", opens |-> TRUE, ldm |-> <<0, 0>>, known |-> TRUE,
                  on |-> {}]
part(d, num, start, size, type, fs) ==
  [disk(d, size) EXCEPT !.is = "part", !.num = num, !.start = start, !.type = type, !.fs = fs]
volume(v, num, size, fs, on) == [disk(v, size) EXCEPT !.is = "dm", !.num = num, !.fs = fs, !.on = on]

plain == [lines |-> <<>>, map |-> <<>>, has_hdmap |-> FALSE, exclude |-> {},
          revoraw |-> FALSE, present |-> FALSE, small |-> {}]

\* Primary, extended and logical partitions, one too small, one nobody can read,
\* one kept raw, one that does not open.
mixed == <<disk("a", 16), part("a", 1, 1, 3, "fs", "known"), part("a", 2, 4, 7, "extended", "none"),
           part("a", 5, 6, 2, "fs", "known"), part("a", 6, 9, 2, "fs", "none"),
           part("a", 3, 11, 1, "fs", "known"), part("a", 4, 12, 2, "diag", "none"),
           [part("a", 7, 14, 2, "fs", "known") EXCEPT !.opens = FALSE]>>

\* Two disks, the first managed by the logical disk manager.
two(s1, s2) == <<[disk("a", s1) EXCEPT !.ldm = <<s1 - 2, 2>>], part("a", 1, 1, 3, "fs", "known"),
                 disk("b", s2), part("b", 1, 1, 3, "fs", "known"), part("b", 2, 4, 2, "fs", "known")>>

\* A physical volume of LVM and three volumes on it, one that nobody can read and one
\* that is too small.
pv == part("a", 2, 4, 3, "8e", "lvm")
lvm == <<disk("a", 8), part("a", 1, 1, 3, "fs", "known"), pv,
         volume("v", 0, 3, "known", {pv}), volume("w", 1, 2, "none", {pv}),
         volume("x", 2, 1, "known", {pv})>>

\* A volume on a partition image_lvmreiserfs can read, and one on a whole disk.
reiser == part("a", 1, 1, 3, "8e", "known")
below == <<disk("a", 4), reiser, disk("b", 4),
           volume("v", 0, 2, "known", {reiser}), volume("w", 1, 2, "known", {disk("b", 4)})>>

\* An IDE disk with a seventeenth partition.
ide == <<disk("a", 16), part("a", 1, 1, 3, "fs", "known"), part("a", 5, 5, 2, "fs", "known"),
         part("a", 16, 8, 2, "fs", "known"), part("a", 17, 11, 2, "fs", "known")>>

\* A disk autorestore does not count, between two it does.
three == <<disk("a", 6), part("a", 1, 1, 3, "fs", "known"), [disk("c", 3) EXCEPT !.known = FALSE],
           disk("b", 8), part("b", 1, 1, 3, "fs", "known")>>

hdmap2(x, y) == [plain EXCEPT !.has_hdmap = TRUE, !.map = (0 :> x) @@ (1 :> y)]

MCMachines ==
  UNION {{[m EXCEPT !.revoraw = r, !.exclude = e, !.small = t] :
            r \in BOOLEAN, e \in {{}, {<<0, 1>>}, {<<1, 0>>}}, t \in {{}, {"b"}}} :
         m \in {[plain EXCEPT !.lines = mixed], [plain EXCEPT !.lines = two(6, 8)],
                [plain EXCEPT !.lines = lvm], [plain EXCEPT !.lines = below],
                [plain EXCEPT !.lines = ide], [plain EXCEPT !.lines = three],
                [hdmap2(8, 8) EXCEPT !.lines = two(8, 8)],
                [hdmap2(9, 6) EXCEPT !.lines = two(6, 8)],
                [hdmap2(9, 6) EXCEPT !.lines = three]}}
  \union {[plain EXCEPT !.lines = lvm, !.present = TRUE]}
================================================================================
