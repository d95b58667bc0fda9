----------------------------- MODULE AutoSaveProofs -----------------------------
(***************************************************************************)
(* Saving a machine and restoring it, for every machine: TypeOK, OwnName,  *)
(* Accounted and RestoredHome of AutoSave.                                 *)
(*                                                                         *)
(* The predicates are about a table of lines ls of which the first k are   *)
(* read, ?TABS files tb, images im and commands cs, so that a step only    *)
(* changes their arguments.                                                *)
(***************************************************************************)
EXTENDS AutoSave, FiniteSetTheorems, SequenceTheorems, WellFoundedInduction, TLAPS

\* tb[n] holds a sector of disk d.
Holds(tb, n, d) == n \in DOMAIN tb /\ \E w \in Range(tb[n]) : w[2][1] = d

\* Every file is about one disk.
Separate(tb) == \A n \in DOMAIN tb : \A v, w \in Range(tb[n]) : v[2][1] = w[2][1]

\* Every entry is a sector of a disk that was read, at its own place.
Entry(ls, i, w) == /\ ls[i].is = "disk" /\ ls[i].opens
                   /\ w[2] = <<ls[i].disk, w[1]>> /\ w[1] \in 0 .. ls[i].size - 1
Tables(ls, k, tb) ==
  \A n \in DOMAIN tb :
    /\ n \in 0 .. Numbers - 1 + k
    /\ tb[n] \in Seq(Range(tb[n])) /\ Range(tb[n]) # {}
    /\ \A w \in Range(tb[n]) : \E i \in 1 .. k : Entry(ls, i, w)

\* As long as only partitions follow a disk, dn is the number of this disk.
Current(ls, k, tb, dn) ==
  \A i \in 1 .. k : ls[i].is = "disk" /\ ls[i].opens /\ (\A j \in i + 1 .. k : ls[j].is = "part")
                      => Holds(tb, dn, ls[i].disk)

\* hd, num is what line i is called in a command or an image's name.
Made(ls, i, tb, hd, num) ==
  /\ ls[i].opens
  /\ \/ ls[i].is = "part" /\ num = poff(ls[i]) /\ Holds(tb, hd, ls[i].disk)
     \/ ls[i].is = "dm" /\ num = 0 /\ hd = Volume0 + ls[i].num

Partcopied(ls, i, tb, c) ==
  /\ c.op = "partcopy" /\ Made(ls, i, tb, c.hd, c.num) /\ c.sect = ls[i].start
  /\ ls[i].is = "dm" => c.dev = ls[i].disk
Commands(ls, k, tb, cs) ==
  \A i \in DOMAIN cs : \/ cs[i].op = "ptabs" /\ cs[i].hd \in DOMAIN tb
                       \/ \E j \in 1 .. k : Partcopied(ls, j, tb, cs[i])

Images(ls, k, tb, im) ==
  \A x \in DOMAIN im : \E i \in 1 .. k : /\ x = <<x[1], x[2]>> /\ Made(ls, i, tb, x[1], x[2])
                                         /\ im[x].of = ls[i]

\* Every file and every image has a command.
Ordered(tb, im, cs) ==
  /\ \A n \in DOMAIN tb : \E i \in DOMAIN cs : cs[i].op = "ptabs" /\ cs[i].hd = n
  /\ \A x \in DOMAIN im : \E i \in DOMAIN cs :
       cs[i].op = "partcopy" /\ cs[i].hd = x[1] /\ cs[i].num = x[2]

\* No two commands have one name, but those of partitions that have the same four
\* bits.
Twins(ls, c, d) == \E l, m \in Range(ls) : Alike(l, m) /\ l.start = c.sect /\ m.start = d.sect
Distinct(ls, cs) ==
  \A i, j \in DOMAIN cs : i # j /\ cs[i].op = cs[j].op /\ cs[i].hd = cs[j].hd
                            => /\ cs[i].op = "partcopy"
                               /\ cs[i].num = cs[j].num => Twins(ls, cs[i], cs[j])
Own(ls, tb, cs) == Separate(tb) => Distinct(ls, cs)

\* The disks of a size not yet read, and the numbers hdmap has for them.
Unread(ls, k, s) == {l \in Range(ls) : /\ l.is = "disk" /\ l.opens /\ l.size = s
                                       /\ \A i \in 1 .. k : ls[i] # l}
FitsIn(hm, s) == {i \in DOMAIN hm : hm[i] \in {s, s + 1}}
Enough(m, k, hm) ==
  \A l \in Range(m.lines) : l.is = "disk" /\ l.opens =>
    Cardinality(Unread(m.lines, k, l.size)) <= Cardinality(FitsIn(hm, l.size))

\* A number given to a disk is not given again, as long as hdmap lists the disks.
Numbered(m, k, hm, last, tb) ==
  Listed => /\ Separate(tb)
            /\ m.has_hdmap => /\ Enough(m, k, hm)
                              /\ \A n \in DOMAIN tb : n \in DOMAIN hm /\ hm[n] = Used
            /\ ~m.has_hdmap => \A n \in DOMAIN tb : n <= last

\* What became of a line that was read: im has it with an end, sh and di are the
\* lines shown and those whose program died.
Twin(ls, l) == \E k \in Range(ls) : Alike(l, k)
Ended(im) == {im[x].of : x \in {y \in DOMAIN im : im[y].ended}}
Settled(m, l, tb, im, sh, di, lvm) ==
  \/ NoData(l) \/ Twin(m.lines, l)
  \/ \E n \in DOMAIN tb : /\ Holds(tb, n, l.disk)
                          /\ {<<n, 0>>, <<n, poff(l)>>} \intersect m.exclude # {}
  \/ l.is = "dm" /\ ~lvm
  \/ l \in Ended(im)
  \/ l \in sh \/ l \in di
Passed(m, k, tb, im, sh, di, lvm) ==
  Separate(tb) => \A i \in 1 .. k : Settled(m, m.lines[i], tb, im, sh, di, lvm)

LvmKnown == \A x \in DOMAIN images : program(images[x].of) = "lvm" => should_backup_lvm

\* No image has more sectors than its program reads.
Sized == \A x \in DOMAIN images : images[x].got \in 0 .. Extent(images[x].of)

Basic ==
  /\ machine \in Machines
  /\ phase \in {"save", "refused", "restore", "stuck", "done"}
  /\ line \in 0 .. Len(machine.lines) /\ cmd \in 0 .. Len(conf)
  /\ lastnum \in -1 .. Numbers - 1 + line
  /\ should_backup_lvm \in BOOLEAN
  /\ conf \in Seq(Range(conf))
  /\ shown \subseteq Lines /\ died \subseteq Lines
  /\ DOMAIN hdmap = 0 .. Numbers - 1 /\ \A i \in DOMAIN hdmap : hdmap[i] \in Nat \union {Used}
  /\ phase \in {"save", "refused"} => DOMAIN target = {} /\ cmd = 0
  /\ phase \in {"restore", "stuck", "done"} => line = Len(machine.lines)
  /\ phase = "done" => cmd = Len(conf)

Kept == /\ Tables(machine.lines, line, tabs)
        /\ Current(machine.lines, line, tabs, dnum)
        /\ Commands(machine.lines, line, tabs, conf)
        /\ Images(machine.lines, line, tabs, images)
        /\ Ordered(tabs, images, conf)
        /\ Own(machine.lines, tabs, conf)
        /\ Numbered(machine, line, hdmap, lastnum, tabs)
        /\ Passed(machine, line, tabs, images, shown, died, should_backup_lvm)
        /\ LvmKnown /\ Sized

\* What the commands run so far have put back.
Back(im, tb, c, t) ==
  /\ c.op = "ptabs" => \A w \in Range(tb[c.hd]) : w[2] \in DOMAIN t
  /\ c.op = "partcopy" /\ <<c.hd, c.num>> \in DOMAIN im =>
       LET i == im[<<c.hd, c.num>>]
       IN  \A s \in i.of.start .. i.of.start + i.got - 1 : <<i.of.disk, s>> \in DOMAIN t
AtHome(ls, t) == \A x \in DOMAIN t : /\ t[x] = x
                                     /\ \E l \in Range(ls) : x[1] = l.disk /\ x[2] \in 0 .. l.start + l.size - 1
Restored == InOrder /\ Apart => /\ AtHome(machine.lines, target)
                                /\ \A i \in 1 .. cmd : Back(images, tabs, conf[i], target)

SaveInv == Basic /\ Kept /\ Restored

--------------------------------------------------------------------------------
(* Sequences and their ranges, least and greatest members.                  *)

LEMMA RangeMember ==
  ASSUME NEW f, NEW x \in DOMAIN f
  PROVE  f[x] \in Range(f)
  BY DEF Range

LEMMA RangeElement ==
  ASSUME NEW f, NEW y \in Range(f)
  PROVE  \E x \in DOMAIN f : y = f[x]
  BY DEF Range

LEMMA SeqLen ==
  ASSUME NEW s, s \in Seq(Range(s))
  PROVE  Len(s) \in Nat /\ DOMAIN s = 1 .. Len(s)
  BY LenProperties

\* Concatenation, by the members.
LEMMA RangeConcat ==
  ASSUME NEW s, NEW t, s \in Seq(Range(s)), t \in Seq(Range(t))
  PROVE  /\ s \o t \in Seq(Range(s \o t))
         /\ Range(s \o t) = Range(s) \union Range(t)
  <1> DEFINE S == Range(s) \union Range(t)
             u == s \o t
  <1>1. s \in Seq(S) /\ t \in Seq(S)
    BY SeqMonotonic
  <1>2. /\ u \in Seq(S) /\ Len(u) = Len(s) + Len(t)
        /\ \A i \in 1 .. Len(s) + Len(t) : u[i] = IF i <= Len(s) THEN s[i] ELSE t[i - Len(s)]
    BY <1>1, ConcatProperties
  <1>3. /\ Len(s) \in Nat /\ DOMAIN s = 1 .. Len(s)
        /\ Len(t) \in Nat /\ DOMAIN t = 1 .. Len(t)
    BY SeqLen
  <1>4. Len(u) \in Nat /\ DOMAIN u = 1 .. Len(u) /\ u \in [1 .. Len(u) -> S]
    BY <1>2, LenProperties
  <1> HIDE DEF u
  <1>5. \A i \in DOMAIN s : s[i] \in Range(u)
    <2> TAKE i \in DOMAIN s
    <2>1. i \in DOMAIN u /\ u[i] = s[i]
      BY <1>2, <1>3, <1>4
    <2>2. QED
      BY <2>1 DEF Range
  <1>6. \A i \in DOMAIN t : t[i] \in Range(u)
    <2> TAKE i \in DOMAIN t
    <2> DEFINE j == Len(s) + i
    <2>1. j \in DOMAIN u /\ ~(j <= Len(s)) /\ j - Len(s) = i
      BY <1>2, <1>3, <1>4
    <2>2. u[j] = t[i]
      BY <1>2, <1>4, <2>1
    <2>3. QED
      BY <2>1, <2>2 DEF Range
  <1>7. Range(u) = S
    <2>1. Range(u) \subseteq S
      BY <1>4 DEF Range
    <2>2. Range(s) \subseteq Range(u) /\ Range(t) \subseteq Range(u)
      BY <1>5, <1>6 DEF Range
    <2>3. QED
      BY <2>1, <2>2
  <1>8. QED
    BY <1>2, <1>7 DEF u

LEMMA RangeAppend ==
  ASSUME NEW s, NEW e, s \in Seq(Range(s))
  PROVE  /\ Append(s, e) \in Seq(Range(Append(s, e)))
         /\ Len(Append(s, e)) = Len(s) + 1
         /\ \A i \in 1 .. Len(s) : Append(s, e)[i] = s[i]
         /\ Append(s, e)[Len(s) + 1] = e
  <1> DEFINE S == Range(s) \union {e}
             u == Append(s, e)
  <1>1. s \in Seq(S) /\ e \in S
    BY SeqMonotonic
  <1>2. /\ u \in Seq(S) /\ Len(u) = Len(s) + 1
        /\ \A i \in 1 .. Len(s) : u[i] = s[i]
        /\ u[Len(s) + 1] = e
    BY <1>1
  <1>3. u \in [1 .. Len(u) -> S] /\ DOMAIN u = 1 .. Len(u) /\ Len(u) \in Nat
    BY <1>2, LenProperties
  <1> HIDE DEF u
  <1>4. \A i \in 1 .. Len(u) : u[i] \in Range(u)
    BY <1>3 DEF Range
  <1>5. u \in Seq(Range(u))
    BY <1>3, <1>4, SeqDef
  <1>6. QED
    BY <1>2, <1>5 DEF u

LEMMA Least ==
  ASSUME NEW T, T \subseteq Nat, T # {}
  PROVE  \E x \in T : \A y \in T : x <= y
  <1>1. PICK x \in T : \A y \in T : ~(<<y, x>> \in OpToRel(<, Nat))
    BY NatLessThanWellFounded, WFMin
  <1>2. \A y \in T : ~(y < x)
    BY <1>1 DEF OpToRel
  <1>3. QED
    BY <1>2

LEMMA MinMember ==
  ASSUME NEW T, T \subseteq Nat, T # {}
  PROVE  Min(T) \in T
  BY Least DEF Min

LEMMA MaxMember ==
  ASSUME NEW n \in Nat, NEW T, T \subseteq 1 .. n, T # {}
  PROVE  Max(T) \in T
  <1> DEFINE U == {n - x : x \in T}
  <1>1. U \subseteq Nat /\ U # {}
    <2>1. \A x \in T : n - x \in Nat
      OBVIOUS
    <2>2. PICK x \in T : TRUE
      OBVIOUS
    <2>3. n - x \in U
      OBVIOUS
    <2>4. QED
      BY <2>1, <2>3
  <1>2. PICK u \in U : \A y \in U : u <= y
    <2> HIDE DEF U
    <2>1. QED
      BY <1>1, Least
  <1>3. PICK x \in T : u = n - x
    OBVIOUS
  <1>4. \A y \in T : x >= y
    <2> TAKE y \in T
    <2>1. n - y \in U
      OBVIOUS
    <2>2. n - x <= n - y
      BY <1>2, <1>3, <2>1
    <2>3. QED
      BY <2>2
  <1>5. QED
    BY <1>4 DEF Max

--------------------------------------------------------------------------------
(* What WellFormed says of the lines of a machine, part by part.            *)

LEMMA VolumeNat == Volume0 \in Nat
  BY DEF Volume0

LEMMA SizesNat == BOOT \in Nat /\ 1 <= BOOT /\ PE \in Nat /\ Numbers \in Nat /\ 1 <= Numbers
  <1>1. BOOT \in Nat \ {0} /\ PE \in Nat /\ Numbers \in Nat \ {0}
    BY SaveAssumption
  <1>2. QED
    BY <1>1

LEMMA LinesType ==
  ASSUME NEW m \in Machines
  PROVE  /\ m.lines \in Seq(Range(m.lines)) /\ Len(m.lines) \in Nat
         /\ DOMAIN m.lines = 1 .. Len(m.lines) /\ Numbers + Len(m.lines) <= Volume0
         /\ m.has_hdmap \in BOOLEAN /\ m.revoraw \in BOOLEAN /\ m.present \in BOOLEAN
  <1>1. WellFormed(m)
    BY SaveAssumption
  <1>2. m.lines \in Seq(Range(m.lines))
    BY <1>1 DEF WellFormed
  <1>3. QED
    BY <1>1, <1>2, SeqLen DEF WellFormed

LEMMA LineType ==
  ASSUME NEW m \in Machines, NEW k \in 1 .. Len(m.lines)
  PROVE  /\ m.lines[k].is \in {"disk", "part", "dm"} /\ m.lines[k].opens \in BOOLEAN
         /\ m.lines[k].num \in Nat /\ m.lines[k].start \in Nat /\ m.lines[k].size \in Nat
         /\ m.lines[k].fs = "lvm" => PE <= m.lines[k].size
         /\ m.lines[k] \in Range(m.lines)
  <1>1. WellFormed(m)
    BY SaveAssumption
  <1>2. m.lines[k] \in Range(m.lines)
    BY LinesType, RangeMember
  <1>3. QED
    BY <1>1, <1>2 DEF WellFormed

LEMMA DiskNames ==
  ASSUME NEW m \in Machines, NEW i \in 1 .. Len(m.lines), NEW k \in 1 .. Len(m.lines),
         i # k, m.lines[i].is = "disk", m.lines[k].is = "disk"
  PROVE  m.lines[i].disk # m.lines[k].disk
  <1>1. WellFormed(m)
    BY SaveAssumption
  <1>2. QED
    BY <1>1 DEF WellFormed

LEMMA PartNames ==
  ASSUME NEW m \in Machines, NEW i \in 1 .. Len(m.lines), NEW k \in 1 .. Len(m.lines),
         i # k, m.lines[i].is = "part", m.lines[k].is = "part", m.lines[i].disk = m.lines[k].disk
  PROVE  m.lines[i].num # m.lines[k].num
  <1>1. WellFormed(m)
    BY SaveAssumption
  <1>2. QED
    BY <1>1 DEF WellFormed

LEMMA VolumeNames ==
  ASSUME NEW m \in Machines, NEW i \in 1 .. Len(m.lines), NEW k \in 1 .. Len(m.lines),
         i # k, m.lines[i].is = "dm", m.lines[k].is = "dm"
  PROVE  m.lines[i].num # m.lines[k].num
  <1>1. WellFormed(m)
    BY SaveAssumption
  <1>2. QED
    BY <1>1 DEF WellFormed

LEMMA VolumesLast ==
  ASSUME NEW m \in Machines, NEW i \in 1 .. Len(m.lines), NEW k \in 1 .. Len(m.lines),
         i < k, m.lines[i].is = "dm"
  PROVE  m.lines[k].is = "dm"
  <1>1. WellFormed(m)
    BY SaveAssumption
  <1>2. QED
    BY <1>1 DEF WellFormed

LEMMA DiskLine ==
  ASSUME NEW m \in Machines, NEW k \in 1 .. Len(m.lines), m.lines[k].is = "disk"
  PROVE  /\ m.lines[k].ldm[1] \in Nat /\ m.lines[k].ldm[2] \in Nat
         /\ m.lines[k].start = 0 /\ BOOT <= m.lines[k].size
         /\ m.lines[k].ldm[1] + m.lines[k].ldm[2] <= m.lines[k].size
  <1>1. WellFormed(m)
    BY SaveAssumption
  <1>2. QED
    BY <1>1 DEF WellFormed

LEMMA PartLine ==
  ASSUME NEW m \in Machines, NEW k \in 1 .. Len(m.lines), m.lines[k].is = "part", m.lines[k].opens
  PROVE  \E i \in 1 .. k - 1 :
           /\ m.lines[i].is = "disk" /\ m.lines[i].opens /\ m.lines[i].disk = m.lines[k].disk
           /\ m.lines[k].start + BOOT <= m.lines[i].size
           /\ \A j \in i + 1 .. k - 1 : m.lines[j].is = "part"
  <1>1. WellFormed(m)
    BY SaveAssumption
  <1>2. QED
    BY <1>1 DEF WellFormed

LEMMA MapType ==
  ASSUME NEW m \in Machines
  PROVE  /\ DOMAIN m.map \subseteq 0 .. Numbers - 1
         /\ \A i \in DOMAIN m.map : m.map[i] \in Nat
  <1>1. WellFormed(m)
    BY SaveAssumption
  <1>2. QED
    BY <1>1 DEF WellFormed

--------------------------------------------------------------------------------
(* What save_raw does to the ?TABS files.                                   *)

\* Sectors S of disk d are added to the file of number n.
New(d, S) == {<<s, <<d, s>>>> : s \in S}
Adds(tb, tb2, n, d, S) ==
  /\ DOMAIN tb2 = DOMAIN tb \union {n}
  /\ \A i \in DOMAIN tb : i # n => tb2[i] = tb[i]
  /\ tb2[n] \in Seq(Range(tb2[n]))
  /\ Range(tb2[n]) = (IF n \in DOMAIN tb THEN Range(tb[n]) ELSE {}) \union New(d, S)

Grows(tb, tb2) == \A n \in DOMAIN tb : n \in DOMAIN tb2 /\ Range(tb[n]) \subseteq Range(tb2[n])

LEMMA SectorsRange ==
  ASSUME NEW a \in Nat, NEW b \in Int, a - 1 <= b
  PROVE  /\ Sectors(a, b) \in Seq(Range(Sectors(a, b)))
         /\ Range(Sectors(a, b)) = a .. b
  <1> DEFINE n == b - a + 1
             f == [j \in 1 .. n |-> a + j - 1]
  <1>1. n \in Nat
    OBVIOUS
  <1>2. f = Sectors(a, b)
    BY DEF Sectors
  <1>3. DOMAIN f = 1 .. n /\ \A j \in 1 .. n : f[j] = a + j - 1
    OBVIOUS
  <1>4. f \in [1 .. n -> Range(f)]
    BY DEF Range
  <1>5. f \in Seq(Range(f))
    <2> HIDE DEF f, n
    <2>1. QED
      BY <1>1, <1>4, SeqDef
  <1>6. Range(f) \subseteq a .. b
    <2>1. \A j \in 1 .. n : a + j - 1 \in a .. b
      OBVIOUS
    <2> HIDE DEF f
    <2>2. QED
      BY <1>3, <2>1 DEF Range
  <1>7. a .. b \subseteq Range(f)
    <2> SUFFICES ASSUME NEW s \in a .. b PROVE s \in Range(f)
      OBVIOUS
    <2> DEFINE j == s - a + 1
    <2>1. j \in 1 .. n /\ a + j - 1 = s
      OBVIOUS
    <2> HIDE DEF f, j
    <2>2. j \in DOMAIN f /\ f[j] = s
      BY <1>3, <2>1
    <2>3. QED
      BY <2>2 DEF Range
  <1> HIDE DEF f
  <1>8. QED
    BY <1>2, <1>5, <1>6, <1>7

\* The entries save_raw makes of a sequence of sectors.
LEMMA EntriesRange ==
  ASSUME NEW d, NEW ss, ss \in Seq(Range(ss))
  PROVE  LET e == [j \in DOMAIN ss |-> <<ss[j], <<d, ss[j]>>>>]
         IN  e \in Seq(Range(e)) /\ Range(e) = New(d, Range(ss))
  <1> DEFINE e == [j \in DOMAIN ss |-> <<ss[j], <<d, ss[j]>>>>]
  <1>1. Len(ss) \in Nat /\ DOMAIN ss = 1 .. Len(ss)
    BY SeqLen
  <1>2. DOMAIN e = 1 .. Len(ss) /\ \A j \in DOMAIN ss : e[j] = <<ss[j], <<d, ss[j]>>>>
    BY <1>1
  <1>3. e \in [1 .. Len(ss) -> Range(e)]
    BY <1>1 DEF Range
  <1> HIDE DEF e
  <1>4. e \in Seq(Range(e))
    BY <1>1, <1>3, SeqDef
  <1>5. Range(e) = New(d, Range(ss))
    <2>1. Range(e) = {e[j] : j \in DOMAIN ss}
      BY <1>1, <1>2 DEF Range
    <2>2. Range(e) \subseteq New(d, Range(ss))
      <3> SUFFICES ASSUME NEW y \in Range(e) PROVE y \in New(d, Range(ss))
        OBVIOUS
      <3>1. PICK j \in DOMAIN ss : y = <<ss[j], <<d, ss[j]>>>>
        BY <1>2, <2>1
      <3>2. ss[j] \in Range(ss)
        BY RangeMember
      <3>3. QED
        BY <3>1, <3>2 DEF New
    <2>3. New(d, Range(ss)) \subseteq Range(e)
      <3> SUFFICES ASSUME NEW s \in Range(ss) PROVE <<s, <<d, s>>>> \in Range(e)
        BY DEF New
      <3>1. PICK j \in DOMAIN ss : s = ss[j]
        BY RangeElement
      <3>2. QED
        BY <1>2, <2>1, <3>1
    <2>4. QED
      BY <2>2, <2>3
  <1>6. QED
    BY <1>4, <1>5 DEF e

LEMMA SaveRaw ==
  ASSUME NEW n, NEW l, NEW ss, ss \in Seq(Range(ss)),
         \A i \in DOMAIN tabs : tabs[i] \in Seq(Range(tabs[i])),
         save_raw(n, l, ss)
  PROVE  Adds(tabs, tabs', n, l.disk, Range(ss))
  <1> DEFINE old == IF n \in DOMAIN tabs THEN tabs[n] ELSE <<>>
             e == [j \in DOMAIN ss |-> <<ss[j], <<l.disk, ss[j]>>>>]
             u == old \o e
  <1>1. tabs' = [m \in DOMAIN tabs \union {n} |-> IF m = n THEN u ELSE tabs[m]]
    BY DEF save_raw
  <1>2. e \in Seq(Range(e)) /\ Range(e) = New(l.disk, Range(ss))
    BY EntriesRange
  <1>3. old \in Seq(Range(old)) /\ Range(old) = IF n \in DOMAIN tabs THEN Range(tabs[n]) ELSE {}
    <2>1. CASE n \in DOMAIN tabs
      BY <2>1
    <2>2. CASE n \notin DOMAIN tabs
      <3>1. old = <<>>
        BY <2>2
      <3>2. DOMAIN <<>> = {}
        OBVIOUS
      <3>3. Range(<<>>) = {}
        BY <3>2 DEF Range
      <3> HIDE DEF old
      <3>4. QED
        BY <2>2, <3>1, <3>3, EmptySeq
    <2>3. QED
      BY <2>1, <2>2
  <1> HIDE DEF old, e
  <1>4. u \in Seq(Range(u)) /\ Range(u) = Range(old) \union Range(e)
    BY <1>2, <1>3, RangeConcat
  <1> HIDE DEF u
  <1>5. /\ DOMAIN tabs' = DOMAIN tabs \union {n} /\ tabs'[n] = u
        /\ \A i \in DOMAIN tabs : i # n => tabs'[i] = tabs[i]
    BY <1>1
  <1>6. QED
    BY <1>2, <1>3, <1>4, <1>5 DEF Adds

LEMMA AddsGrows ==
  ASSUME NEW tb, NEW tb2, NEW n, NEW d, NEW S, Adds(tb, tb2, n, d, S)
  PROVE  Grows(tb, tb2)
  BY DEF Adds, Grows

LEMMA GrowsSame ==
  ASSUME NEW tb
  PROVE  Grows(tb, tb)
  BY DEF Grows

LEMMA AddsHolds ==
  ASSUME NEW tb, NEW tb2, NEW n, NEW d, NEW S, Adds(tb, tb2, n, d, S), S # {}
  PROVE  Holds(tb2, n, d)
  <1>1. PICK s \in S : TRUE
    OBVIOUS
  <1> DEFINE w == <<s, <<d, s>>>>
  <1>2. w \in New(d, S) /\ w[2][1] = d
    BY DEF New
  <1> HIDE DEF w
  <1>3. w \in Range(tb2[n]) /\ n \in DOMAIN tb2
    BY <1>2 DEF Adds
  <1>4. QED
    BY <1>2, <1>3 DEF Holds

LEMMA GrowsHolds ==
  ASSUME NEW tb, NEW tb2, Grows(tb, tb2), NEW n, NEW d, Holds(tb, n, d)
  PROVE  Holds(tb2, n, d)
  BY DEF Grows, Holds

LEMMA GrowsSeparate ==
  ASSUME NEW tb, NEW tb2, Grows(tb, tb2), Separate(tb2)
  PROVE  Separate(tb)
  BY DEF Grows, Separate

\* A file of one disk holds no other.
LEMMA SeparateHolds ==
  ASSUME NEW tb, Separate(tb), NEW n, NEW d, NEW e, Holds(tb, n, d), Holds(tb, n, e)
  PROVE  d = e
  BY DEF Separate, Holds

\* Files stay separate when the disk is the one of the number, or the number is new.
LEMMA AddsSeparate ==
  ASSUME NEW tb, NEW tb2, NEW n, NEW d, NEW S, Adds(tb, tb2, n, d, S), Separate(tb),
         n \in DOMAIN tb => Holds(tb, n, d)
  PROVE  Separate(tb2)
  <1>1. \A w \in Range(tb2[n]) : w[2][1] = d
    <2> TAKE w \in Range(tb2[n])
    <2>1. CASE w \in New(d, S)
      BY <2>1 DEF New
    <2>2. CASE n \in DOMAIN tb /\ w \in Range(tb[n])
      <3>1. Holds(tb, n, w[2][1])
        BY <2>2 DEF Holds
      <3>2. QED
        BY <2>2, <3>1, SeparateHolds
    <2>3. QED
      BY <2>1, <2>2 DEF Adds
  <1>2. \A i \in DOMAIN tb2 : i # n => i \in DOMAIN tb /\ tb2[i] = tb[i]
    BY DEF Adds
  <1>3. QED
    BY <1>1, <1>2 DEF Separate

--------------------------------------------------------------------------------
(* One more line is read: the ?TABS files and the number of the disk.       *)

LEMMA TablesNext ==
  ASSUME NEW ls, NEW k \in Nat, NEW tb, Tables(ls, k, tb)
  PROVE  Tables(ls, k + 1, tb)
  <1> SUFFICES ASSUME NEW n \in DOMAIN tb
               PROVE  /\ n \in 0 .. Numbers - 1 + (k + 1)
                      /\ tb[n] \in Seq(Range(tb[n])) /\ Range(tb[n]) # {}
                      /\ \A w \in Range(tb[n]) : \E i \in 1 .. k + 1 : Entry(ls, i, w)
    BY DEF Tables
  <1>1. /\ n \in 0 .. Numbers - 1 + k
        /\ tb[n] \in Seq(Range(tb[n])) /\ Range(tb[n]) # {}
        /\ \A w \in Range(tb[n]) : \E i \in 1 .. k : Entry(ls, i, w)
    BY DEF Tables
  <1>2. n \in 0 .. Numbers - 1 + (k + 1)
    BY <1>1, SaveAssumption
  <1>3. 1 .. k \subseteq 1 .. k + 1
    OBVIOUS
  <1>4. QED
    BY <1>1, <1>2, <1>3

LEMMA TablesAdds ==
  ASSUME NEW ls, NEW k \in Nat, NEW tb, NEW tb2, NEW n, NEW d, NEW S, NEW i \in 1 .. k,
         Tables(ls, k, tb), Adds(tb, tb2, n, d, S), S # {}, n \in 0 .. Numbers - 1 + k,
         ls[i].is = "disk", ls[i].opens, ls[i].disk = d, S \subseteq 0 .. ls[i].size - 1
  PROVE  Tables(ls, k, tb2)
  <1>1. \A j \in DOMAIN tb2 : j # n => j \in DOMAIN tb /\ tb2[j] = tb[j]
    BY DEF Adds
  <1>2. \A w \in Range(tb2[n]) : \E j \in 1 .. k : Entry(ls, j, w)
    <2> TAKE w \in Range(tb2[n])
    <2>1. CASE w \in New(d, S)
      <3>1. PICK s \in S : w = <<s, <<d, s>>>>
        BY <2>1 DEF New
      <3>2. Entry(ls, i, w)
        BY <3>1 DEF Entry
      <3>3. QED
        BY <3>2
    <2>2. CASE n \in DOMAIN tb /\ w \in Range(tb[n])
      BY <2>2 DEF Tables
    <2>3. QED
      BY <2>1, <2>2 DEF Adds
  <1>3. Range(tb2[n]) # {} /\ tb2[n] \in Seq(Range(tb2[n]))
    <2>1. Holds(tb2, n, d)
      BY AddsHolds
    <2>2. QED
      BY <2>1 DEF Holds, Adds
  <1>4. QED
    BY <1>1, <1>2, <1>3 DEF Tables

LEMMA CurrentDisk ==
  ASSUME NEW ls, NEW k \in Nat, NEW tb, NEW dn, ls[k + 1].is # "part",
         ls[k + 1].is = "disk" /\ ls[k + 1].opens => Holds(tb, dn, ls[k + 1].disk)
  PROVE  Current(ls, k + 1, tb, dn)
  <1> SUFFICES ASSUME NEW i \in 1 .. k + 1, ls[i].is = "disk", ls[i].opens,
                      \A j \in i + 1 .. k + 1 : ls[j].is = "part"
               PROVE  Holds(tb, dn, ls[i].disk)
    BY DEF Current
  <1>1. CASE i = k + 1
    BY <1>1
  <1>2. CASE i # k + 1
    <2>1. k + 1 \in i + 1 .. k + 1
      BY <1>2
    <2>2. QED
      BY <2>1
  <1>3. QED
    BY <1>1, <1>2

LEMMA CurrentPart ==
  ASSUME NEW ls, NEW k \in Nat, NEW tb, NEW tb2, NEW dn, ls[k + 1].is = "part",
         Current(ls, k, tb, dn), Grows(tb, tb2)
  PROVE  Current(ls, k + 1, tb2, dn)
  <1> SUFFICES ASSUME NEW i \in 1 .. k + 1, ls[i].is = "disk", ls[i].opens,
                      \A j \in i + 1 .. k + 1 : ls[j].is = "part"
               PROVE  Holds(tb2, dn, ls[i].disk)
    BY DEF Current
  <1>1. i # k + 1
    OBVIOUS
  <1>2. i \in 1 .. k /\ \A j \in i + 1 .. k : j \in i + 1 .. k + 1
    BY <1>1
  <1>3. Holds(tb, dn, ls[i].disk)
    BY <1>2 DEF Current
  <1>4. QED
    BY <1>3, GrowsHolds
--------------------------------------------------------------------------------
(* Names.                                                                   *)

LEMMA MadeGrows ==
  ASSUME NEW ls, NEW i, NEW tb, NEW tb2, NEW hd, NEW num, Grows(tb, tb2), Made(ls, i, tb, hd, num)
  PROVE  Made(ls, i, tb2, hd, num)
  BY GrowsHolds DEF Made

\* A number that is in use is not the one of a volume.
LEMMA NumbersBelow ==
  ASSUME NEW m \in Machines, NEW k \in 0 .. Len(m.lines), NEW tb, Tables(m.lines, k, tb),
         NEW n \in DOMAIN tb
  PROVE  n \in Nat /\ n < Volume0
  <1>1. n \in 0 .. Numbers - 1 + k
    BY DEF Tables
  <1>2. Numbers + Len(m.lines) <= Volume0 /\ Len(m.lines) \in Nat
    BY LinesType
  <1>3. QED
    BY <1>1, <1>2, SaveAssumption, VolumeNat

\* No two lines make one name, if the files are separate, but partitions of one disk
\* with the same four bits.
LEMMA MadeOnce ==
  ASSUME NEW m \in Machines, NEW k \in 0 .. Len(m.lines), NEW tb, Tables(m.lines, k, tb),
         Separate(tb), NEW i \in 1 .. Len(m.lines), NEW j \in 1 .. Len(m.lines), NEW hd, NEW num,
         Made(m.lines, i, tb, hd, num), Made(m.lines, j, tb, hd, num)
  PROVE  i = j \/ Alike(m.lines[i], m.lines[j])
  <1>1. ASSUME NEW x \in 1 .. Len(m.lines), NEW y \in 1 .. Len(m.lines),
               m.lines[x].is = "part", Holds(tb, hd, m.lines[x].disk),
               m.lines[y].is = "dm", hd = Volume0 + m.lines[y].num
        PROVE  FALSE
    <2>1. hd \in Nat /\ hd < Volume0
      BY <1>1, NumbersBelow DEF Holds
    <2>2. m.lines[y].num \in Nat
      BY LineType
    <2>3. QED
      BY <1>1, <2>1, <2>2, VolumeNat
  <1>2. CASE m.lines[i].is = "part" /\ m.lines[j].is = "part"
    <2>1. m.lines[i].disk = m.lines[j].disk
      BY <1>2, SeparateHolds DEF Made
    <2>2. m.lines[i].num % 16 = m.lines[j].num % 16
      BY <1>2 DEF Made, poff
    <2>3. i # j => m.lines[i].num # m.lines[j].num
      BY <1>2, <2>1, PartNames
    <2>4. QED
      BY <1>2, <2>1, <2>2, <2>3, Zenon DEF Alike
  <1>3. CASE m.lines[i].is = "dm" /\ m.lines[j].is = "dm"
    <2>1. m.lines[i].num \in Nat /\ m.lines[j].num \in Nat
      BY LineType
    <2>2. Volume0 + m.lines[i].num = Volume0 + m.lines[j].num
      BY <1>3 DEF Made
    <2>3. m.lines[i].num = m.lines[j].num
      BY <2>1, <2>2, VolumeNat, SMTT(30)
    <2>4. QED
      BY <1>3, <2>3, VolumeNames
  <1>4. QED
    BY <1>1, <1>2, <1>3 DEF Made

\* A disk that is read has a number of its own, if the files are separate.
LEMMA NewNumber ==
  ASSUME NEW m \in Machines, NEW k \in Nat, k + 1 <= Len(m.lines), NEW tb, NEW tb2, NEW n,
         Tables(m.lines, k, tb), Grows(tb, tb2), Separate(tb2), m.lines[k + 1].is = "disk",
         Holds(tb2, n, m.lines[k + 1].disk)
  PROVE  n \notin DOMAIN tb
  <1> SUFFICES ASSUME n \in DOMAIN tb PROVE FALSE
    OBVIOUS
  <1>1. PICK w \in Range(tb[n]) : TRUE
    BY DEF Tables
  <1>2. PICK i \in 1 .. k : Entry(m.lines, i, w)
    BY DEF Tables
  <1>3. w[2][1] = m.lines[i].disk /\ m.lines[i].is = "disk"
    BY <1>2 DEF Entry
  <1>4. Holds(tb2, n, m.lines[i].disk)
    <2>1. Holds(tb, n, m.lines[i].disk)
      BY <1>3 DEF Holds
    <2>2. QED
      BY <2>1, GrowsHolds, Zenon
  <1>5. m.lines[i].disk = m.lines[k + 1].disk
    BY <1>4, SeparateHolds
  <1>6. i \in 1 .. Len(m.lines) /\ k + 1 \in 1 .. Len(m.lines) /\ i # k + 1
    BY LinesType
  <1>7. QED
    BY <1>3, <1>5, <1>6, DiskNames

--------------------------------------------------------------------------------
(* Commands and images.                                                     *)

LEMMA CommandsGrow ==
  ASSUME NEW ls, NEW k \in Nat, NEW tb, NEW tb2, NEW cs, Grows(tb, tb2), Commands(ls, k, tb, cs)
  PROVE  Commands(ls, k + 1, tb2, cs)
  <1> SUFFICES ASSUME NEW i \in DOMAIN cs
               PROVE  \/ cs[i].op = "ptabs" /\ cs[i].hd \in DOMAIN tb2
                      \/ \E j \in 1 .. k + 1 : Partcopied(ls, j, tb2, cs[i])
    BY DEF Commands
  <1>1. CASE cs[i].op = "ptabs" /\ cs[i].hd \in DOMAIN tb
    BY <1>1 DEF Grows
  <1>2. CASE \E j \in 1 .. k : Partcopied(ls, j, tb, cs[i])
    <2>1. PICK j \in 1 .. k : Partcopied(ls, j, tb, cs[i])
      BY <1>2
    <2>2. Partcopied(ls, j, tb2, cs[i])
      BY <2>1, MadeGrows DEF Partcopied
    <2>3. j \in 1 .. k + 1
      OBVIOUS
    <2>4. QED
      BY <2>2, <2>3
  <1>3. QED
    BY <1>1, <1>2 DEF Commands

\* A command of the line just read, or the one for a disk.
Good(ls, k, tb, c) == \/ c.op = "ptabs" /\ c.hd \in DOMAIN tb
                      \/ \E j \in 1 .. k : Partcopied(ls, j, tb, c)

LEMMA CommandsAppend ==
  ASSUME NEW ls, NEW k \in Nat, NEW tb, NEW cs, NEW c, cs \in Seq(Range(cs)),
         Commands(ls, k, tb, cs), Good(ls, k, tb, c)
  PROVE  Commands(ls, k, tb, Append(cs, c))
  <1> DEFINE u == Append(cs, c)
  <1>1. /\ u \in Seq(Range(u)) /\ Len(u) = Len(cs) + 1
        /\ \A i \in 1 .. Len(cs) : u[i] = cs[i]
        /\ u[Len(cs) + 1] = c
    BY RangeAppend
  <1> HIDE DEF u
  <1>2. /\ DOMAIN u = 1 .. Len(cs) + 1
        /\ Len(cs) \in Nat /\ DOMAIN cs = 1 .. Len(cs)
    BY <1>1, SeqLen
  <1>3. \A i \in DOMAIN u : i = Len(cs) + 1 \/ i \in 1 .. Len(cs)
    BY <1>2
  <1>4. \A i \in DOMAIN u : Good(ls, k, tb, u[i])
    <2> TAKE i \in DOMAIN u
    <2>1. CASE i = Len(cs) + 1
      BY <1>1, <2>1
    <2>2. CASE i \in 1 .. Len(cs)
      <3>1. u[i] = cs[i] /\ i \in DOMAIN cs
        BY <1>1, <1>2, <2>2
      <3>2. QED
        BY <3>1 DEF Commands, Good
    <2>3. QED
      BY <1>3, <2>1, <2>2
  <1>5. Commands(ls, k, tb, u)
    BY <1>4 DEF Commands, Good
  <1>6. QED
    BY <1>5 DEF u

\* Every command of the list has a counterpart in the longer one.
LEMMA OrderedAppend ==
  ASSUME NEW tb, NEW im, NEW cs, NEW c, NEW u, u = Append(cs, c), cs \in Seq(Range(cs)),
         Ordered(tb, im, cs)
  PROVE  Ordered(tb, im, u)
  <1>1. /\ u \in Seq(Range(u)) /\ Len(u) = Len(cs) + 1
        /\ \A i \in 1 .. Len(cs) : u[i] = cs[i]
        /\ u[Len(cs) + 1] = c
    BY RangeAppend
  <1>2. /\ DOMAIN u = 1 .. Len(cs) + 1
        /\ Len(cs) \in Nat /\ DOMAIN cs = 1 .. Len(cs)
    BY <1>1, SeqLen
  <1>3. \A i \in DOMAIN cs : i \in DOMAIN u /\ u[i] = cs[i]
    BY <1>1, <1>2
  <1>4. QED
    BY <1>3 DEF Ordered

LEMMA AppendLast ==
  ASSUME NEW cs, NEW c, NEW u, u = Append(cs, c), cs \in Seq(Range(cs))
  PROVE  \E i \in DOMAIN u : u[i] = c
  <1>1. u \in Seq(Range(u)) /\ Len(u) = Len(cs) + 1 /\ u[Len(cs) + 1] = c
    BY RangeAppend
  <1>2. DOMAIN u = 1 .. Len(cs) + 1 /\ Len(cs) \in Nat
    BY <1>1, SeqLen
  <1>3. Len(cs) + 1 \in DOMAIN u
    BY <1>2
  <1>4. QED
    BY <1>1, <1>3

LEMMA TwinsBack ==
  ASSUME NEW ls, NEW c, NEW d, Twins(ls, c, d)
  PROVE  Twins(ls, d, c)
  <1>1. PICK l \in Range(ls), m \in Range(ls) :
             Alike(l, m) /\ l.start = c.sect /\ m.start = d.sect
    BY DEF Twins
  <1>2. Alike(m, l)
    BY <1>1 DEF Alike
  <1>3. QED
    BY <1>1, <1>2 DEF Twins

\* A command whose name is new keeps the names distinct.
LEMMA DistinctAppend ==
  ASSUME NEW ls, NEW cs, NEW c, cs \in Seq(Range(cs)), Distinct(ls, cs),
         \A i \in DOMAIN cs : cs[i].op = c.op /\ cs[i].hd = c.hd
                                => c.op = "partcopy" /\ (cs[i].num = c.num => Twins(ls, cs[i], c))
  PROVE  Distinct(ls, Append(cs, c))
  <1> DEFINE u == Append(cs, c)
  <1>1. /\ u \in Seq(Range(u)) /\ Len(u) = Len(cs) + 1
        /\ \A i \in 1 .. Len(cs) : u[i] = cs[i]
        /\ u[Len(cs) + 1] = c
    BY RangeAppend
  <1> HIDE DEF u
  <1>2. /\ DOMAIN u = 1 .. Len(cs) + 1
        /\ Len(cs) \in Nat /\ DOMAIN cs = 1 .. Len(cs)
    BY <1>1, SeqLen
  <1>3. \A i \in DOMAIN u : (i = Len(cs) + 1 /\ u[i] = c) \/ (i \in DOMAIN cs /\ u[i] = cs[i])
    BY <1>1, <1>2
  <1>4. Distinct(ls, u)
    <2> SUFFICES ASSUME NEW i \in DOMAIN u, NEW j \in DOMAIN u,
                        i # j, u[i].op = u[j].op, u[i].hd = u[j].hd
                 PROVE  u[i].op = "partcopy" /\ (u[i].num = u[j].num => Twins(ls, u[i], u[j]))
      BY DEF Distinct
    <2>1. CASE i \in DOMAIN cs /\ u[i] = cs[i] /\ j \in DOMAIN cs /\ u[j] = cs[j]
      BY <2>1 DEF Distinct
    <2>2. CASE u[i] = c /\ j \in DOMAIN cs /\ u[j] = cs[j]
      BY <2>2, TwinsBack
    <2>3. CASE i \in DOMAIN cs /\ u[i] = cs[i] /\ u[j] = c
      BY <2>3
    <2>4. QED
      BY <1>3, <2>1, <2>2, <2>3
  <1>5. QED
    BY <1>4 DEF u

\* The command of a disk just read.
LEMMA OwnDisk ==
  ASSUME NEW m \in Machines, NEW k \in Nat, k + 1 <= Len(m.lines), NEW tb, NEW tb2, NEW n,
         NEW cs, cs \in Seq(Range(cs)), Tables(m.lines, k, tb), Grows(tb, tb2),
         m.lines[k + 1].is = "disk", Holds(tb2, n, m.lines[k + 1].disk),
         Commands(m.lines, k, tb, cs), Own(m.lines, tb, cs)
  PROVE  Own(m.lines, tb2, Append(cs, [op |-> "ptabs", hd |-> n]))
  <1> SUFFICES ASSUME Separate(tb2)
               PROVE  Distinct(m.lines, Append(cs, [op |-> "ptabs", hd |-> n]))
    BY DEF Own
  <1> DEFINE c == [op |-> "ptabs", hd |-> n]
  <1>1. Distinct(m.lines, cs)
    BY GrowsSeparate DEF Own
  <1>2. n \notin DOMAIN tb
    BY NewNumber
  <1>3. c.op = "ptabs" /\ c.hd = n
    OBVIOUS
  <1> HIDE DEF c
  <1>4. \A i \in DOMAIN cs : cs[i].op = "ptabs" => cs[i].hd \in DOMAIN tb
    BY DEF Commands, Partcopied
  <1>5. \A i \in DOMAIN cs : cs[i].op = c.op /\ cs[i].hd = c.hd
                                => c.op = "partcopy" /\ (cs[i].num = c.num => Twins(m.lines, cs[i], c))
    BY <1>2, <1>3, <1>4
  <1>6. Distinct(m.lines, Append(cs, c))
    BY <1>1, <1>5, DistinctAppend
  <1>7. QED
    BY <1>6 DEF c

\* The command of a partition or volume just read.
LEMMA OwnCopy ==
  ASSUME NEW m \in Machines, NEW k \in Nat, k + 1 <= Len(m.lines), NEW tb, NEW tb2,
         NEW cs, NEW c, cs \in Seq(Range(cs)), Tables(m.lines, k + 1, tb2), Grows(tb, tb2),
         Partcopied(m.lines, k + 1, tb2, c), Commands(m.lines, k, tb, cs), Own(m.lines, tb, cs)
  PROVE  Own(m.lines, tb2, Append(cs, c))
  <1> SUFFICES ASSUME Separate(tb2) PROVE Distinct(m.lines, Append(cs, c))
    BY DEF Own
  <1>1. Distinct(m.lines, cs)
    BY GrowsSeparate DEF Own
  <1>2. c.op = "partcopy" /\ Made(m.lines, k + 1, tb2, c.hd, c.num)
    BY DEF Partcopied
  <1>3. ASSUME NEW i \in DOMAIN cs, cs[i].op = c.op, cs[i].hd = c.hd, cs[i].num = c.num
        PROVE  Twins(m.lines, cs[i], c)
    <2>1. PICK j \in 1 .. k : Partcopied(m.lines, j, tb, cs[i])
      BY <1>2, <1>3 DEF Commands
    <2>2. Made(m.lines, j, tb2, c.hd, c.num)
      BY <1>3, <2>1, MadeGrows DEF Partcopied
    <2>3. /\ k + 1 \in 0 .. Len(m.lines) /\ k + 1 \in 1 .. Len(m.lines)
          /\ j \in 1 .. Len(m.lines) /\ j # k + 1
      BY LinesType
    <2>4. Alike(m.lines[j], m.lines[k + 1])
      BY <1>2, <2>2, <2>3, MadeOnce
    <2>5. m.lines[j].start = cs[i].sect /\ m.lines[k + 1].start = c.sect
      BY <2>1 DEF Partcopied
    <2>6. m.lines[j] \in Range(m.lines) /\ m.lines[k + 1] \in Range(m.lines)
      BY <2>3, LineType
    <2>7. QED
      BY <2>4, <2>5, <2>6 DEF Twins
  <1>4. QED
    BY <1>1, <1>2, <1>3, DistinctAppend

LEMMA ImagesGrow ==
  ASSUME NEW ls, NEW k \in Nat, NEW tb, NEW tb2, NEW im, Grows(tb, tb2), Images(ls, k, tb, im)
  PROVE  Images(ls, k + 1, tb2, im)
  <1> SUFFICES ASSUME NEW x \in DOMAIN im
               PROVE  \E i \in 1 .. k + 1 : /\ x = <<x[1], x[2]>> /\ Made(ls, i, tb2, x[1], x[2])
                                            /\ im[x].of = ls[i]
    BY DEF Images
  <1>1. PICK i \in 1 .. k : /\ x = <<x[1], x[2]>> /\ Made(ls, i, tb, x[1], x[2])
                            /\ im[x].of = ls[i]
    BY DEF Images
  <1>2. Made(ls, i, tb2, x[1], x[2]) /\ i \in 1 .. k + 1
    BY <1>1, MadeGrows
  <1>3. QED
    BY <1>1, <1>2

\* Image e gets the name <<a, b>>.
Names(im, im2, a, b, e) ==
  /\ DOMAIN im2 = DOMAIN im \union {<<a, b>>}
  /\ im2[<<a, b>>] = e
  /\ \A x \in DOMAIN im : x # <<a, b>> => im2[x] = im[x]

LEMMA ImagesNames ==
  ASSUME NEW ls, NEW k \in Nat, NEW tb, NEW im, NEW im2, NEW a, NEW b, NEW i \in 1 .. k, NEW e,
         Images(ls, k, tb, im), Names(im, im2, a, b, e), e.of = ls[i], Made(ls, i, tb, a, b)
  PROVE  Images(ls, k, tb, im2)
  <1> SUFFICES ASSUME NEW x \in DOMAIN im2
               PROVE  \E j \in 1 .. k : /\ x = <<x[1], x[2]>> /\ Made(ls, j, tb, x[1], x[2])
                                        /\ im2[x].of = ls[j]
    BY DEF Images
  <1>1. CASE x = <<a, b>>
    <2>1. x[1] = a /\ x[2] = b
      BY <1>1
    <2>2. QED
      BY <1>1, <2>1 DEF Names
  <1>2. CASE x # <<a, b>>
    <2>1. x \in DOMAIN im /\ im2[x] = im[x]
      BY <1>2 DEF Names
    <2>2. QED
      BY <2>1 DEF Images
  <1>3. QED
    BY <1>1, <1>2

\* The name of the line just read is a new one, if the files are separate, or that of
\* a partition with the same four bits.
LEMMA NameNew ==
  ASSUME NEW m \in Machines, NEW k \in Nat, k + 1 <= Len(m.lines), NEW tb, NEW tb2, NEW im,
         NEW a, NEW b, Tables(m.lines, k + 1, tb2), Grows(tb, tb2), Separate(tb2),
         Images(m.lines, k, tb, im), Made(m.lines, k + 1, tb2, a, b)
  PROVE  <<a, b>> \in DOMAIN im => Twin(m.lines, im[<<a, b>>].of)
  <1> DEFINE x == <<a, b>>
  <1>0. x[1] = a /\ x[2] = b
    OBVIOUS
  <1> HIDE DEF x
  <1> SUFFICES ASSUME x \in DOMAIN im PROVE Twin(m.lines, im[x].of)
    BY DEF x
  <1>1. PICK i \in 1 .. k : Made(m.lines, i, tb, x[1], x[2]) /\ im[x].of = m.lines[i]
    BY DEF Images
  <1>2. Made(m.lines, i, tb2, a, b)
    BY <1>0, <1>1, MadeGrows
  <1>3. /\ k + 1 \in 0 .. Len(m.lines) /\ k + 1 \in 1 .. Len(m.lines)
        /\ i \in 1 .. Len(m.lines) /\ i # k + 1
    BY LinesType
  <1>4. Alike(m.lines[i], m.lines[k + 1])
    BY <1>2, <1>3, MadeOnce
  <1>5. m.lines[k + 1] \in Range(m.lines)
    BY <1>3, LineType
  <1>6. QED
    BY <1>1, <1>4, <1>5 DEF Twin

--------------------------------------------------------------------------------
(* What became of the lines.                                                *)

LEMMA NamesEnded ==
  ASSUME NEW im, NEW im2, NEW a, NEW b, NEW e, Names(im, im2, a, b, e)
  PROVE  /\ e.ended => e.of \in Ended(im2)
         /\ \A l \in Ended(im) :
              l \in Ended(im2) \/ (<<a, b>> \in DOMAIN im /\ l = im[<<a, b>>].of)
  <1> DEFINE z == <<a, b>>
  <1>1. /\ DOMAIN im2 = DOMAIN im \union {z} /\ im2[z] = e
        /\ \A x \in DOMAIN im : x # z => im2[x] = im[x]
    BY DEF Names
  <1> HIDE DEF z
  <1>2. e.ended => e.of \in Ended(im2)
    BY <1>1 DEF Ended
  <1>3. \A l \in Ended(im) : l \in Ended(im2) \/ (z \in DOMAIN im /\ l = im[z].of)
    <2> TAKE l \in Ended(im)
    <2>1. PICK x \in DOMAIN im : im[x].ended /\ l = im[x].of
      BY DEF Ended
    <2>2. CASE x = z
      BY <2>1, <2>2
    <2>3. CASE x # z
      <3>1. x \in DOMAIN im2 /\ im2[x] = im[x]
        BY <1>1, <2>3
      <3>2. QED
        BY <2>1, <3>1 DEF Ended
    <2>4. QED
      BY <2>2, <2>3
  <1>4. QED
    BY <1>2, <1>3 DEF z

\* What im has of the lines stays in im2, but for those that lose their name.
Stays(ls, im, im2) == \A l \in Ended(im) : l \in Ended(im2) \/ Twin(ls, l)

LEMMA SettledStays ==
  ASSUME NEW m, NEW l, NEW tb, NEW tb2, NEW im, NEW im2, NEW sh, NEW sh2, NEW di, NEW di2,
         NEW lvm, NEW lvm2, Grows(tb, tb2), Stays(m.lines, im, im2), sh \subseteq sh2,
         di \subseteq di2, l.is = "dm" => lvm2 = lvm, Settled(m, l, tb, im, sh, di, lvm)
  PROVE  Settled(m, l, tb2, im2, sh2, di2, lvm2)
  <1>1. CASE NoData(l) \/ Twin(m.lines, l)
    BY <1>1 DEF Settled
  <1>2. CASE \E n \in DOMAIN tb : /\ Holds(tb, n, l.disk)
                                  /\ {<<n, 0>>, <<n, poff(l)>>} \intersect m.exclude # {}
    <2>1. PICK n \in DOMAIN tb : /\ Holds(tb, n, l.disk)
                                 /\ {<<n, 0>>, <<n, poff(l)>>} \intersect m.exclude # {}
      BY <1>2
    <2>2. Holds(tb2, n, l.disk) /\ n \in DOMAIN tb2
      BY <2>1, GrowsHolds DEF Holds
    <2>3. QED
      BY <2>1, <2>2 DEF Settled
  <1>3. CASE l.is = "dm" /\ ~lvm
    BY <1>3 DEF Settled
  <1>4. CASE l \in Ended(im)
    BY <1>4 DEF Settled, Stays
  <1>5. CASE l \in sh \/ l \in di
    BY <1>5 DEF Settled
  <1>6. QED
    BY <1>1, <1>2, <1>3, <1>4, <1>5 DEF Settled

LEMMA PassedNext ==
  ASSUME NEW m, NEW k \in Nat, NEW tb, NEW tb2, NEW im, NEW im2, NEW sh, NEW sh2, NEW di, NEW di2,
         NEW lvm, NEW lvm2, Grows(tb, tb2), Separate(tb2) => Stays(m.lines, im, im2),
         sh \subseteq sh2, di \subseteq di2,
         lvm2 = lvm \/ \A i \in 1 .. k : m.lines[i].is # "dm",
         Settled(m, m.lines[k + 1], tb2, im2, sh2, di2, lvm2),
         Passed(m, k, tb, im, sh, di, lvm)
  PROVE  Passed(m, k + 1, tb2, im2, sh2, di2, lvm2)
  <1> SUFFICES ASSUME Separate(tb2), NEW i \in 1 .. k + 1
               PROVE  Settled(m, m.lines[i], tb2, im2, sh2, di2, lvm2)
    BY DEF Passed
  <1>1. CASE i = k + 1
    BY <1>1
  <1>2. CASE i # k + 1
    <2>1. i \in 1 .. k
      BY <1>2
    <2>2. Settled(m, m.lines[i], tb, im, sh, di, lvm)
      BY <2>1, GrowsSeparate DEF Passed
    <2>3. m.lines[i].is = "dm" => lvm2 = lvm
      BY <2>1
    <2>4. QED
      BY <2>2, <2>3, SettledStays
  <1>3. QED
    BY <1>1, <1>2

LEMMA StaysSame ==
  ASSUME NEW ls, NEW im
  PROVE  Stays(ls, im, im)
  BY DEF Stays
--------------------------------------------------------------------------------
(* hdmap has a number for every disk.                                       *)

LEMMA LinesFinite ==
  ASSUME NEW m \in Machines
  PROVE  IsFiniteSet(Range(m.lines))
  <1> DEFINE D == 1 .. Len(m.lines)
             R == Range(m.lines)
  <1>1. IsFiniteSet(D)
    BY LinesType, FS_Interval
  <1>2. m.lines \in [D -> R]
    BY LinesType, LenProperties
  <1>3. \A y \in R : \E x \in D : m.lines[x] = y
    BY LinesType, RangeElement
  <1>4. m.lines \in Surjection(D, R)
    BY <1>2, <1>3 DEF Surjection
  <1>5. QED
    BY <1>1, <1>4, FS_Surjection

LEMMA UnreadNext ==
  ASSUME NEW m \in Machines, NEW k \in Nat, NEW s
  PROVE  /\ Unread(m.lines, k + 1, s) = Unread(m.lines, k, s) \ {m.lines[k + 1]}
         /\ IsFiniteSet(Unread(m.lines, k, s)) /\ IsFiniteSet(Unread(m.lines, k + 1, s))
         /\ Cardinality(Unread(m.lines, k + 1, s)) \in Nat
         /\ Cardinality(Unread(m.lines, k, s)) \in Nat
         /\ Cardinality(Unread(m.lines, k + 1, s)) <= Cardinality(Unread(m.lines, k, s))
         /\ m.lines[k + 1] \in Unread(m.lines, k, s) =>
              Cardinality(Unread(m.lines, k + 1, s)) = Cardinality(Unread(m.lines, k, s)) - 1
  <1> DEFINE U == Unread(m.lines, k, s)
             V == Unread(m.lines, k + 1, s)
  <1>1. 1 .. k + 1 = (1 .. k) \union {k + 1}
    OBVIOUS
  <1>2. V = U \ {m.lines[k + 1]}
    BY <1>1 DEF Unread
  <1>3. U \in SUBSET Range(m.lines)
    BY DEF Unread
  <1>4. IsFiniteSet(U)
    BY <1>3, LinesFinite, FS_Subset
  <1> HIDE DEF U, V
  <1>5. IsFiniteSet(V) /\ Cardinality(V) = IF m.lines[k + 1] \in U THEN Cardinality(U) - 1 ELSE Cardinality(U)
    BY <1>2, <1>4, FS_RemoveElement
  <1>6. Cardinality(U) \in Nat /\ Cardinality(V) \in Nat
    BY <1>4, <1>5, FS_CardinalityType
  <1>7. Cardinality(V) <= Cardinality(U)
    BY <1>5, <1>6
  <1>8. QED
    BY <1>2, <1>4, <1>5, <1>6, <1>7 DEF U, V

LEMMA FitsFinite ==
  ASSUME NEW hm, NEW s, DOMAIN hm = 0 .. Numbers - 1
  PROVE  IsFiniteSet(FitsIn(hm, s)) /\ Cardinality(FitsIn(hm, s)) \in Nat
         /\ FitsIn(hm, s) \subseteq Nat
  <1>1. IsFiniteSet(0 .. Numbers - 1)
    BY FS_Interval, SaveAssumption
  <1>2. FitsIn(hm, s) \in SUBSET (0 .. Numbers - 1)
    BY DEF FitsIn
  <1>3. IsFiniteSet(FitsIn(hm, s))
    BY <1>1, <1>2, FS_Subset
  <1>4. QED
    BY <1>2, <1>3, FS_CardinalityType, SaveAssumption

LEMMA EnoughNext ==
  ASSUME NEW m \in Machines, NEW k \in Nat, NEW hm, DOMAIN hm = 0 .. Numbers - 1, Enough(m, k, hm)
  PROVE  Enough(m, k + 1, hm)
  <1> SUFFICES ASSUME NEW l \in Range(m.lines), l.is = "disk", l.opens
               PROVE  Cardinality(Unread(m.lines, k + 1, l.size)) <= Cardinality(FitsIn(hm, l.size))
    BY DEF Enough
  <1>1. Cardinality(Unread(m.lines, k, l.size)) <= Cardinality(FitsIn(hm, l.size))
    BY DEF Enough
  <1>2. /\ Cardinality(Unread(m.lines, k, l.size)) \in Nat
        /\ Cardinality(Unread(m.lines, k + 1, l.size)) \in Nat
        /\ Cardinality(Unread(m.lines, k + 1, l.size)) <= Cardinality(Unread(m.lines, k, l.size))
    BY UnreadNext
  <1>3. Cardinality(FitsIn(hm, l.size)) \in Nat
    BY FitsFinite
  <1>4. QED
    BY <1>1, <1>2, <1>3

\* The disk just to be read is one of those counted.
LEMMA NextUnread ==
  ASSUME NEW m \in Machines, NEW k \in Nat, k + 1 <= Len(m.lines), m.lines[k + 1].is = "disk",
         m.lines[k + 1].opens
  PROVE  m.lines[k + 1] \in Unread(m.lines, k, m.lines[k + 1].size)
  <1>1. k + 1 \in 1 .. Len(m.lines) /\ \A i \in 1 .. k : i \in 1 .. Len(m.lines) /\ i # k + 1
    BY LinesType
  <1>2. m.lines[k + 1] \in Range(m.lines)
    BY <1>1, LineType
  <1>3. ASSUME NEW i \in 1 .. k, m.lines[i] = m.lines[k + 1] PROVE FALSE
    BY <1>1, <1>3, DiskNames
  <1>4. QED
    BY <1>2, <1>3 DEF Unread

LEMMA EnoughFits ==
  ASSUME NEW m \in Machines, NEW k \in Nat, k + 1 <= Len(m.lines), m.lines[k + 1].is = "disk",
         m.lines[k + 1].opens, NEW hm, DOMAIN hm = 0 .. Numbers - 1, Enough(m, k, hm)
  PROVE  FitsIn(hm, m.lines[k + 1].size) # {}
  <1> DEFINE s == m.lines[k + 1].size
             F == FitsIn(hm, s)
             U == Unread(m.lines, k, s)
  <1>1. m.lines[k + 1] \in U
    BY NextUnread
  <1>2. IsFiniteSet(U) /\ Cardinality(U) \in Nat
    BY UnreadNext
  <1>3. Cardinality(U) # 0
    <2> HIDE DEF U
    <2>1. QED
      BY <1>1, <1>2, FS_EmptySet
  <1>4. Cardinality(U) <= Cardinality(F)
    <2>1. k + 1 \in 1 .. Len(m.lines)
      BY LinesType
    <2>2. m.lines[k + 1] \in Range(m.lines)
      BY <2>1, LineType
    <2>3. QED
      BY <2>2 DEF Enough
  <1>5. Cardinality(F) \in Nat
    BY FitsFinite
  <1>6. Cardinality(F) # 0
    BY <1>2, <1>3, <1>4, <1>5
  <1>7. QED
    BY <1>6, FS_EmptySet

\* No two sizes that hdmap could mistake.
Unlike(m) == \A l, k \in Range(m.lines) : l.is = "disk" /\ l.opens /\ k.is = "disk" /\ k.opens
                                           => k.size \notin {l.size - 1, l.size + 1}

LEMMA EnoughDisk ==
  ASSUME NEW m \in Machines, NEW k \in Nat, k + 1 <= Len(m.lines), m.lines[k + 1].is = "disk",
         m.lines[k + 1].opens, NEW hm, DOMAIN hm = 0 .. Numbers - 1, Enough(m, k, hm), Unlike(m),
         NEW n \in FitsIn(hm, m.lines[k + 1].size)
  PROVE  Enough(m, k + 1, [hm EXCEPT ![n] = Used])
  <1> DEFINE d == m.lines[k + 1]
             hm2 == [hm EXCEPT ![n] = Used]
  <1>0. k + 1 \in 1 .. Len(m.lines)
    BY LinesType
  <1>1. d \in Range(m.lines) /\ d.size \in Nat
    BY <1>0, LineType
  <1>2. n \in DOMAIN hm /\ (hm[n] = d.size \/ hm[n] = d.size + 1)
    BY DEF FitsIn
  <1>3. DOMAIN hm2 = DOMAIN hm /\ hm2[n] = -1 /\ \A i \in DOMAIN hm : i # n => hm2[i] = hm[i]
    BY <1>2 DEF Used
  <1> HIDE DEF hm2
  <1> SUFFICES ASSUME NEW l \in Range(m.lines), l.is = "disk", l.opens
               PROVE  Cardinality(Unread(m.lines, k + 1, l.size)) <= Cardinality(FitsIn(hm2, l.size))
    BY DEF Enough, hm2
  <1>4. PICK i \in DOMAIN m.lines : l = m.lines[i]
    BY RangeElement
  <1>5. l.size \in Nat
    BY <1>4, LinesType, LineType
  <1>6. ~(-1 = l.size) /\ ~(-1 = l.size + 1)
    BY <1>5
  <1>7. FitsIn(hm2, l.size) = FitsIn(hm, l.size) \ {n}
    BY <1>3, <1>6 DEF FitsIn
  <1>8. Cardinality(Unread(m.lines, k, l.size)) <= Cardinality(FitsIn(hm, l.size))
    BY DEF Enough
  <1> DEFINE F == FitsIn(hm, l.size)
  <1>9. IsFiniteSet(F) /\ Cardinality(F) \in Nat
    BY FitsFinite
  <1>10. Cardinality(F \ {n}) = IF n \in F THEN Cardinality(F) - 1 ELSE Cardinality(F)
    <2> HIDE DEF F
    <2>1. QED
      BY <1>9, FS_RemoveElement
  <1>11. CASE l.size = d.size
    <2>1. d \in Unread(m.lines, k, l.size)
      BY <1>11, NextUnread
    <2>2. /\ Cardinality(Unread(m.lines, k, l.size)) \in Nat
          /\ Cardinality(Unread(m.lines, k + 1, l.size)) = Cardinality(Unread(m.lines, k, l.size)) - 1
      BY <2>1, UnreadNext
    <2>3. n \in F
      BY <1>11
    <2>4. QED
      BY <1>7, <1>8, <1>9, <1>10, <2>2, <2>3
  <1>12. CASE l.size # d.size
    <2>1. l.size # d.size - 1 /\ l.size # d.size + 1
      BY <1>1 DEF Unlike
    <2>2. hm[n] # l.size /\ hm[n] # l.size + 1
      BY <1>1, <1>2, <1>5, <1>12, <2>1, SMTT(30)
    <2>3. n \notin F
      BY <2>2 DEF FitsIn
    <2>4. /\ Cardinality(Unread(m.lines, k, l.size)) \in Nat
          /\ Cardinality(Unread(m.lines, k + 1, l.size)) \in Nat
          /\ Cardinality(Unread(m.lines, k + 1, l.size)) <= Cardinality(Unread(m.lines, k, l.size))
      BY UnreadNext
    <2>5. QED
      BY <1>7, <1>8, <1>9, <1>10, <2>3, <2>4
  <1>13. QED
    BY <1>11, <1>12

LEMMA ListedApart ==
  ASSUME machine \in Machines, machine.has_hdmap, Listed
  PROVE  Unlike(machine)
  <1>1. \A l \in Disks : \A k \in Disks : k.size \notin {l.size - 1, l.size + 1}
    BY DEF Listed
  <1>2. QED
    BY <1>1 DEF Unlike, Disks, Lines

LEMMA EnoughFirst ==
  ASSUME machine \in Machines, machine.has_hdmap, Listed,
         hdmap = [i \in 0 .. Numbers - 1 |-> IF i \in DOMAIN machine.map THEN machine.map[i] ELSE Used]
  PROVE  Enough(machine, 0, hdmap)
  <1> SUFFICES ASSUME NEW l \in Range(machine.lines), l.is = "disk", l.opens
               PROVE  Cardinality(Unread(machine.lines, 0, l.size)) <= Cardinality(FitsIn(hdmap, l.size))
    BY DEF Enough
  <1>1. PICK i \in DOMAIN machine.lines : l = machine.lines[i]
    BY RangeElement
  <1>2. l.size \in Nat
    BY <1>1, LinesType, LineType
  <1>3. Unread(machine.lines, 0, l.size) = {m \in Disks : m.size = l.size}
    <2>1. 1 .. 0 = {}
      OBVIOUS
    <2>2. QED
      BY <2>1 DEF Unread, Disks, Lines
  <1>4. FitsIn(hdmap, l.size) = {j \in DOMAIN machine.map : machine.map[j] \in {l.size, l.size + 1}}
    <2>1. DOMAIN machine.map \subseteq 0 .. Numbers - 1
      BY MapType
    <2>2. /\ DOMAIN hdmap = 0 .. Numbers - 1
          /\ \A j \in 0 .. Numbers - 1 : hdmap[j] = IF j \in DOMAIN machine.map THEN machine.map[j] ELSE Used
      OBVIOUS
    <2>3. Used \notin {l.size, l.size + 1}
      BY <1>2 DEF Used
    <2>4. QED
      BY <2>1, <2>2, <2>3 DEF FitsIn
  <1>5. l \in Disks
    BY DEF Disks, Lines
  <1>6. QED
    BY <1>3, <1>4, <1>5 DEF Listed

--------------------------------------------------------------------------------
(* The invariant: initially, and in the steps that leave the save alone.    *)

LEMMA InitSave == Init => SaveInv
  <1> SUFFICES ASSUME Init PROVE SaveInv
    OBVIOUS
  <1>1. /\ machine \in Machines /\ phase = "save" /\ line = 0 /\ dnum = -1 /\ lastnum = -1
        /\ ~should_backup_lvm /\ should_backup_lvm \in BOOLEAN
        /\ tabs = <<>> /\ images = <<>> /\ conf = <<>> /\ shown = {} /\ died = {}
        /\ cmd = 0 /\ target = <<>>
        /\ hdmap = [i \in 0 .. Numbers - 1 |-> IF i \in DOMAIN machine.map THEN machine.map[i] ELSE Used]
    BY DEF Init
  <1>2. DOMAIN <<>> = {} /\ Range(<<>>) = {} /\ <<>> \in Seq({}) /\ Len(<<>>) = 0
    BY EmptySeq DEF Range
  <1>3. 1 .. 0 = {}
    OBVIOUS
  <1>4. Basic
    <2>1. DOMAIN hdmap = 0 .. Numbers - 1 /\ \A i \in DOMAIN hdmap : hdmap[i] \in Nat \union {Used}
      BY <1>1, MapType
    <2>2. line \in 0 .. Len(machine.lines) /\ lastnum \in -1 .. Numbers - 1 + line
      BY <1>1, LinesType, SaveAssumption
    <2>3. cmd \in 0 .. Len(conf) /\ conf \in Seq(Range(conf))
          /\ shown \subseteq Lines /\ died \subseteq Lines
      BY <1>1, <1>2
    <2>4. phase \in {"save", "refused"} => DOMAIN target = {} /\ cmd = 0
      BY <1>1, <1>2
    <2>5. QED
      BY <1>1, <2>1, <2>2, <2>3, <2>4 DEF Basic
  <1>5. Tables(machine.lines, line, tabs) /\ Current(machine.lines, line, tabs, dnum)
    BY <1>1, <1>2, <1>3 DEF Tables, Current
  <1>6. Commands(machine.lines, line, tabs, conf) /\ Images(machine.lines, line, tabs, images)
    BY <1>1, <1>2 DEF Commands, Images
  <1>7. Ordered(tabs, images, conf) /\ Own(machine.lines, tabs, conf)
    BY <1>1, <1>2 DEF Ordered, Own, Distinct
  <1>8. Numbered(machine, line, hdmap, lastnum, tabs)
    <2>1. Separate(tabs) /\ \A n \in DOMAIN tabs : FALSE
      BY <1>1, <1>2 DEF Separate
    <2>2. Listed /\ machine.has_hdmap => Enough(machine, line, hdmap)
      BY <1>1, EnoughFirst
    <2>3. QED
      BY <2>1, <2>2 DEF Numbered
  <1>9. Passed(machine, line, tabs, images, shown, died, should_backup_lvm)
        /\ LvmKnown /\ Sized
    BY <1>1, <1>2, <1>3 DEF Passed, LvmKnown, Sized
  <1>10. Restored
    BY <1>1, <1>2, <1>3 DEF Restored, AtHome
  <1>11. QED
    BY <1>4, <1>5, <1>6, <1>7, <1>8, <1>9, <1>10 DEF SaveInv, Kept

LEMMA ListedSame ==
  ASSUME machine' = machine
  PROVE  Listed' = Listed
  BY DEF Listed, Disks, Lines

\* ttype, of the lines as an argument.
TypeIn(ls, l) ==
  LET asked == {k \in ls : k.is = "part" /\ k.disk = l.disk /\ k.num = poff(l)}
  IN  IF l.is = "dm" \/ asked = {} THEN "none" ELSE (CHOOSE k \in asked : TRUE).type

LEMMA ProgramSame ==
  ASSUME machine' = machine, NEW l
  PROVE  program(l)' = program(l) /\ Extent(l)' = Extent(l)
  <1>1. Lines' = Lines
    BY DEF Lines
  <1>2. ttype(l)' = ttype(l)
    <2>1. ttype(l) = TypeIn(Lines, l)
      BY DEF ttype, TypeIn
    <2>2. ttype(l)' = TypeIn(Lines', l)
      BY DEF ttype, TypeIn
    <2>3. QED
      BY <1>1, <2>1, <2>2
  <1>3. program(l)' = program(l)
    BY <1>2 DEF program
  <1>4. QED
    BY <1>3 DEF Extent

LEMMA LvmSame ==
  ASSUME machine' = machine, images' = images, should_backup_lvm' = should_backup_lvm,
         LvmKnown, Sized
  PROVE  LvmKnown' /\ Sized'
  <1>1. \A l : program(l)' = program(l) /\ Extent(l)' = Extent(l)
    BY ProgramSame
  <1>2. QED
    BY <1>1 DEF LvmKnown, Sized

\* A step that changes nothing that was saved.
LEMMA KeptSame ==
  ASSUME Kept, machine' = machine, UNCHANGED saveVars
  PROVE  Kept'
  <1>1. /\ line' = line /\ dnum' = dnum /\ lastnum' = lastnum /\ hdmap' = hdmap
        /\ should_backup_lvm' = should_backup_lvm /\ tabs' = tabs /\ images' = images
        /\ conf' = conf /\ shown' = shown /\ died' = died
    BY DEF saveVars
  <1>2. Numbered(machine, line, hdmap, lastnum, tabs)'
    BY <1>1, ListedSame DEF Kept, Numbered
  <1>3. LvmKnown' /\ Sized'
    BY <1>1, LvmSame DEF Kept
  <1>4. QED
    BY <1>1, <1>2, <1>3 DEF Kept

--------------------------------------------------------------------------------
(* The steps of the save.                                                   *)

\* The line that is read.
LEMMA ReadingLine ==
  ASSUME Basic, Reading
  PROVE  /\ machine \in Machines /\ phase = "save" /\ line \in Nat /\ line + 1 \in 1 .. Len(machine.lines)
         /\ line + 1 <= Len(machine.lines) /\ Line = machine.lines[line + 1] /\ Line \in Lines
         /\ Line.is \in {"disk", "part", "dm"} /\ Line.opens \in BOOLEAN /\ Line.num \in Nat
         /\ Line.start \in Nat /\ Line.size \in Nat
  <1>1. machine \in Machines /\ line \in 0 .. Len(machine.lines) /\ line < Len(machine.lines)
    BY DEF Basic, Reading
  <1>2. Len(machine.lines) \in Nat
    BY <1>1, LinesType
  <1>3. line \in Nat /\ line + 1 \in 1 .. Len(machine.lines) /\ line + 1 <= Len(machine.lines)
    BY <1>1, <1>2
  <1>4. QED
    BY <1>1, <1>3, LineType DEF Line, Lines, Reading

\* What of Basic a step of the save has to see to.
LEMMA BasicNext ==
  ASSUME Basic, Reading, machine' = machine, phase' = phase, line' = line + 1, cmd' = cmd,
         target' = target, lastnum' \in -1 .. Numbers - 1 + (line + 1),
         should_backup_lvm' \in BOOLEAN, conf' \in Seq(Range(conf')), shown' \subseteq Lines,
         died' \subseteq Lines, DOMAIN hdmap' = 0 .. Numbers - 1, \A i \in DOMAIN hdmap' : hdmap'[i] \in Nat \union {Used}
  PROVE  Basic'
  <1>1. /\ machine \in Machines /\ phase = "save" /\ line \in Nat /\ line + 1 <= Len(machine.lines)
        /\ Len(machine.lines) \in Nat
    BY ReadingLine, LinesType
  <1>2. DOMAIN target = {} /\ cmd = 0
    BY <1>1 DEF Basic
  <1>3. Len(conf') \in Nat
    BY SeqLen
  <1>4. line' \in 0 .. Len(machine'.lines) /\ cmd' \in 0 .. Len(conf')
    BY <1>1, <1>2, <1>3
  <1>5. lastnum' \in -1 .. Numbers - 1 + line'
    OBVIOUS
  <1>6. shown' \subseteq Lines' /\ died' \subseteq Lines'
    BY DEF Lines
  <1>7. QED
    BY <1>1, <1>2, <1>4, <1>5, <1>6 DEF Basic

LEMMA UnopenedStep ==
  ASSUME Basic, Kept, Unopened
  PROVE  Basic' /\ Kept'
  <1> DEFINE ls == machine.lines
  <1>1. /\ machine' = machine /\ phase' = phase /\ line' = line + 1 /\ lastnum' = lastnum /\ hdmap' = hdmap
        /\ should_backup_lvm' = should_backup_lvm /\ tabs' = tabs /\ images' = images /\ conf' = conf
        /\ shown' = shown /\ died' = died /\ cmd' = cmd /\ target' = target
        /\ ~Line.opens /\ Reading
        /\ Line.is # "dm" => dnum' = dnum
    BY DEF Unopened
  <1>2. /\ machine \in Machines /\ line \in Nat /\ line + 1 \in 1 .. Len(ls)
        /\ Line = ls[line + 1] /\ Line.is \in {"disk", "part", "dm"}
    BY <1>1, ReadingLine
  <1>3. Basic'
    <2>1. /\ lastnum \in -1 .. Numbers - 1 + line /\ DOMAIN hdmap = 0 .. Numbers - 1
          /\ should_backup_lvm \in BOOLEAN /\ conf \in Seq(Range(conf))
          /\ shown \subseteq Lines /\ died \subseteq Lines
          /\ \A i \in DOMAIN hdmap : hdmap[i] \in Nat \union {Used}
      BY DEF Basic
    <2>2. lastnum \in -1 .. Numbers - 1 + (line + 1)
      BY <1>2, <2>1, SaveAssumption
    <2>3. QED
      BY <1>1, <2>1, <2>2, BasicNext
  <1>4. Grows(tabs, tabs)
    BY GrowsSame
  <1>5. Tables(ls, line + 1, tabs)
    BY <1>2, TablesNext DEF Kept
  <1>6. Current(ls, line + 1, tabs, dnum')
    <2>1. CASE Line.is = "part"
      BY <1>1, <1>2, <1>4, <2>1, CurrentPart DEF Kept
    <2>2. CASE Line.is # "part"
      BY <1>1, <1>2, <2>2, CurrentDisk
    <2>3. QED
      BY <2>1, <2>2
  <1>7. Commands(ls, line + 1, tabs, conf) /\ Images(ls, line + 1, tabs, images)
    BY <1>2, <1>4, CommandsGrow, ImagesGrow DEF Kept
  <1>8. Numbered(machine, line, hdmap, lastnum, tabs)'
    <2>1. Listed' => Numbered(machine, line, hdmap, lastnum, tabs) /\ Listed
      BY <1>1, ListedSame DEF Kept
    <2>2. Enough(machine, line, hdmap) => Enough(machine, line + 1, hdmap)
      BY <1>2, EnoughNext DEF Basic
    <2>3. QED
      BY <1>1, <2>1, <2>2 DEF Numbered
  <1>9. Passed(machine, line + 1, tabs, images, shown, died, should_backup_lvm)
    <2>1. Settled(machine, ls[line + 1], tabs, images, shown, died, should_backup_lvm)
      BY <1>1, <1>2 DEF Settled, NoData
    <2>2. Passed(machine, line, tabs, images, shown, died, should_backup_lvm)
      BY DEF Kept
    <2>3. QED
      BY <1>2, <1>4, <2>1, <2>2, PassedNext, StaysSame
  <1>10. LvmKnown' /\ Sized'
    BY <1>1, LvmSame DEF Kept
  <1>11. Ordered(tabs, images, conf) /\ Own(ls, tabs, conf)
    BY DEF Kept
  <1>12. QED
    BY <1>1, <1>3, <1>5, <1>6, <1>7, <1>8, <1>9, <1>10, <1>11 DEF Kept

\* The number gethdbios gives.
LEMMA Gethdbios ==
  ASSUME Basic, Kept, Reading, Line.is = "disk", Line.opens, gethdbios(Line.size)
  PROVE  /\ lastnum' \in 0 .. Numbers - 1 + (line + 1)
         /\ DOMAIN hdmap' = 0 .. Numbers - 1
         /\ \A i \in DOMAIN hdmap' : hdmap'[i] \in Nat \union {Used}
         /\ Listed => /\ lastnum' \notin DOMAIN tabs
                      /\ machine.has_hdmap =>
                           /\ Enough(machine, line + 1, hdmap')
                           /\ \A n \in DOMAIN tabs \union {lastnum'} : n \in DOMAIN hdmap' /\ hdmap'[n] = Used
                      /\ ~machine.has_hdmap => \A n \in DOMAIN tabs \union {lastnum'} : n <= lastnum'
  <1> DEFINE s == Line.size
             F == FitsIn(hdmap, s)
             found == machine.has_hdmap /\ F # {}
  <1>1. /\ lastnum' = IF found THEN Min(F) ELSE lastnum + 1
        /\ hdmap' = IF found THEN [hdmap EXCEPT ![lastnum'] = Used] ELSE hdmap
    BY DEF gethdbios, Fits, FitsIn
  <1>2. /\ machine \in Machines /\ line \in Nat /\ line + 1 \in 1 .. Len(machine.lines)
        /\ line + 1 <= Len(machine.lines) /\ Line = machine.lines[line + 1] /\ s \in Nat
    BY ReadingLine
  <1>3. /\ lastnum \in -1 .. Numbers - 1 + line /\ DOMAIN hdmap = 0 .. Numbers - 1
        /\ \A i \in DOMAIN hdmap : hdmap[i] \in Nat \union {Used}
    BY DEF Basic
  <1>4. F \subseteq Nat /\ F \subseteq DOMAIN hdmap /\ \A i \in F : hdmap[i] = s \/ hdmap[i] = s + 1
    BY <1>3, FitsFinite DEF FitsIn
  <1>5. found => lastnum' \in F
    <2> HIDE DEF F
    <2>1. QED
      BY <1>1, <1>4, MinMember
  <1>6. lastnum' \in 0 .. Numbers - 1 + (line + 1)
    <2>1. CASE found
      <3>1. lastnum' \in 0 .. Numbers - 1
        BY <1>3, <1>4, <1>5, <2>1
      <3>2. QED
        BY <1>2, <3>1, SaveAssumption
    <2>2. CASE ~found
      <3>1. lastnum' = lastnum + 1
        BY <1>1, <2>2
      <3>2. QED
        BY <1>2, <1>3, <3>1, SaveAssumption
    <2>3. QED
      BY <2>1, <2>2
  <1>7. DOMAIN hdmap' = 0 .. Numbers - 1 /\ \A i \in DOMAIN hdmap' : hdmap'[i] \in Nat \union {Used}
    <2>1. CASE found
      <3>1. hdmap' = [hdmap EXCEPT ![lastnum'] = Used]
        BY <1>1, <2>1
      <3>2. QED
        BY <1>3, <3>1
    <2>2. CASE ~found
      BY <1>1, <1>3, <2>2
    <2>3. QED
      BY <2>1, <2>2
  <1>8. ASSUME Listed, machine.has_hdmap
        PROVE  /\ lastnum' \notin DOMAIN tabs
               /\ Enough(machine, line + 1, hdmap')
               /\ \A n \in DOMAIN tabs \union {lastnum'} : n \in DOMAIN hdmap' /\ hdmap'[n] = Used
    <2>1. Enough(machine, line, hdmap) /\ \A n \in DOMAIN tabs : n \in DOMAIN hdmap /\ hdmap[n] = Used
      BY <1>8 DEF Kept, Numbered
    <2>2. F # {}
      BY <1>2, <1>3, <2>1, EnoughFits
    <2>3. lastnum' \in F /\ hdmap' = [hdmap EXCEPT ![lastnum'] = Used]
      BY <1>1, <1>5, <1>8, <2>2
    <2>4. hdmap[lastnum'] # Used
      BY <1>2, <1>4, <2>3 DEF Used
    <2>5. Unlike(machine)
      BY <1>2, <1>8, ListedApart
    <2>6. Enough(machine, line + 1, hdmap')
      <3>1. PICK n \in F : n = lastnum'
        BY <2>3
      <3>2. Enough(machine, line + 1, [hdmap EXCEPT ![n] = Used])
        BY <1>2, <1>3, <2>1, <2>5, EnoughDisk
      <3>3. QED
        BY <2>3, <3>1, <3>2
    <2>7. \A n \in DOMAIN tabs \union {lastnum'} : n \in DOMAIN hdmap' /\ hdmap'[n] = Used
      <3>1. DOMAIN hdmap' = DOMAIN hdmap /\ hdmap'[lastnum'] = Used
            /\ \A n \in DOMAIN hdmap : n # lastnum' => hdmap'[n] = hdmap[n]
        BY <1>4, <2>3
      <3>2. lastnum' \in DOMAIN hdmap
        BY <1>4, <2>3
      <3>3. QED
        BY <2>1, <3>1, <3>2
    <2>8. QED
      BY <2>1, <2>4, <2>6, <2>7
  <1>9. ASSUME Listed, ~machine.has_hdmap
        PROVE  lastnum' \notin DOMAIN tabs /\ \A n \in DOMAIN tabs \union {lastnum'} : n <= lastnum'
    <2>1. \A n \in DOMAIN tabs : n <= lastnum
      BY <1>9 DEF Kept, Numbered
    <2>2. lastnum' = lastnum + 1
      BY <1>1, <1>9
    <2>3. \A n \in DOMAIN tabs : n \in Int
      BY SaveAssumption, <1>2 DEF Kept, Tables
    <2>4. QED
      BY <1>3, <2>1, <2>2, <2>3
  <1>10. QED
    BY <1>6, <1>7, <1>8, <1>9

LEMMA Within ==
  ASSUME NEW a \in Nat, NEW b \in Int, NEW z \in Int, b <= z
  PROVE  a .. b \subseteq 0 .. z
  OBVIOUS

LEMMA FirstSector == 0 \in 0 .. BOOT - 1
  BY SMTT(40), SizesNat

\* The sectors of a disk that are saved.
LEMMA DiskSectors ==
  ASSUME NEW m \in Machines, NEW k \in 1 .. Len(m.lines), m.lines[k].is = "disk"
  PROVE  LET ss == Sectors(m.lines[k].ldm[1], m.lines[k].ldm[1] + m.lines[k].ldm[2] - 1)
                     \o Sectors(0, BOOT - 1)
         IN  ss \in Seq(Range(ss)) /\ Range(ss) # {} /\ Range(ss) \subseteq 0 .. m.lines[k].size - 1
  <1>1. PICK a \in Nat, b \in Nat, z \in Nat :
             /\ a = m.lines[k].ldm[1] /\ b = m.lines[k].ldm[2] /\ z = m.lines[k].size
             /\ BOOT <= z /\ a + b <= z
    BY DiskLine, LineType
  <1> DEFINE s == Sectors(a, a + b - 1)
             t == Sectors(0, BOOT - 1)
  <1>2. s \in Seq(Range(s)) /\ Range(s) = a .. a + b - 1
    <2>1. a + b - 1 \in Int /\ a - 1 <= a + b - 1
      OBVIOUS
    <2>2. QED
      BY <2>1, SectorsRange
  <1>3. t \in Seq(Range(t)) /\ Range(t) = 0 .. BOOT - 1
    <2>1. BOOT - 1 \in Int /\ 0 - 1 <= BOOT - 1 /\ 0 \in Nat
      BY SizesNat
    <2>2. QED
      BY <2>1, SectorsRange
  <1>4. a .. a + b - 1 \subseteq 0 .. z - 1 /\ 0 .. BOOT - 1 \subseteq 0 .. z - 1 /\ 0 \in 0 .. BOOT - 1
    <2>0. a + b <= z /\ BOOT <= z
      BY <1>1
    <2>1. a + b - 1 \in Int /\ z - 1 \in Int /\ a + b - 1 <= z - 1
      BY <2>0
    <2>2. BOOT - 1 \in Int /\ BOOT - 1 <= z - 1 /\ 0 \in Nat
      BY <2>0, SizesNat
    <2>3. a .. a + b - 1 \subseteq 0 .. z - 1
      BY <2>1, Within
    <2>4. 0 .. BOOT - 1 \subseteq 0 .. z - 1
      BY <2>1, <2>2, Within
    <2>5. QED
      BY <2>3, <2>4, FirstSector
  <1> HIDE DEF s, t
  <1>5. s \o t \in Seq(Range(s \o t)) /\ Range(s \o t) = Range(s) \union Range(t)
    BY <1>2, <1>3, RangeConcat
  <1>6. QED
    BY <1>1, <1>2, <1>3, <1>4, <1>5 DEF s, t

LEMMA DiskStep ==
  ASSUME Basic, Kept, Disk
  PROVE  Basic' /\ Kept'
  <1> DEFINE ls == machine.lines
             ss == Sectors(Line.ldm[1], Line.ldm[1] + Line.ldm[2] - 1) \o Sectors(0, BOOT - 1)
             c == [op |-> "ptabs", hd |-> dnum']
  <1>1. /\ machine' = machine /\ phase' = phase /\ line' = line + 1 /\ dnum' = lastnum'
        /\ should_backup_lvm' = should_backup_lvm /\ images' = images
        /\ shown' = shown /\ died' = died /\ cmd' = cmd /\ target' = target
        /\ Reading /\ Line.opens /\ Line.is = "disk"
        /\ conf' = Append(conf, c) /\ gethdbios(Line.size)
    BY DEF Disk
  <1>2. save_raw(dnum', Line, ss)
    BY DEF Disk
  <1>3. /\ machine \in Machines /\ line \in Nat /\ line + 1 \in 1 .. Len(ls) /\ line + 1 <= Len(ls)
        /\ Line = ls[line + 1]
    BY <1>1, ReadingLine
  <1>4. /\ lastnum' \in 0 .. Numbers - 1 + (line + 1)
        /\ DOMAIN hdmap' = 0 .. Numbers - 1
        /\ \A i \in DOMAIN hdmap' : hdmap'[i] \in Nat \union {Used}
    BY <1>1, Gethdbios
  <1>5. conf \in Seq(Range(conf))
    BY DEF Basic
  <1>6. Basic'
    <2>1. should_backup_lvm \in BOOLEAN /\ shown \subseteq Lines /\ died \subseteq Lines
      BY DEF Basic
    <2>2. lastnum' \in -1 .. Numbers - 1 + (line + 1)
      BY <1>3, <1>4, SizesNat
    <2>3. conf' \in Seq(Range(conf'))
      BY <1>1, <1>5, RangeAppend
    <2>4. QED
      BY <1>1, <1>4, <2>1, <2>2, <2>3, BasicNext
  <1>7. ss \in Seq(Range(ss)) /\ Range(ss) # {} /\ Range(ss) \subseteq 0 .. Line.size - 1
    BY <1>1, <1>3, DiskSectors
  <1>8. PICK tb2, n, S : /\ tb2 = tabs' /\ n = dnum' /\ S = Range(ss)
    OBVIOUS
  <1> HIDE DEF ss
  <1>9. Adds(tabs, tb2, n, Line.disk, S)
    <2>1. \A i \in DOMAIN tabs : tabs[i] \in Seq(Range(tabs[i]))
      BY DEF Kept, Tables
    <2>2. QED
      BY <1>2, <1>7, <1>8, <2>1, SaveRaw
  <1>10. Grows(tabs, tb2) /\ Holds(tb2, n, Line.disk) /\ n \in DOMAIN tb2
    BY <1>7, <1>8, <1>9, AddsGrows, AddsHolds DEF Holds
  <1>11. Tables(ls, line + 1, tb2)
    <2>1. Tables(ls, line + 1, tabs)
      BY <1>3, TablesNext DEF Kept
    <2>2. line + 1 \in Nat /\ line + 1 \in 1 .. line + 1 /\ n \in 0 .. Numbers - 1 + (line + 1)
      BY <1>1, <1>3, <1>4, <1>8
    <2>3. QED
      BY <1>1, <1>3, <1>7, <1>8, <1>9, <2>1, <2>2, TablesAdds
  <1>12. Current(ls, line + 1, tb2, n)
    BY <1>1, <1>3, <1>10, CurrentDisk
  <1>13. Commands(ls, line + 1, tb2, conf')
    <2>1. Commands(ls, line + 1, tb2, conf)
      BY <1>3, <1>10, CommandsGrow DEF Kept
    <2>2. Good(ls, line + 1, tb2, c)
      BY <1>8, <1>10 DEF Good
    <2>3. line + 1 \in Nat
      BY <1>3
    <2>4. Commands(ls, line + 1, tb2, Append(conf, c))
      BY <1>5, <2>1, <2>2, <2>3, CommandsAppend
    <2>5. QED
      BY <1>1, <2>4
  <1>14. Images(ls, line + 1, tb2, images)
    BY <1>3, <1>10, ImagesGrow DEF Kept
  <1>15. Ordered(tb2, images, conf')
    <2>1. Ordered(tabs, images, conf)
      BY DEF Kept
    <2>2. c.op = "ptabs" /\ c.hd = n
      BY <1>8
    <2>3. DOMAIN tb2 = DOMAIN tabs \union {n}
      BY <1>9 DEF Adds
    <2>4. conf' = Append(conf, c)
      BY <1>1
    <2> HIDE DEF c
    <2>5. Ordered(tabs, images, conf')
      BY <1>5, <2>1, <2>4, OrderedAppend
    <2>6. \E i \in DOMAIN conf' : conf'[i] = c
      BY <1>5, <2>4, AppendLast
    <2>7. QED
      BY <2>2, <2>3, <2>5, <2>6 DEF Ordered
  <1>16. Own(ls, tb2, conf')
    <2>1. Tables(ls, line, tabs) /\ Commands(ls, line, tabs, conf) /\ Own(ls, tabs, conf)
      BY DEF Kept
    <2>2. Own(ls, tb2, Append(conf, [op |-> "ptabs", hd |-> n]))
      BY <1>1, <1>3, <1>5, <1>10, <2>1, OwnDisk
    <2>3. QED
      BY <1>1, <1>8, <2>2
  <1>17. Numbered(machine, line, hdmap, lastnum, tabs)'
    <2> SUFFICES ASSUME Listed
                 PROVE  /\ Separate(tb2)
                        /\ machine.has_hdmap => /\ Enough(machine, line + 1, hdmap')
                                                /\ \A i \in DOMAIN tb2 : i \in DOMAIN hdmap' /\ hdmap'[i] = Used
                        /\ ~machine.has_hdmap => \A i \in DOMAIN tb2 : i <= lastnum'
      BY <1>1, <1>8, ListedSame DEF Numbered
    <2>1. /\ n \notin DOMAIN tabs
          /\ machine.has_hdmap =>
               /\ Enough(machine, line + 1, hdmap')
               /\ \A i \in DOMAIN tabs \union {n} : i \in DOMAIN hdmap' /\ hdmap'[i] = Used
          /\ ~machine.has_hdmap => \A i \in DOMAIN tabs \union {n} : i <= lastnum'
      BY <1>1, <1>8, Gethdbios
    <2>2. Separate(tabs)
      BY DEF Kept, Numbered
    <2>3. Separate(tb2)
      BY <1>9, <2>1, <2>2, AddsSeparate
    <2>4. DOMAIN tb2 = DOMAIN tabs \union {n}
      BY <1>9 DEF Adds
    <2>5. QED
      BY <2>1, <2>3, <2>4
  <1>18. Passed(machine, line + 1, tb2, images, shown, died, should_backup_lvm)
    <2>1. Settled(machine, ls[line + 1], tb2, images, shown, died, should_backup_lvm)
      BY <1>1, <1>3 DEF Settled, NoData
    <2>2. Passed(machine, line, tabs, images, shown, died, should_backup_lvm)
      BY DEF Kept
    <2>3. QED
      BY <1>3, <1>10, <2>1, <2>2, PassedNext, StaysSame
  <1>19. LvmKnown' /\ Sized'
    BY <1>1, LvmSame DEF Kept
  <1>20. Kept'
    BY <1>1, <1>8, <1>11, <1>12, <1>13, <1>14, <1>15, <1>16, <1>17, <1>18, <1>19 DEF Kept
  <1>21. QED
    BY <1>6, <1>20

\* The sectors of a partition that are saved, within the disk it is on.
LEMMA BootSectors ==
  ASSUME Basic, Reading, NEW z \in Nat, Line.start + BOOT <= z
  PROVE  Boot \in Seq(Range(Boot)) /\ Range(Boot) # {} /\ Range(Boot) \subseteq 0 .. z - 1
  <1> DEFINE first == IF poff(Line) < 5 THEN Line.start
                      ELSE IF Line.start <= BOOT THEN 0 ELSE Line.start - BOOT
  <1>1. PICK a \in Nat, st \in Nat : a = first /\ st = Line.start /\ a <= st
    <2>1. Line.start \in Nat
      BY ReadingLine
    <2>2. first \in Nat /\ first <= Line.start
      BY <2>1, SizesNat
    <2>3. QED
      BY <2>1, <2>2
  <1>2. a <= st /\ st + BOOT <= z
    BY <1>1
  <1>3. Boot = Sectors(a, st + BOOT - 1)
    BY <1>1 DEF Boot
  <1> HIDE DEF first
  <1>4. /\ st + BOOT - 1 \in Int /\ a - 1 <= st + BOOT - 1 /\ z - 1 \in Int /\ st + BOOT - 1 <= z - 1
        /\ a \in a .. st + BOOT - 1
    BY <1>2, SizesNat
  <1>5. /\ Sectors(a, st + BOOT - 1) \in Seq(Range(Sectors(a, st + BOOT - 1)))
        /\ Range(Sectors(a, st + BOOT - 1)) = a .. st + BOOT - 1
    BY <1>4, SectorsRange
  <1>6. a .. st + BOOT - 1 \subseteq 0 .. z - 1
    BY <1>4, Within
  <1>7. QED
    BY <1>3, <1>4, <1>5, <1>6

\* A line that gets a command, and an image if a program knows it.
Takes(im, im2, c, l) == im2 = im \/ \E e : e.of = l /\ Names(im, im2, c.hd, c.num, e)

LEMMA CopyKept ==
  ASSUME NEW m \in Machines, NEW k \in Nat, k + 1 <= Len(m.lines), NEW tb, NEW tb2, NEW cs, NEW c,
         NEW im, NEW im2, cs \in Seq(Range(cs)), DOMAIN tb2 = DOMAIN tb, Grows(tb, tb2),
         Tables(m.lines, k + 1, tb2), Partcopied(m.lines, k + 1, tb2, c),
         Commands(m.lines, k, tb, cs), Images(m.lines, k, tb, im), Own(m.lines, tb, cs),
         Ordered(tb, im, cs), Takes(im, im2, c, m.lines[k + 1])
  PROVE  /\ Commands(m.lines, k + 1, tb2, Append(cs, c)) /\ Own(m.lines, tb2, Append(cs, c))
         /\ Images(m.lines, k + 1, tb2, im2) /\ Ordered(tb2, im2, Append(cs, c))
         /\ Separate(tb2) => Stays(m.lines, im, im2)
  <1> DEFINE ls == m.lines
  <1>0. PICK u : u = Append(cs, c)
    OBVIOUS
  <1>1. k + 1 \in Nat /\ k + 1 \in 1 .. k + 1
    OBVIOUS
  <1>2. Made(ls, k + 1, tb2, c.hd, c.num) /\ c.op = "partcopy"
    BY DEF Partcopied
  <1>3. Commands(ls, k + 1, tb2, u)
    <2>1. Commands(ls, k + 1, tb2, cs)
      BY CommandsGrow
    <2>2. Good(ls, k + 1, tb2, c)
      BY <1>1 DEF Good
    <2>3. QED
      BY <1>0, <1>1, <2>1, <2>2, CommandsAppend
  <1>4. Own(ls, tb2, u)
    BY <1>0, OwnCopy
  <1>5. Images(ls, k + 1, tb2, im)
    BY ImagesGrow
  <1>6. Images(ls, k + 1, tb2, im2)
    BY <1>1, <1>2, <1>5, ImagesNames DEF Takes
  <1>7. Ordered(tb, im, u) /\ \E i \in DOMAIN u : u[i] = c
    BY <1>0, OrderedAppend, AppendLast
  <1>8. \A n \in DOMAIN tb2 : \E i \in DOMAIN u : u[i].op = "ptabs" /\ u[i].hd = n
    BY <1>7 DEF Ordered
  <1>9. \A x \in DOMAIN im2 : \E i \in DOMAIN u :
          u[i].op = "partcopy" /\ u[i].hd = x[1] /\ u[i].num = x[2]
    <2> TAKE x \in DOMAIN im2
    <2>1. CASE x \in DOMAIN im
      BY <1>7, <2>1 DEF Ordered
    <2>2. CASE x \notin DOMAIN im
      <3>1. x = <<c.hd, c.num>>
        BY <2>2 DEF Takes, Names
      <3>2. x[1] = c.hd /\ x[2] = c.num
        BY <3>1
      <3>3. QED
        BY <1>2, <1>7, <3>2
    <2>3. QED
      BY <2>1, <2>2
  <1>10. Separate(tb2) => Stays(ls, im, im2)
    <2> SUFFICES ASSUME Separate(tb2), NEW e, Names(im, im2, c.hd, c.num, e)
                 PROVE  Stays(ls, im, im2)
      BY StaysSame DEF Takes
    <2>1. <<c.hd, c.num>> \in DOMAIN im => Twin(ls, im[<<c.hd, c.num>>].of)
      BY <1>2, NameNew
    <2>2. \A l \in Ended(im) : \/ l \in Ended(im2)
                               \/ <<c.hd, c.num>> \in DOMAIN im /\ l = im[<<c.hd, c.num>>].of
      BY NamesEnded
    <2>3. QED
      BY <2>1, <2>2, Zenon DEF Stays
  <1>11. Ordered(tb2, im2, u)
    BY <1>8, <1>9, Zenon DEF Ordered
  <1>12. QED
    BY <1>0, <1>3, <1>4, <1>6, <1>10, <1>11, Zenon

\* What the program run for the line leaves, and what is known of the line then.
LEMMA SaveIs ==
  ASSUME Basic, Kept, Reading, machine' = machine, NEW a, NEW b, Save(<<a, b>>),
         should_backup_lvm => should_backup_lvm',
         program(Line) = "lvm" => should_backup_lvm'
  PROVE  /\ images' = images \/ \E e : e.of = Line /\ Names(images, images', a, b, e)
         /\ shown \subseteq shown' /\ died \subseteq died'
         /\ shown' \subseteq shown \union {Line} /\ died' \subseteq died \union {Line}
         /\ Line \in shown' \/ Line \in died' \/ Line \in Ended(images')
         /\ LvmKnown' /\ Sized'
  <1> DEFINE name == <<a, b>>
             made(n, ended) == [m \in DOMAIN images \union {name} |->
                                  IF m = name THEN [of |-> Line, got |-> n, ended |-> ended]
                                  ELSE images[m]]
             E(n, ended) == [of |-> Line, got |-> n, ended |-> ended]
  <1>1. \A n, f : /\ Names(images, made(n, f), a, b, E(n, f))
                  /\ E(n, f).of = Line /\ E(n, f).got = n /\ E(n, f).ended = f
    BY DEF Names
  <1>2. \A l : program(l)' = program(l) /\ Extent(l)' = Extent(l)
    BY ProgramSame
  <1>3. Extent(Line) \in Nat
    BY ReadingLine, SizesNat DEF Extent
  <1>4. \/ images' = images /\ (Line \in shown' \/ Line \in died')
        \/ \E n \in 0 .. Extent(Line), f \in BOOLEAN :
             images' = made(n, f) /\ (f \/ Line \in died')
    <2>1. CASE images' = made(Extent(Line), TRUE)
      <3>1. Extent(Line) \in 0 .. Extent(Line)
        BY <1>3
      <3>2. QED
        BY <2>1, <3>1
    <2>2. CASE images' = images /\ (Line \in shown' \/ Line \in died')
      BY <2>2
    <2>3. CASE \E n \in 0 .. Extent(Line) : images' = made(n, FALSE) /\ Line \in died'
      BY <2>3
    <2>4. QED
      BY <2>1, <2>2, <2>3 DEF Save, Image
  <1>5. /\ shown \subseteq shown' /\ died \subseteq died'
        /\ shown' \subseteq shown \union {Line} /\ died' \subseteq died \union {Line}
    BY DEF Save, Image
  <1> HIDE DEF made, E
  <1>6. CASE images' = images /\ (Line \in shown' \/ Line \in died')
    <2>1. LvmKnown' /\ Sized'
      BY <1>2, <1>6 DEF Kept, LvmKnown, Sized
    <2>2. QED
      BY <1>5, <1>6, <2>1
  <1>7. CASE \E n \in 0 .. Extent(Line), f \in BOOLEAN :
               images' = made(n, f) /\ (f \/ Line \in died')
    <2>1. PICK n \in 0 .. Extent(Line), f \in BOOLEAN :
            images' = made(n, f) /\ (f \/ Line \in died')
      BY <1>7
    <2>2. PICK e : e.of = Line /\ e.got = n /\ e.ended = f /\ Names(images, images', a, b, e)
      BY <1>1, <2>1
    <2>3. Line \in died' \/ Line \in Ended(images')
      BY <2>1, <2>2, NamesEnded
    <2>4. \A x \in DOMAIN images' : images'[x] = e \/ (x \in DOMAIN images /\ images'[x] = images[x])
      BY <2>2 DEF Names
    <2>5. LvmKnown'
      BY <1>2, <2>2, <2>4 DEF Kept, LvmKnown
    <2>6. Sized'
      BY <1>2, <2>2, <2>4 DEF Kept, Sized
    <2>7. QED
      BY <1>5, <2>2, <2>3, <2>5, <2>6
  <1>8. QED
    BY <1>4, <1>6, <1>7

\* A partition whose type is that of an extended one holds no data, or has a twin.
LEMMA ExtendedLine ==
  ASSUME Basic, Reading, Line.is = "part", ttype(Line) = "extended"
  PROVE  NoData(Line) \/ Twin(machine.lines, Line)
  <1> DEFINE asked == {k \in Lines : k.is = "part" /\ k.disk = Line.disk /\ k.num = poff(Line)}
  <1>1. asked # {} /\ (CHOOSE k \in asked : TRUE).type = "extended"
    BY DEF ttype
  <1>2. PICK k \in asked : k.type = "extended"
    BY <1>1
  <1>3. k \in Range(machine.lines) /\ k.is = "part" /\ k.disk = Line.disk /\ k.num = Line.num % 16
    BY DEF poff, Lines
  <1>4. Line.num \in Nat
    BY ReadingLine
  <1>5. PICK n \in Nat : n = Line.num
    BY <1>4
  <1>6. (n % 16) % 16 = n % 16
    OBVIOUS
  <1>7. CASE k = Line
    BY <1>2, <1>7 DEF NoData
  <1>8. CASE k # Line
    <2>1. Alike(Line, k)
      BY <1>3, <1>5, <1>6, <1>8 DEF Alike
    <2>2. QED
      BY <1>3, <2>1 DEF Twin
  <1>9. QED
    BY <1>7, <1>8

LEMMA PartitionStep ==
  ASSUME Basic, Kept, Partition
  PROVE  Basic' /\ Kept'
  <1> DEFINE ls == machine.lines
             c == Partcopy(dnum, "none")
  <1>1. /\ machine' = machine /\ phase' = phase /\ line' = line + 1 /\ dnum' = dnum
        /\ lastnum' = lastnum /\ hdmap' = hdmap /\ cmd' = cmd /\ target' = target
        /\ Reading /\ Line.opens /\ Line.is = "part" /\ save_raw(dnum, Line, Boot)
    BY DEF Partition
  <1>2. /\ Saved => /\ conf' = Append(conf, c)
                    /\ should_backup_lvm' = (should_backup_lvm \/ program(Line) = "lvm")
                    /\ Save(<<dnum, poff(Line)>>)
        /\ ~Saved => /\ conf' = conf /\ images' = images /\ shown' = shown /\ died' = died
                     /\ should_backup_lvm' = should_backup_lvm
    BY DEF Partition, MetadataOnly
  <1>3. /\ machine \in Machines /\ line \in Nat /\ line + 1 \in 1 .. Len(ls) /\ line + 1 <= Len(ls)
        /\ Line = ls[line + 1] /\ Line \in Lines
    BY <1>1, ReadingLine
  <1>4. /\ conf \in Seq(Range(conf)) /\ should_backup_lvm \in BOOLEAN
        /\ shown \subseteq Lines /\ died \subseteq Lines
        /\ lastnum \in -1 .. Numbers - 1 + line /\ DOMAIN hdmap = 0 .. Numbers - 1
        /\ \A i \in DOMAIN hdmap : hdmap[i] \in Nat \union {Used}
    BY DEF Basic
  <1>5. Basic'
    <2>1. shown' \subseteq Lines /\ died' \subseteq Lines
      <3>1. shown' \subseteq shown \union {Line} /\ died' \subseteq died \union {Line}
        BY <1>2 DEF Save, Image
      <3>2. QED
        BY <1>3, <1>4, <3>1
    <2>2. lastnum' \in -1 .. Numbers - 1 + (line + 1)
      BY <1>1, <1>3, <1>4, SizesNat
    <2>3. conf' \in Seq(Range(conf'))
      <3>1. conf' = conf \/ conf' = Append(conf, c)
        BY <1>2
      <3> HIDE DEF c
      <3>2. Append(conf, c) \in Seq(Range(Append(conf, c)))
        BY <1>4, RangeAppend
      <3>3. QED
        BY <1>4, <3>1, <3>2
    <2>4. should_backup_lvm' \in BOOLEAN
      BY <1>2, <1>4
    <2>5. QED
      BY <1>1, <1>4, <2>1, <2>2, <2>3, <2>4, BasicNext
  <1>6. PICK i \in 1 .. line : /\ ls[i].is = "disk" /\ ls[i].opens /\ ls[i].disk = Line.disk
                               /\ Line.start + BOOT <= ls[i].size
                               /\ \A j \in i + 1 .. line : ls[j].is = "part"
    <2>1. PICK i \in 1 .. (line + 1) - 1 :
            /\ ls[i].is = "disk" /\ ls[i].opens /\ ls[i].disk = ls[line + 1].disk
            /\ ls[line + 1].start + BOOT <= ls[i].size
            /\ \A j \in i + 1 .. (line + 1) - 1 : ls[j].is = "part"
      BY <1>1, <1>3, PartLine
    <2>2. (line + 1) - 1 = line
      BY <1>3
    <2>3. QED
      BY <1>3, <2>1, <2>2
  <1>7. Holds(tabs, dnum, Line.disk)
    BY <1>6 DEF Kept, Current
  <1>8. Boot \in Seq(Range(Boot)) /\ Range(Boot) # {} /\ Range(Boot) \subseteq 0 .. ls[i].size - 1
    <2>1. i \in 1 .. Len(ls)
      BY <1>3, LinesType
    <2>2. ls[i].size \in Nat
      BY <1>3, <2>1, LineType
    <2>3. QED
      BY <1>1, <1>6, <2>2, BootSectors
  <1>9. PICK tb2, S : tb2 = tabs' /\ S = Range(Boot)
    OBVIOUS
  <1>10. Adds(tabs, tb2, dnum, Line.disk, S)
    <2>1. \A n \in DOMAIN tabs : tabs[n] \in Seq(Range(tabs[n]))
      BY DEF Kept, Tables
    <2>2. QED
      BY <1>1, <1>8, <1>9, <2>1, SaveRaw
  <1>11. Grows(tabs, tb2) /\ Holds(tb2, dnum, Line.disk) /\ DOMAIN tb2 = DOMAIN tabs
    <2>1. DOMAIN tb2 = DOMAIN tabs
      BY <1>7, <1>10 DEF Holds, Adds
    <2>2. QED
      BY <1>8, <1>9, <1>10, <2>1, AddsGrows, AddsHolds
  <1>12. Tables(ls, line + 1, tb2)
    <2>1. Tables(ls, line + 1, tabs)
      BY <1>3, TablesNext DEF Kept
    <2>2. line + 1 \in Nat /\ i \in 1 .. line + 1
      BY <1>3
    <2>3. dnum \in 0 .. Numbers - 1 + (line + 1)
      BY <1>7, <2>1 DEF Holds, Tables
    <2>4. QED
      BY <1>6, <1>8, <1>9, <1>10, <2>1, <2>2, <2>3, TablesAdds
  <1>13. Current(ls, line + 1, tb2, dnum)
    BY <1>1, <1>3, <1>11, CurrentPart DEF Kept
  <1>14. Numbered(machine, line, hdmap, lastnum, tabs)'
    <2> SUFFICES ASSUME Listed
                 PROVE  /\ Separate(tb2)
                        /\ machine.has_hdmap => /\ Enough(machine, line + 1, hdmap)
                                                /\ \A n \in DOMAIN tb2 : n \in DOMAIN hdmap /\ hdmap[n] = Used
                        /\ ~machine.has_hdmap => \A n \in DOMAIN tb2 : n <= lastnum
      BY <1>1, <1>9, ListedSame DEF Numbered
    <2>1. /\ Separate(tabs)
          /\ machine.has_hdmap => /\ Enough(machine, line, hdmap)
                                  /\ \A n \in DOMAIN tabs : n \in DOMAIN hdmap /\ hdmap[n] = Used
          /\ ~machine.has_hdmap => \A n \in DOMAIN tabs : n <= lastnum
      BY DEF Kept, Numbered
    <2>2. Separate(tb2)
      BY <1>7, <1>10, <2>1, AddsSeparate
    <2>3. Enough(machine, line, hdmap) => Enough(machine, line + 1, hdmap)
      BY <1>3, <1>4, EnoughNext
    <2>4. QED
      BY <1>11, <2>1, <2>2, <2>3
  <1>15. Made(ls, line + 1, tb2, dnum, poff(Line))
    BY <1>1, <1>3, <1>11 DEF Made
  <1>16. Partcopied(ls, line + 1, tb2, c) /\ c.hd = dnum /\ c.num = poff(Line)
    BY <1>1, <1>3, <1>15 DEF Partcopied, Partcopy
  <1> HIDE DEF c
  <1>17. /\ Commands(ls, line, tabs, conf) /\ Images(ls, line, tabs, images)
         /\ Own(ls, tabs, conf) /\ Ordered(tabs, images, conf)
         /\ Passed(machine, line, tabs, images, shown, died, should_backup_lvm)
    BY DEF Kept
  <1>18. \A j \in 1 .. line : ls[j].is # "dm"
    <2> SUFFICES ASSUME NEW j \in 1 .. line, ls[j].is = "dm" PROVE FALSE
      OBVIOUS
    <2>1. j \in 1 .. Len(ls) /\ j < line + 1
      BY <1>3, LinesType
    <2>2. ls[line + 1].is = "dm"
      BY <1>3, <2>1, VolumesLast
    <2>3. QED
      BY <1>1, <1>3, <2>2
  <1>19. CASE Saved
    <2>1. /\ conf' = Append(conf, c)
          /\ should_backup_lvm' = (should_backup_lvm \/ program(Line) = "lvm")
          /\ Save(<<dnum, poff(Line)>>)
      BY <1>2, <1>19
    <2>2. /\ images' = images \/ \E e : e.of = Line /\ Names(images, images', dnum, poff(Line), e)
          /\ shown \subseteq shown' /\ died \subseteq died'
          /\ Line \in shown' \/ Line \in died' \/ Line \in Ended(images')
          /\ LvmKnown' /\ Sized'
      BY <1>1, <2>1, SaveIs
    <2>3. Takes(images, images', c, Line)
      BY <1>16, <2>2 DEF Takes
    <2>4. /\ Commands(ls, line + 1, tb2, Append(conf, c)) /\ Own(ls, tb2, Append(conf, c))
          /\ Images(ls, line + 1, tb2, images') /\ Ordered(tb2, images', Append(conf, c))
          /\ Separate(tb2) => Stays(ls, images, images')
      BY <1>3, <1>4, <1>11, <1>12, <1>16, <1>17, <2>3, CopyKept
    <2>6. Settled(machine, ls[line + 1], tb2, images', shown', died', should_backup_lvm')
      BY <1>3, <2>2 DEF Settled
    <2>8. Passed(machine, line + 1, tb2, images', shown', died', should_backup_lvm')
      BY <1>3, <1>11, <1>17, <1>18, <2>2, <2>4, <2>6, PassedNext
    <2>10. Kept'
      BY <1>1, <1>9, <1>12, <1>13, <1>14, <2>1, <2>2, <2>4, <2>8 DEF Kept
    <2>11. QED
      BY <1>5, <2>10
  <1>20. CASE ~Saved
    <2>1. /\ conf' = conf /\ images' = images /\ shown' = shown /\ died' = died
          /\ should_backup_lvm' = should_backup_lvm
      BY <1>2, <1>20
    <2>2. Commands(ls, line + 1, tb2, conf) /\ Images(ls, line + 1, tb2, images)
      BY <1>3, <1>11, <1>17, CommandsGrow, ImagesGrow
    <2>3. Own(ls, tb2, conf) /\ Ordered(tb2, images, conf)
      BY <1>11, <1>17, GrowsSeparate DEF Own, Ordered
    <2>4. Settled(machine, ls[line + 1], tb2, images, shown, died, should_backup_lvm)
      <3>1. CASE isexcluded
        BY <1>3, <1>11, <3>1 DEF isexcluded, Settled, Holds
      <3>2. CASE ~isexcluded
        <4>0. ~(Line.size > BOOT) => NoData(Line)
          BY <1>1, ReadingLine, SizesNat DEF NoData
        <4>1. NoData(Line) \/ Twin(ls, Line)
          BY <1>1, <1>20, <3>2, <4>0, ExtendedLine DEF Saved
        <4>2. QED
          BY <1>3, <4>1 DEF Settled
      <3>3. QED
        BY <3>1, <3>2
    <2>5. Passed(machine, line + 1, tb2, images, shown, died, should_backup_lvm)
      BY <1>3, <1>11, <1>17, <2>4, PassedNext, StaysSame
    <2>6. LvmKnown' /\ Sized'
      BY <1>1, <2>1, LvmSame DEF Kept
    <2>7. Kept'
      BY <1>1, <1>9, <1>12, <1>13, <1>14, <2>1, <2>2, <2>3, <2>5, <2>6 DEF Kept
    <2>8. QED
      BY <1>5, <2>7
  <1>21. QED
    BY <1>19, <1>20

LEMMA VolumeStep ==
  ASSUME Basic, Kept, Volume
  PROVE  Basic' /\ Kept'
  <1> DEFINE ls == machine.lines
             n == Volume0 + Line.num
             c == Partcopy(n, Line.disk)
             told == should_backup_lvm /\ Line.size > BOOT
  <1>1. /\ machine' = machine /\ phase' = phase /\ line' = line + 1 /\ dnum' = n
        /\ lastnum' = lastnum /\ hdmap' = hdmap /\ cmd' = cmd /\ target' = target
        /\ should_backup_lvm' = should_backup_lvm /\ tabs' = tabs
        /\ Reading /\ Line.opens /\ Line.is = "dm"
    BY DEF Volume
  <1>2. /\ told => /\ conf' = Append(conf, c)
                   /\ Save(<<n, 0>>)
        /\ ~told => conf' = conf /\ images' = images /\ shown' = shown /\ died' = died
    BY DEF Volume
  <1>3. /\ machine \in Machines /\ line \in Nat /\ line + 1 \in 1 .. Len(ls) /\ line + 1 <= Len(ls)
        /\ Line = ls[line + 1] /\ Line \in Lines /\ Line.size \in Nat
    BY <1>1, ReadingLine
  <1>4. /\ conf \in Seq(Range(conf)) /\ should_backup_lvm \in BOOLEAN
        /\ shown \subseteq Lines /\ died \subseteq Lines
        /\ lastnum \in -1 .. Numbers - 1 + line /\ DOMAIN hdmap = 0 .. Numbers - 1
        /\ \A i \in DOMAIN hdmap : hdmap[i] \in Nat \union {Used}
    BY DEF Basic
  <1>5. Basic'
    <2>1. shown' \subseteq Lines /\ died' \subseteq Lines
      <3>1. shown' \subseteq shown \union {Line} /\ died' \subseteq died \union {Line}
        BY <1>2 DEF Save, Image
      <3>2. QED
        BY <1>3, <1>4, <3>1
    <2>2. lastnum' \in -1 .. Numbers - 1 + (line + 1)
      BY <1>1, <1>3, <1>4, SizesNat
    <2>3. conf' \in Seq(Range(conf'))
      <3>1. conf' = conf \/ conf' = Append(conf, c)
        BY <1>2
      <3> HIDE DEF c
      <3>2. Append(conf, c) \in Seq(Range(Append(conf, c)))
        BY <1>4, RangeAppend
      <3>3. QED
        BY <1>4, <3>1, <3>2
    <2>4. QED
      BY <1>1, <1>4, <2>1, <2>2, <2>3, BasicNext
  <1>6. Grows(tabs, tabs)
    BY GrowsSame
  <1>7. Tables(ls, line + 1, tabs)
    BY <1>3, TablesNext DEF Kept
  <1>8. Current(ls, line + 1, tabs, n)
    BY <1>1, <1>3, CurrentDisk
  <1>9. Numbered(machine, line, hdmap, lastnum, tabs)'
    <2>1. Listed' => Numbered(machine, line, hdmap, lastnum, tabs) /\ Listed
      BY <1>1, ListedSame DEF Kept
    <2>2. Enough(machine, line, hdmap) => Enough(machine, line + 1, hdmap)
      BY <1>3, <1>4, EnoughNext
    <2>3. QED
      BY <1>1, <2>1, <2>2 DEF Numbered
  <1>10. Partcopied(ls, line + 1, tabs, c) /\ c.hd = n /\ c.num = 0
    <2>1. Made(ls, line + 1, tabs, n, 0)
      BY <1>1, <1>3 DEF Made
    <2>2. QED
      BY <1>1, <1>3, <2>1 DEF Partcopied, Partcopy, poff
  <1> HIDE DEF c, n
  <1>11. /\ Commands(ls, line, tabs, conf) /\ Images(ls, line, tabs, images)
         /\ Own(ls, tabs, conf) /\ Ordered(tabs, images, conf)
         /\ Passed(machine, line, tabs, images, shown, died, should_backup_lvm)
    BY DEF Kept
  <1>12. CASE told
    <2>1. /\ conf' = Append(conf, c) /\ should_backup_lvm
          /\ Save(<<n, 0>>)
      BY <1>2, <1>12
    <2>2. /\ images' = images \/ \E e : e.of = Line /\ Names(images, images', n, 0, e)
          /\ shown \subseteq shown' /\ died \subseteq died'
          /\ Line \in shown' \/ Line \in died' \/ Line \in Ended(images')
          /\ LvmKnown' /\ Sized'
      BY <1>1, <2>1, SaveIs
    <2>3. Takes(images, images', c, Line)
      BY <1>10, <2>2 DEF Takes
    <2>4. /\ Commands(ls, line + 1, tabs, Append(conf, c)) /\ Own(ls, tabs, Append(conf, c))
          /\ Images(ls, line + 1, tabs, images') /\ Ordered(tabs, images', Append(conf, c))
          /\ Separate(tabs) => Stays(ls, images, images')
      BY <1>3, <1>4, <1>6, <1>7, <1>10, <1>11, <2>3, CopyKept
    <2>6. Settled(machine, ls[line + 1], tabs, images', shown', died', should_backup_lvm)
      BY <1>3, <2>2 DEF Settled
    <2>8. Passed(machine, line + 1, tabs, images', shown', died', should_backup_lvm)
      BY <1>3, <1>6, <1>11, <2>2, <2>4, <2>6, PassedNext
    <2>10. Kept'
      BY <1>1, <1>7, <1>8, <1>9, <2>1, <2>2, <2>4, <2>8 DEF Kept
    <2>11. QED
      BY <1>5, <2>10
  <1>13. CASE ~told
    <2>1. conf' = conf /\ images' = images /\ shown' = shown /\ died' = died
      BY <1>2, <1>13
    <2>2. Commands(ls, line + 1, tabs, conf) /\ Images(ls, line + 1, tabs, images)
      BY <1>3, <1>6, <1>11, CommandsGrow, ImagesGrow
    <2>3. Settled(machine, ls[line + 1], tabs, images, shown, died, should_backup_lvm)
      <3>1. CASE ~should_backup_lvm
        BY <1>1, <1>3, <3>1 DEF Settled
      <3>2. CASE should_backup_lvm
        <4>1. ~(Line.size > BOOT)
          BY <1>13, <3>2
        <4>2. NoData(Line)
          BY <1>3, <4>1, SizesNat DEF NoData
        <4>3. QED
          BY <1>3, <4>2 DEF Settled
      <3>3. QED
        BY <3>1, <3>2
    <2>4. Passed(machine, line + 1, tabs, images, shown, died, should_backup_lvm)
      BY <1>3, <1>6, <1>11, <2>3, PassedNext, StaysSame
    <2>5. LvmKnown' /\ Sized'
      BY <1>1, <2>1, LvmSame DEF Kept
    <2>6. Kept'
      BY <1>1, <1>7, <1>8, <1>9, <1>11, <2>1, <2>2, <2>4, <2>5 DEF Kept
    <2>7. QED
      BY <1>5, <2>6
  <1>14. QED
    BY <1>12, <1>13

--------------------------------------------------------------------------------
(* The steps of the restore.                                                *)

\* The place of a sector on a line's disk or volume.
OnLine(ls, x) == \E l \in Range(ls) : x[1] = l.disk /\ x[2] \in 0 .. l.start + l.size - 1

LEMMA WrittenHome ==
  ASSUME NEW ls, NEW d, NEW ws, NEW n \in Nat, DOMAIN ws = 1 .. n, AtHome(ls, target),
         \A j \in DOMAIN ws : ws[j][2] = <<d, ws[j][1]>> /\ OnLine(ls, <<d, ws[j][1]>>),
         Written(d, ws)
  PROVE  /\ AtHome(ls, target') /\ DOMAIN target \subseteq DOMAIN target'
         /\ \A j \in DOMAIN ws : <<d, ws[j][1]>> \in DOMAIN target'
  <1> DEFINE js(x) == {j \in DOMAIN ws : x = <<d, ws[j][1]>>}
             W == {<<d, ws[j][1]>> : j \in DOMAIN ws}
  <1>1. target' = [x \in DOMAIN target \union W |->
                     IF js(x) = {} THEN target[x] ELSE ws[Max(js(x))][2]]
    BY DEF Written
  <1>2. /\ DOMAIN target' = DOMAIN target \union W
        /\ \A x \in DOMAIN target \union W :
             target'[x] = IF js(x) = {} THEN target[x] ELSE ws[Max(js(x))][2]
    BY <1>1
  <1>3. \A j \in DOMAIN ws : <<d, ws[j][1]>> \in W
    OBVIOUS
  <1>4. ASSUME NEW x \in DOMAIN target \union W, js(x) # {}
        PROVE  target'[x] = x /\ OnLine(ls, x)
    <2>1. js(x) \subseteq 1 .. n
      OBVIOUS
    <2>2. PICK J : J = js(x)
      OBVIOUS
    <2>3. Max(J) \in J
      BY <1>4, <2>1, <2>2, MaxMember
    <2>4. Max(J) \in DOMAIN ws /\ x = <<d, ws[Max(J)][1]>>
      BY <2>2, <2>3
    <2>5. target'[x] = ws[Max(J)][2]
      BY <1>2, <1>4, <2>2
    <2>6. QED
      BY <2>4, <2>5
  <1>5. ASSUME NEW x \in DOMAIN target \union W, js(x) = {}
        PROVE  target'[x] = x /\ OnLine(ls, x)
    <2>1. x \notin W
      BY <1>5
    <2>2. target'[x] = target[x] /\ x \in DOMAIN target
      BY <1>2, <1>5, <2>1
    <2>3. QED
      BY <2>2 DEF AtHome, OnLine
  <1>6. AtHome(ls, target')
    <2>1. \A x \in DOMAIN target' : target'[x] = x /\ OnLine(ls, x)
      BY <1>2, <1>4, <1>5
    <2>2. QED
      BY <2>1 DEF AtHome, OnLine
  <1>7. QED
    BY <1>2, <1>3, <1>6

LEMMA InOrderSeparate ==
  ASSUME InOrder
  PROVE  Separate(tabs)
  BY DEF InOrder, Separate

LEMMA InOrderSame ==
  ASSUME machine' = machine, tabs' = tabs
  PROVE  InOrder' = InOrder
  BY DEF InOrder, restoremap

\* The disk a number is restored to.
LEMMA InOrderHolds ==
  ASSUME InOrder, NEW n, NEW d, Holds(tabs, n, d)
  PROVE  n \in DOMAIN restoremap /\ restoremap[n] = d
  BY DEF InOrder, Holds

LEMMA ApartSame ==
  ASSUME machine' = machine
  PROVE  Apart' = Apart
  BY DEF Apart, Doubled, Lines

LEMMA ExtentWithin ==
  ASSUME machine \in Machines, NEW k \in 1 .. Len(machine.lines)
  PROVE  Extent(machine.lines[k]) \in Nat /\ Extent(machine.lines[k]) <= machine.lines[k].size
  <1> DEFINE l == machine.lines[k]
  <1>1. l.size \in Nat /\ (l.fs = "lvm" => PE <= l.size)
    BY LineType
  <1>2. program(l) = "lvm" => l.fs = "lvm"
    BY LinesType DEF program
  <1>3. QED
    BY <1>1, <1>2, SizesNat DEF Extent

\* As long as nothing is restored there is nothing to show.
LEMMA RestoredNone ==
  ASSUME DOMAIN target' = {}, cmd' = 0
  PROVE  Restored'
  <1>1. 1 .. 0 = {}
    OBVIOUS
  <1>2. QED
    BY <1>1 DEF Restored, AtHome

\* The command just run adds to what is back, and takes nothing away.
LEMMA RestoredNext ==
  ASSUME Basic, Restoring, machine' = machine, UNCHANGED saveVars, cmd' = cmd + 1,
         InOrder /\ Apart => /\ AtHome(machine.lines, target')
                             /\ DOMAIN target \subseteq DOMAIN target'
                             /\ Back(images, tabs, Command, target'),
         Restored
  PROVE  Restored'
  <1>1. tabs' = tabs /\ images' = images /\ conf' = conf
    BY DEF saveVars
  <1>2. SUFFICES ASSUME InOrder, Apart
                 PROVE  /\ AtHome(machine.lines, target')
                        /\ \A i \in 1 .. cmd + 1 : Back(images, tabs, conf[i], target')
    BY <1>1, InOrderSame, ApartSame DEF Restored
  <1>3. cmd \in Nat
    BY DEF Basic
  <1>4. \A i \in 1 .. cmd : Back(images, tabs, conf[i], target)
    BY <1>2 DEF Restored
  <1>5. \A i \in 1 .. cmd + 1 : Back(images, tabs, conf[i], target')
    <2> TAKE i \in 1 .. cmd + 1
    <2>1. CASE i = cmd + 1
      BY <1>2, <2>1 DEF Command
    <2>2. CASE i # cmd + 1
      <3>1. i \in 1 .. cmd
        BY <1>3, <2>2
      <3>2. Back(images, tabs, conf[i], target) /\ DOMAIN target \subseteq DOMAIN target'
        BY <1>2, <1>4, <3>1
      <3>3. QED
        BY <3>2 DEF Back
    <2>3. QED
      BY <2>1, <2>2
  <1>6. QED
    BY <1>2, <1>5

\* The command that is run.
LEMMA CommandRun ==
  ASSUME Basic, Kept, Restoring
  PROVE  /\ machine \in Machines /\ line = Len(machine.lines) /\ line \in 0 .. Len(machine.lines)
         /\ Good(machine.lines, line, tabs, Command)
  <1>1. /\ machine \in Machines /\ phase = "restore" /\ conf \in Seq(Range(conf))
        /\ cmd \in 0 .. Len(conf) /\ cmd < Len(conf) /\ line \in 0 .. Len(machine.lines)
    BY DEF Basic, Restoring
  <1>2. line = Len(machine.lines)
    BY <1>1 DEF Basic
  <1>3. cmd + 1 \in DOMAIN conf
    BY <1>1, SeqLen
  <1>4. QED
    BY <1>1, <1>2, <1>3 DEF Kept, Commands, Good, Command

\* What of Basic a step of the restore has to see to.
LEMMA BasicRestoring ==
  ASSUME Basic, Restoring, machine' = machine, phase' \in {phase, "stuck"}, UNCHANGED saveVars,
         cmd' = cmd + 1
  PROVE  Basic'
  <1>1. /\ line' = line /\ lastnum' = lastnum /\ hdmap' = hdmap /\ conf' = conf /\ shown' = shown
        /\ should_backup_lvm' = should_backup_lvm /\ died' = died
    BY DEF saveVars
  <1>2. phase = "restore" /\ cmd < Len(conf) /\ cmd \in 0 .. Len(conf) /\ Len(conf) \in Nat
    BY SeqLen DEF Basic, Restoring
  <1>3. cmd' \in 0 .. Len(conf')
    BY <1>1, <1>2
  <1>4. Lines' = Lines
    BY DEF Lines
  <1>5. QED
    BY <1>1, <1>2, <1>3, <1>4 DEF Basic

LEMMA PtabsStep ==
  ASSUME Basic, Kept, Restored, Ptabs
  PROVE  Restored'
  <1> DEFINE ls == machine.lines
  <1>1. /\ Restoring /\ Command.op = "ptabs" /\ machine' = machine /\ UNCHANGED saveVars
        /\ cmd' = cmd + 1 /\ Written(restoremap[Command.hd], tabs[Command.hd])
    BY DEF Ptabs
  <1>2. /\ machine \in Machines /\ line = Len(ls) /\ line \in 0 .. Len(ls)
        /\ Good(ls, line, tabs, Command)
    BY <1>1, CommandRun
  <1>3. PICK n \in DOMAIN tabs : n = Command.hd
    BY <1>1, <1>2 DEF Good, Partcopied
  <1>4. /\ tabs[n] \in Seq(Range(tabs[n]))
        /\ \A w \in Range(tabs[n]) : \E i \in 1 .. line : Entry(ls, i, w)
    BY DEF Kept, Tables
  <1>5. PICK ws, d : ws = tabs[n] /\ d = restoremap[n]
    OBVIOUS
  <1>6. Len(ws) \in Nat /\ DOMAIN ws = 1 .. Len(ws)
    BY <1>4, <1>5, SeqLen
  <1>7. ASSUME InOrder, Apart
        PROVE  /\ AtHome(machine.lines, target') /\ DOMAIN target \subseteq DOMAIN target'
               /\ Back(images, tabs, Command, target')
    <2>1. \A j \in DOMAIN ws : ws[j][2] = <<d, ws[j][1]>> /\ OnLine(ls, <<d, ws[j][1]>>)
      <3> TAKE j \in DOMAIN ws
      <3>1. PICK w : w = ws[j]
        OBVIOUS
      <3>2. w \in Range(tabs[n])
        BY <1>5, <3>1, RangeMember
      <3>3. PICK i \in 1 .. line : Entry(ls, i, w)
        BY <1>4, <3>2
      <3>4. /\ w[2] = <<ls[i].disk, w[1]>> /\ w[1] \in 0 .. ls[i].size - 1 /\ ls[i].is = "disk"
        BY <3>3 DEF Entry
      <3>5. w[2][1] = d
        BY <1>5, <1>7, <3>2 DEF InOrder
      <3>6. ls[i].disk = d
        BY <3>4, <3>5
      <3>7. i \in 1 .. Len(ls)
        BY <1>2
      <3>8. ls[i] \in Range(ls) /\ ls[i].start = 0 /\ ls[i].size \in Nat
        BY <1>2, <3>4, <3>7, LineType, DiskLine
      <3>9. w[1] \in 0 .. ls[i].start + ls[i].size - 1
        BY <3>4, <3>8
      <3> DEFINE x == <<d, w[1]>>
      <3>10. x[1] = d /\ x[2] = w[1]
        OBVIOUS
      <3> HIDE DEF x
      <3>11. OnLine(ls, x)
        BY <3>6, <3>8, <3>9, <3>10 DEF OnLine
      <3>12. QED
        BY <3>1, <3>4, <3>6, <3>11 DEF x
    <2>2. Written(d, ws) /\ AtHome(ls, target)
      BY <1>1, <1>3, <1>5, <1>7 DEF Restored
    <2>3. /\ AtHome(ls, target') /\ DOMAIN target \subseteq DOMAIN target'
          /\ \A j \in DOMAIN ws : <<d, ws[j][1]>> \in DOMAIN target'
      BY <1>6, <2>1, <2>2, WrittenHome
    <2>4. \A w \in Range(tabs[n]) : w[2] \in DOMAIN target'
      <3> TAKE w \in Range(tabs[n])
      <3>1. PICK j \in DOMAIN ws : w = ws[j]
        BY <1>5, RangeElement
      <3>2. QED
        BY <2>1, <2>3, <3>1
    <2>5. Back(images, tabs, Command, target')
      BY <1>1, <1>3, <2>4 DEF Back
    <2>6. QED
      BY <2>3, <2>5
  <1>8. QED
    BY <1>1, <1>7, RestoredNext

\* The image of a command is the one of its line, and is written to the disk of it.
LEMMA CommandImage ==
  ASSUME Basic, Kept, Restoring, Command.op = "partcopy", InOrder, Apart
  PROVE  \E k \in 1 .. Len(machine.lines) :
           /\ Command.sect = machine.lines[k].start
           /\ <<Command.hd, Command.num>> \in DOMAIN images
                => images[<<Command.hd, Command.num>>].of = machine.lines[k]
           /\ \/ /\ Command.hd >= Volume0 /\ Command.dev = machine.lines[k].disk
              \/ /\ ~(Command.hd >= Volume0) /\ Command.hd \in DOMAIN restoremap
                 /\ restoremap[Command.hd] = machine.lines[k].disk
  <1> DEFINE ls == machine.lines
  <1>1. /\ machine \in Machines /\ line = Len(ls) /\ line \in 0 .. Len(ls)
        /\ Good(ls, line, tabs, Command)
    BY CommandRun
  <1>2. PICK k \in 1 .. Len(ls) : Partcopied(ls, k, tabs, Command)
    BY <1>1 DEF Good
  <1>3. PICK hd, num : hd = Command.hd /\ num = Command.num
    OBVIOUS
  <1>4. /\ Made(ls, k, tabs, hd, num) /\ Command.sect = ls[k].start
        /\ ls[k].is = "dm" => Command.dev = ls[k].disk
    BY <1>2, <1>3 DEF Partcopied
  <1>5. Tables(ls, line, tabs) /\ Images(ls, line, tabs, images)
    BY DEF Kept
  <1>6. ASSUME <<hd, num>> \in DOMAIN images
        PROVE  images[<<hd, num>>].of = ls[k]
    <2>1. PICK x : x = <<hd, num>>
      OBVIOUS
    <2>2. x[1] = hd /\ x[2] = num /\ x \in DOMAIN images
      BY <1>6, <2>1
    <2>3. PICK i \in 1 .. Len(ls) : Made(ls, i, tabs, hd, num) /\ images[x].of = ls[i]
      BY <1>1, <1>5, <2>2 DEF Images
    <2>4. i = k
      <3>1. i = k \/ Alike(ls[i], ls[k])
        BY <1>1, <1>4, <1>5, <2>3, InOrderSeparate, MadeOnce
      <3>2. ls[i] \in Lines /\ ls[k] \in Lines
        BY <1>1, LineType DEF Lines
      <3>3. QED
        BY <3>1, <3>2 DEF Apart, Doubled
    <2>5. QED
      BY <2>1, <2>3, <2>4
  <1>7. CASE ls[k].is = "dm"
    <2>1. hd = Volume0 + ls[k].num
      BY <1>4, <1>7 DEF Made
    <2>2. ls[k].num \in Nat
      BY <1>1, LineType
    <2>3. hd >= Volume0
      BY <2>1, <2>2, VolumeNat
    <2>4. QED
      BY <1>3, <1>4, <1>6, <1>7, <2>3
  <1>8. CASE ls[k].is # "dm"
    <2>1. Holds(tabs, hd, ls[k].disk)
      BY <1>4, <1>8 DEF Made
    <2>2. hd \in Nat /\ hd < Volume0
      BY <1>1, <1>5, <2>1, NumbersBelow DEF Holds
    <2>3. ~(hd >= Volume0)
      BY <2>2, VolumeNat
    <2>4. hd \in DOMAIN restoremap /\ restoremap[hd] = ls[k].disk
      BY <2>1, InOrderHolds
    <2>5. QED
      BY <1>3, <1>4, <1>6, <2>3, <2>4
  <1>9. QED
    BY <1>7, <1>8

LEMMA CopyStep ==
  ASSUME Basic, Kept, Restored, Copy
  PROVE  Restored'
  <1> DEFINE ls == machine.lines
             name == <<Command.hd, Command.num>>
             disk == IF Command.hd >= Volume0 THEN Command.dev ELSE restoremap[Command.hd]
  <1>1. /\ Restoring /\ Command.op = "partcopy" /\ machine' = machine /\ UNCHANGED saveVars
        /\ cmd' = cmd + 1
        /\ name \in DOMAIN images => Written(disk, Copied(images[name], Command.sect))
        /\ name \notin DOMAIN images => target' = target
    BY DEF Copy
  <1>2. machine \in Machines
    BY DEF Basic
  <1>3. ASSUME InOrder, Apart
        PROVE  /\ AtHome(machine.lines, target') /\ DOMAIN target \subseteq DOMAIN target'
               /\ Back(images, tabs, Command, target')
    <2>1. AtHome(ls, target)
      BY <1>3 DEF Restored
    <2>2. CASE name \notin DOMAIN images
      BY <1>1, <2>1, <2>2 DEF Back
    <2>3. CASE name \in DOMAIN images
      <3>1. PICK k \in 1 .. Len(ls) :
              /\ Command.sect = ls[k].start
              /\ name \in DOMAIN images => images[name].of = ls[k]
              /\ \/ Command.hd >= Volume0 /\ Command.dev = ls[k].disk
                 \/ /\ ~(Command.hd >= Volume0) /\ Command.hd \in DOMAIN restoremap
                    /\ restoremap[Command.hd] = ls[k].disk
        BY <1>1, <1>3, CommandImage
      <3>2. disk = ls[k].disk /\ images[name].of = ls[k] /\ Command.sect = ls[k].start
        BY <2>3, <3>1
      <3>3. PICK n \in Nat, st \in Nat, z \in Nat :
              n = images[name].got /\ st = ls[k].start /\ z = ls[k].size /\ n <= z
        <4>1. images[name].got \in 0 .. Extent(ls[k])
          BY <2>3, <3>2 DEF Kept, Sized
        <4>2. /\ Extent(ls[k]) \in Nat /\ Extent(ls[k]) <= ls[k].size
              /\ ls[k].start \in Nat /\ ls[k].size \in Nat
          BY <1>2, ExtentWithin, LineType
        <4>3. QED
          BY <4>1, <4>2
      <3>4. PICK d, ws : d = ls[k].disk /\ ws = Copied(images[name], st)
        OBVIOUS
      <3>5. ws = [j \in 1 .. n |-> <<st + j - 1, <<d, st + j - 1>>>>]
        BY <3>2, <3>3, <3>4 DEF Copied
      <3>6. DOMAIN ws = 1 .. n /\ \A j \in 1 .. n : ws[j][1] = st + j - 1 /\ ws[j][2] = <<d, ws[j][1]>>
        BY <3>5
      <3>7. \A j \in DOMAIN ws : ws[j][2] = <<d, ws[j][1]>> /\ OnLine(ls, <<d, ws[j][1]>>)
        <4> TAKE j \in DOMAIN ws
        <4>1. PICK s : s = ws[j][1]
          OBVIOUS
        <4>2. s = st + j - 1 /\ j \in 1 .. n
          BY <3>6, <4>1
        <4>3. n <= z
          BY <3>3
        <4>4. s \in 0 .. st + z - 1
          BY <4>2, <4>3
        <4>5. ls[k] \in Range(ls) /\ ls[k].disk = d /\ s \in 0 .. ls[k].start + ls[k].size - 1
          BY <1>2, <3>3, <3>4, <4>4, LineType
        <4> DEFINE x == <<d, s>>
        <4>6. x[1] = d /\ x[2] = s
          OBVIOUS
        <4> HIDE DEF x
        <4>7. OnLine(ls, x)
          BY <4>5, <4>6 DEF OnLine
        <4>8. QED
          BY <3>6, <4>1, <4>7 DEF x
      <3>8. Written(d, ws)
        BY <1>1, <2>3, <3>2, <3>3, <3>4
      <3>9. /\ AtHome(ls, target') /\ DOMAIN target \subseteq DOMAIN target'
            /\ \A j \in DOMAIN ws : <<d, ws[j][1]>> \in DOMAIN target'
        BY <2>1, <3>6, <3>7, <3>8, WrittenHome
      <3>10. \A s \in st .. st + n - 1 : <<d, s>> \in DOMAIN target'
        <4> TAKE s \in st .. st + n - 1
        <4>1. PICK j : j = s - st + 1
          OBVIOUS
        <4>2. j \in 1 .. n /\ st + j - 1 = s
          BY <4>1
        <4>3. j \in DOMAIN ws /\ ws[j][1] = s
          BY <3>6, <4>2
        <4>4. QED
          BY <3>9, <4>3
      <3>11. Back(images, tabs, Command, target')
        BY <1>1, <3>2, <3>3, <3>4, <3>10 DEF Back
      <3>12. QED
        BY <3>9, <3>11
    <2>4. QED
      BY <2>2, <2>3
  <1>4. QED
    BY <1>1, <1>3, RestoredNext

LEMMA NoDiskStep ==
  ASSUME Basic, Kept, Restored, NoDisk
  PROVE  Restored'
  <1> DEFINE ls == machine.lines
  <1>1. /\ Restoring /\ machine' = machine /\ UNCHANGED saveVars /\ cmd' = cmd + 1
        /\ Command.hd \notin DOMAIN restoremap /\ Command.hd < Volume0
    BY DEF NoDisk
  <1>2. ASSUME InOrder, Apart PROVE FALSE
    <2>1. CASE Command.op = "ptabs"
      <3>1. Command.hd \in DOMAIN tabs
        BY <1>1, <2>1, CommandRun DEF Good, Partcopied
      <3>2. QED
        BY <1>1, <1>2, <3>1 DEF InOrder
    <2>2. CASE Command.op # "ptabs"
      <3>1. PICK k \in 1 .. Len(ls) : Partcopied(ls, k, tabs, Command)
        BY <1>1, <2>2, CommandRun DEF Good
      <3>2. Made(ls, k, tabs, Command.hd, Command.num)
        BY <3>1 DEF Partcopied
      <3>3. machine \in Machines /\ ls[k].num \in Nat
        BY LineType DEF Basic
      <3>4. CASE ls[k].is = "dm"
        <4>1. PICK num \in Nat : num = ls[k].num
          BY <3>3
        <4>2. PICK hd : hd = Command.hd
          OBVIOUS
        <4>3. hd = Volume0 + num /\ hd < Volume0
          BY <1>1, <3>2, <3>4, <4>1, <4>2 DEF Made
        <4>4. QED
          BY <4>3, VolumeNat
      <3>5. CASE ls[k].is # "dm"
        BY <1>1, <1>2, <3>2, <3>5, InOrderHolds DEF Made
      <3>6. QED
        BY <3>4, <3>5
    <2>3. QED
      BY <2>1, <2>2
  <1>3. QED
    BY <1>1, <1>2, RestoredNext
--------------------------------------------------------------------------------
(* The invariant.                                                           *)

LEMMA SaveStep == SaveInv /\ [Next]_vars => SaveInv'
  <1> SUFFICES ASSUME SaveInv, [Next]_vars PROVE SaveInv'
    OBVIOUS
  <1>0. Basic /\ Kept /\ Restored
    BY DEF SaveInv
  <1>1. ASSUME Basic', Kept', phase = "save", phase' = phase PROVE SaveInv'
    <2>1. DOMAIN target' = {} /\ cmd' = 0
      BY <1>1 DEF Basic
    <2>2. Restored'
      BY <2>1, RestoredNone
    <2>3. QED
      BY <1>1, <2>2 DEF SaveInv
  <1>2. CASE Unopened
    BY <1>0, <1>1, <1>2, UnopenedStep DEF Unopened, Reading
  <1>3. CASE Disk
    BY <1>0, <1>1, <1>3, DiskStep DEF Disk, Reading
  <1>4. CASE Partition
    BY <1>0, <1>1, <1>4, PartitionStep DEF Partition, Reading
  <1>5. CASE Volume
    BY <1>0, <1>1, <1>5, VolumeStep DEF Volume, Reading
  <1>6. ASSUME machine' = machine, UNCHANGED saveVars, cmd' = cmd, target' = target,
               phase = "save", phase' \in {"refused", "stuck", "restore"},
               phase' \in {"stuck", "restore"} => line = Len(machine.lines)
        PROVE  SaveInv'
    <2>1. Kept'
      BY <1>0, <1>6, KeptSame
    <2>2. DOMAIN target = {} /\ cmd = 0
      BY <1>0, <1>6 DEF Basic
    <2>3. Restored'
      BY <1>6, <2>2, RestoredNone
    <2>4. /\ line' = line /\ lastnum' = lastnum /\ hdmap' = hdmap /\ conf' = conf /\ shown' = shown
          /\ should_backup_lvm' = should_backup_lvm /\ died' = died
      BY <1>6 DEF saveVars
    <2>5. Lines' = Lines
      BY <1>6 DEF Lines
    <2>6. Basic'
      BY <1>0, <1>6, <2>2, <2>4, <2>5 DEF Basic
    <2>7. QED
      BY <2>1, <2>3, <2>6 DEF SaveInv
  <1>7. CASE Refuse
    BY <1>6, <1>7 DEF Refuse
  <1>8. CASE EndSave
    BY <1>6, <1>8 DEF EndSave
  <1>9. CASE Ptabs
    <2>1. Basic' /\ Kept'
      BY <1>0, <1>9, BasicRestoring, KeptSame DEF Ptabs
    <2>2. QED
      BY <1>0, <1>9, <2>1, PtabsStep DEF SaveInv
  <1>10. CASE Copy
    <2>1. Basic' /\ Kept'
      BY <1>0, <1>10, BasicRestoring, KeptSame DEF Copy
    <2>2. QED
      BY <1>0, <1>10, <2>1, CopyStep DEF SaveInv
  <1>11. CASE NoDisk
    <2>1. Basic' /\ Kept'
      BY <1>0, <1>11, BasicRestoring, KeptSame DEF NoDisk
    <2>2. QED
      BY <1>0, <1>11, <2>1, NoDiskStep DEF SaveInv
  <1>12. ASSUME machine' = machine, UNCHANGED saveVars, cmd' = cmd, target' = target,
                phase' = phase \/ (phase = "restore" /\ phase' = "done" /\ cmd = Len(conf))
         PROVE  SaveInv'
    <2>1. Kept'
      BY <1>0, <1>12, KeptSame
    <2>2. /\ line' = line /\ lastnum' = lastnum /\ hdmap' = hdmap /\ conf' = conf /\ shown' = shown
          /\ should_backup_lvm' = should_backup_lvm /\ tabs' = tabs /\ images' = images
          /\ died' = died
      BY <1>12 DEF saveVars
    <2>3. Restored'
      BY <1>0, <1>12, <2>2, InOrderSame, ApartSame DEF Restored
    <2>4. Lines' = Lines
      BY <1>12 DEF Lines
    <2>5. Basic'
      BY <1>0, <1>12, <2>2, <2>4 DEF Basic
    <2>6. QED
      BY <2>1, <2>3, <2>5 DEF SaveInv
  <1>13. CASE EndRestore
    BY <1>12, <1>13 DEF EndRestore
  <1>14. CASE UNCHANGED vars
    BY <1>12, <1>14 DEF vars, saveVars
  <1>15. CASE Finished
    BY <1>14, <1>15 DEF Finished
  <1>16. QED
    BY <1>2, <1>3, <1>4, <1>5, <1>7, <1>8, <1>9, <1>10, <1>11, <1>13, <1>14, <1>15 DEF Next

LEMMA SaveAlways == Spec => []SaveInv
  <1>1. QED
    BY InitSave, SaveStep, PTL DEF Spec

\* The counters, images and numbers of autosave keep to their bounds, every image is
\* of a line of the machine and has no more of it than its program reads, and no write
\* of autorestore leaves the disk it is for when disks are restored to themselves, for
\* every machine (TypeOK).
THEOREM SaveTypeOK == Spec => []TypeOK
  <1>1. SaveInv => TypeOK
    <2> SUFFICES ASSUME SaveInv PROVE TypeOK
      OBVIOUS
    <2>1. Basic /\ Kept /\ Restored
      BY DEF SaveInv
    <2>2. /\ machine \in Machines /\ line \in 0 .. Len(machine.lines) /\ Len(machine.lines) \in Nat
          /\ lastnum \in -1 .. Numbers - 1 + line
      BY <2>1, LinesType DEF Basic
    <2>3. lastnum \in -1 .. Numbers + Len(machine.lines)
      BY <2>2, SizesNat
    <2>4. \A n \in DOMAIN images : images[n].of \in Lines
      <3> TAKE n \in DOMAIN images
      <3>1. PICK i \in 1 .. line : images[n].of = machine.lines[i]
        BY <2>1 DEF Kept, Images
      <3>2. i \in 1 .. Len(machine.lines)
        BY <2>2
      <3>3. QED
        BY <2>2, <3>1, <3>2, LineType DEF Lines
    <2>5. InOrder /\ Apart => \A x \in DOMAIN target : \E l \in Lines :
                                 x[1] = l.disk /\ x[2] \in 0 .. l.start + l.size - 1
      BY <2>1 DEF Restored, AtHome, Lines
    <2>6. \A n \in DOMAIN images : images[n].got \in 0 .. Extent(images[n].of)
      BY <2>1 DEF Kept, Sized
    <2>7. QED
      BY <2>1, <2>3, <2>4, <2>5, <2>6 DEF TypeOK, Basic
  <1>2. QED
    BY <1>1, SaveAlways, PTL

\* Whether the numbers of disks are counted or taken from hdmap by size, no ?TABS file
\* is about two disks and two commands of conf.txt have one name only if they are of
\* two partitions of a disk whose minor numbers have the same last four bits, for
\* every machine whose hdmap, if there is one, lists its disks (OwnName).
THEOREM SaveOwnName == Spec => []OwnName
  <1>1. SaveInv => OwnName
    <2> SUFFICES ASSUME SaveInv, Listed
                 PROVE  /\ \A i, j \in DOMAIN conf :
                             i # j /\ conf[i].op = conf[j].op /\ conf[i].hd = conf[j].hd
                               => /\ conf[i].op = "partcopy"
                                  /\ conf[i].num = conf[j].num =>
                                       \E l, m \in Lines :
                                         /\ Alike(l, m)
                                         /\ l.start = conf[i].sect /\ m.start = conf[j].sect
                        /\ \A n \in DOMAIN tabs : Cardinality({w[2][1] : w \in Range(tabs[n])}) = 1
      BY DEF OwnName
    <2>1. Separate(tabs) /\ Own(machine.lines, tabs, conf) /\ Tables(machine.lines, line, tabs)
      BY DEF SaveInv, Kept, Numbered
    <2>2. \A n \in DOMAIN tabs : Cardinality({w[2][1] : w \in Range(tabs[n])}) = 1
      <3> TAKE n \in DOMAIN tabs
      <3>1. PICK v \in Range(tabs[n]) : TRUE
        BY <2>1 DEF Tables
      <3>2. \A w \in Range(tabs[n]) : w[2][1] = v[2][1]
        BY <2>1 DEF Separate
      <3>3. PICK d : d = v[2][1]
        OBVIOUS
      <3>4. {w[2][1] : w \in Range(tabs[n])} = {d}
        BY <3>1, <3>2, <3>3
      <3>5. QED
        BY <3>4, FS_Singleton
    <2>3. QED
      BY <2>1, <2>2, Zenon DEF Own, Distinct, Twins, Lines
  <1>2. QED
    BY <1>1, SaveAlways, PTL

\* After a save every line that holds data has block files with an end, is excluded,
\* was shown, had a program that died or was written over by a partition of the same
\* four bits; and a volume without block files lies on physical volumes each of which
\* is in an image with its contents or is one of those itself, for every machine
\* (Accounted).
THEOREM SaveAccounted == Spec => []Accounted
  <1>1. SaveInv => Accounted
    <2> SUFFICES ASSUME SaveInv, phase \in {"restore", "stuck", "done"}, Listed, NEW l \in Lines
                 PROVE  Given_up(l) \/ Imaged(l) \/ Below(l)
      BY DEF Accounted
    <2>1. /\ machine \in Machines /\ line = Len(machine.lines)
      BY DEF SaveInv, Basic
    <2>2. ASSUME NEW p \in Lines
          PROVE  Given_up(p) \/ Imaged(p) \/ (p.is = "dm" /\ ~should_backup_lvm)
      <3>1. PICK i \in DOMAIN machine.lines : p = machine.lines[i]
        BY RangeElement DEF Lines
      <3>2. i \in 1 .. line
        BY <2>1, <3>1, LinesType
      <3>3. Settled(machine, p, tabs, images, shown, died, should_backup_lvm)
        BY <3>1, <3>2 DEF SaveInv, Kept, Numbered, Passed
      <3>4. p \in Ended(images) => Imaged(p)
        BY DEF Ended, Imaged
      <3>5. Twin(machine.lines, p) => Doubled(p)
        BY DEF Twin, Doubled, Lines
      <3>6. (\E n \in DOMAIN tabs : /\ Holds(tabs, n, p.disk)
                                   /\ {<<n, 0>>, <<n, poff(p)>>} \intersect machine.exclude # {})
              => Excluded(p)
        BY DEF Excluded, Holds
      <3>7. QED
        BY <3>3, <3>4, <3>5, <3>6 DEF Settled, Given_up
    <2>3. CASE l.is = "dm" /\ ~should_backup_lvm
      <3>1. \A p \in Lines : Imaged(p) => program(p) # "lvm"
        BY <2>3 DEF SaveInv, Kept, LvmKnown, Imaged
      <3>2. \A p \in l.on : p \in Lines /\ p.is # "dm"
        <4>1. PICK i \in DOMAIN machine.lines : l = machine.lines[i]
          BY RangeElement DEF Lines
        <4>2. i \in 1 .. Len(machine.lines)
          BY <2>1, <4>1, LinesType
        <4>3. WellFormed(machine)
          BY <2>1, SaveAssumption
        <4>4. QED
          BY <2>3, <4>1, <4>2, <4>3 DEF WellFormed, Lines
      <3>3. Below(l)
        BY <2>2, <2>3, <3>1, <3>2 DEF Below
      <3>4. QED
        BY <3>3
    <2>4. QED
      BY <2>2, <2>3
  <1>2. QED
    BY <1>1, SaveAlways, PTL

\* A restore to disks whose numbers follow the order of /proc/partitions, none of them
\* with two partitions of the same four bits, puts every sector it writes where it
\* came from, and at its end all tables and all that the images have are back, for
\* every machine and wherever the programs of the save died (RestoredHome).
THEOREM SaveRestoredHome == Spec => []RestoredHome
  <1>1. SaveInv => RestoredHome
    <2> SUFFICES ASSUME SaveInv, InOrder, Apart PROVE Home
      BY DEF RestoredHome
    <2>1. /\ AtHome(machine.lines, target)
          /\ \A i \in 1 .. cmd : Back(images, tabs, conf[i], target)
      BY DEF SaveInv, Restored
    <2>2. \A x \in DOMAIN target : target[x] = x
      BY <2>1 DEF AtHome
    <2>3. ASSUME phase = "done"
          PROVE  \A i \in DOMAIN conf : Back(images, tabs, conf[i], target)
      <3>1. cmd = Len(conf) /\ conf \in Seq(Range(conf))
        BY <2>3 DEF SaveInv, Basic
      <3>2. DOMAIN conf = 1 .. cmd
        BY <3>1, SeqLen
      <3>3. QED
        BY <2>1, <3>2
    <2>4. Ordered(tabs, images, conf) /\ Images(machine.lines, line, tabs, images)
      BY DEF SaveInv, Kept
    <2>5. ASSUME phase = "done"
          PROVE  \A n \in DOMAIN tabs : \A w \in Range(tabs[n]) : w[2] \in DOMAIN target
      <3> TAKE n \in DOMAIN tabs
      <3>1. PICK i \in DOMAIN conf : conf[i].op = "ptabs" /\ conf[i].hd = n
        BY <2>4 DEF Ordered
      <3>2. Back(images, tabs, conf[i], target)
        BY <2>3, <2>5
      <3>3. QED
        BY <3>1, <3>2 DEF Back
    <2>6. ASSUME phase = "done", NEW x \in DOMAIN images
          PROVE  \A s \in images[x].of.start .. images[x].of.start + images[x].got - 1 :
                   <<images[x].of.disk, s>> \in DOMAIN target
      <3>1. PICK i \in DOMAIN conf : conf[i].op = "partcopy" /\ conf[i].hd = x[1] /\ conf[i].num = x[2]
        BY <2>4 DEF Ordered
      <3>2. x = <<x[1], x[2]>>
        BY <2>4 DEF Images
      <3>3. <<conf[i].hd, conf[i].num>> = x
        BY <3>1, <3>2
      <3>4. Back(images, tabs, conf[i], target)
        BY <2>3, <2>6
      <3>5. QED
        BY <3>1, <3>3, <3>4 DEF Back
    <2>7. QED
      BY <2>2, <2>5, <2>6 DEF Home
  <1>2. QED
    BY <1>1, SaveAlways, PTL
================================================================================
