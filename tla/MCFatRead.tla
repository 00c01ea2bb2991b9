----------------------------- MODULE MCFatRead -----------------------------
(* TLC instance of FatRead: sectors of 4 bytes, 2 directory entries each. *)
EXTENDS FatRead, TLC

EOC == 60                          \* end of chain: no volume has such a cluster

MCBpb(fatsz, nfats, csize, root, tot) ==
  [BytsPerSec |-> 4, FATSz |-> fatsz, NumFATs |-> nfats, SecPerClus |-> csize,
   RootEntCnt |-> root, TotSec |-> tot, RsvdSecCnt |-> 1, RootClus |-> 2,
   FSVer |-> TRUE, FSInfo |-> TRUE]

File(c, n) == [kind |-> "file", sclust |-> c, size |-> n]
End == [Other EXCEPT !.kind = "end"]
SubDir == [Other EXCEPT !.kind = "dir"]

\* FAT12: 3 clusters of 2 sectors, FATs sound or not for a file that starts in
\* cluster 2, whose entry lies across two sectors.
Fat12 == MCBpb(2, 1, 2, 4, 11)     \* boot 0, FAT 1..2, root 3..4, data 5..10
Fats12 == {2 :> a @@ 3 :> b @@ 4 :> c : a \in {0, 3, 4, EOC}, b \in {2, 4, EOC}, c \in {3, EOC}}
Cards12 ==
  {[mbr |-> TRUE, br |-> <<0, 0, 0, 0>>, vbr |-> {0}, bpb |-> (0 :> Fat12), fat |-> f,
    dir |-> (3 :> <<Other, Other>> @@ 4 :> <<File(2, 19), End>>)] : f \in Fats12}

\* FAT16 in the second partition, which starts at sector 2.
Fat16 == MCBpb(3, 2, 1, 2, 12)     \* boot 2, FATs 3..8, root 9, data 10..13
Fats16 == {<<3, EOC, 4, 2>>, <<5, 2, EOC, 4>>, <<0, EOC, EOC, EOC>>, <<3, 4, 5, EOC>>}
Cards16 ==
  {[mbr |-> m, br |-> <<0, 2, 1, 0>>, vbr |-> {2}, bpb |-> (2 :> Fat16),
    fat |-> [n \in 2 .. 5 |-> f[n - 1]], dir |-> (9 :> d)] :
   f \in Fats16, m \in BOOLEAN,
   d \in {<<Other, File(3, 9)>>, <<File(4, 9), End>>, <<SubDir, File(2, 4)>>, <<Other, Other>>}}

\* FAT32 with a root directory of its own chain.  Mount: boot 0, FSINFO 1.
Fat32 == [MCBpb(7, 1, 1, 0, 13) EXCEPT !.RsvdSecCnt = 1]   \* FAT 1..7, data 8..12
Fats32 == {<<3, EOC, 5, 6, EOC>>, <<3, 2, 5, 6, EOC>>, <<4, EOC, 3, 6, 1>>, <<0, 3, 3, 3, 3>>, <<2, EOC, 5, 6, EOC>>}
Cards32 ==
  {[mbr |-> FALSE, br |-> <<0, 0, 0, 0>>, vbr |-> {0}, bpb |-> (0 :> b),
    fat |-> [n \in 2 .. 6 |-> f[n - 1]],
    dir |-> (8 :> <<Other, Other>> @@ 9 :> <<Other, File(c, 7)>> @@ 10 :> <<File(5, 5), End>>)] :
   f \in Fats32, c \in {4, 6},
   b \in {Fat32, [Fat32 EXCEPT !.RootClus = 0], [Fat32 EXCEPT !.FATSz = 6, !.TotSec = 12],
          [Fat32 EXCEPT !.FSVer = FALSE]}}

\* Boot records whose 32-bit sums wrap, and which are accepted for that: the
\* 16 entries of a FAT32 take 0 bytes; two FATs of 32 sectors take none, so that
\* the directory is where the FAT is; the areas before the clusters take none,
\* so that cluster 2 is the boot sector.
Wrapped ==
  {<<MCBpb(1, 1, 1, 0, 16), 2>>, <<MCBpb(32, 2, 1, 2, 6), 1>>,
   <<[MCBpb(63, 1, 1, 0, 7) EXCEPT !.RootClus = 3], 1>>}
FatsWrapped == {[n \in 2 .. 15 |-> n + 1], [n \in 2 .. 15 |-> IF n = 5 THEN 2 ELSE IF n = 3 THEN 2 ELSE EOC]}
CardsWrapped ==
  {[mbr |-> FALSE, br |-> <<0, 0, 0, 0>>, vbr |-> {0}, bpb |-> (0 :> w[1]), fat |-> f,
    dir |-> (w[2] :> <<Other, e>>)] : w \in Wrapped, f \in FatsWrapped, e \in {File(5, 7), Other}}

MCCards == Cards12 \cup Cards16 \cup Cards32 \cup CardsWrapped
=============================================================================
