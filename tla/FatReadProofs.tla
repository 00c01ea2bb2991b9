--------------------------- MODULE FatReadProofs ---------------------------
(***************************************************************************)
(* FatFs reads the FAT, the directory and the file where each of them is,  *)
(* on every card and for every number the FAT and the directory hold.      *)
(***************************************************************************)
EXTENDS FatRead, TLAPS, Integers, WellFoundedInduction, SequenceTheorems

-----------------------------------------------------------------------------
(***************************************************************************)
(* Where the parts of an accepted volume lie, for every boot record.       *)
(***************************************************************************)
LEMMA DivBounds ==
  ASSUME NEW n \in Nat, NEW d \in Nat \ {0}
  PROVE  n \div d \in Nat /\ n % d \in 0 .. d - 1 /\ n = d * (n \div d) + (n % d)
  OBVIOUS

LEMMA DivBelow ==
  ASSUME NEW n \in Nat, NEW d \in Nat \ {0}, NEW q \in Nat, n < q * d
  PROVE  n \div d < q
  OBVIOUS

LEMMA CeilingCovers ==
  ASSUME NEW n \in Nat, NEW d \in Nat \ {0}, NEW q \in Nat, q >= (n + (d - 1)) \div d
  PROVE  n <= q * d
  OBVIOUS

LEMMA ProductMonotone ==
  ASSUME NEW a \in Nat, NEW b \in Nat, NEW c \in Nat, a <= b
  PROVE  a * c <= b * c /\ a * c \in Nat /\ b * c \in Nat
  OBVIOUS

LEMMA ModUnique ==
  ASSUME NEW n \in Nat, NEW d \in Nat \ {0}, NEW a \in Nat, NEW r \in 0 .. d - 1, n = d * a + r
  PROVE  n % d = r
<1>1. n \div d \in Nat /\ n % d \in 0 .. d - 1 /\ n = d * (n \div d) + (n % d)
  BY DivBounds
<1> DEFINE b == n \div d
           m == n % d
<1>2. b \in Nat /\ m \in 0 .. d - 1 /\ d * a + r = d * b + m
  BY <1>1
<1> HIDE DEF b, m
<1>3. \A x, y \in Nat : x < y => d * x + d <= d * y /\ d * x \in Nat /\ d * y \in Nat
  <2> SUFFICES ASSUME NEW x \in Nat, NEW y \in Nat, x < y
               PROVE  d * x + d <= d * y /\ d * x \in Nat /\ d * y \in Nat
    OBVIOUS
  <2>1. (x + 1) * d <= y * d
    BY ProductMonotone
  <2>2. (x + 1) * d = d * x + d /\ y * d = d * y /\ d * x \in Nat /\ d * y \in Nat
    OBVIOUS
  <2> QED  BY <2>1, <2>2
<1>4. ~(a < b)
  BY <1>2, <1>3
<1>5. ~(b < a)
  BY <1>2, <1>3
<1>6. a = b
  BY <1>2, <1>4, <1>5
<1>7. d * a \in Nat
  OBVIOUS
<1> QED  BY <1>2, <1>6, <1>7 DEF m

LEMMA DwordNat == DWORD \subseteq Nat
  BY GeometryAssumption DEF DWORD

\* What is below Dword stays as it is, what is behind it loses one Dword.
LEMMA WrapIs ==
  ASSUME NEW n \in Nat
  PROVE  /\ Wrap(n) \in Nat /\ Wrap(n) < Dword
         /\ n < Dword => Wrap(n) = n
         /\ n >= Dword /\ n < Dword + Dword => Wrap(n) = n - Dword
<1>1. Dword \in Nat \ {0}
  BY GeometryAssumption
<1>2. n % Dword \in 0 .. Dword - 1
  BY <1>1, DivBounds
<1>3. n < Dword => n % Dword = n
  BY <1>1, ModUnique
<1>4. n >= Dword /\ n < Dword + Dword => n % Dword = n - Dword
  <2> SUFFICES ASSUME n >= Dword, n < Dword + Dword PROVE n % Dword = n - Dword
    OBVIOUS
  <2>1. n - Dword \in 0 .. Dword - 1 /\ n = Dword * 1 + (n - Dword) /\ 1 \in Nat
    BY <1>1
  <2> QED  BY <1>1, <2>1, ModUnique
<1> QED  BY <1>1, <1>2, <1>3, <1>4 DEF Wrap

\* The numbers find_volume computes from an accepted boot record: nothing is
\* subtracted from less, whichever of its sums have wrapped.
LEMMA AcceptedTypes ==
  ASSUME NEW b \in BPB, Accepted(b)
  PROVE  /\ b.SecPerClus \in Nat \ {0} /\ b.FATSz \in Nat /\ b.NumFATs \in {1, 2}
         /\ b.RsvdSecCnt \in Nat \ {0} /\ b.TotSec \in Nat /\ b.TotSec < Dword
         /\ b.RootEntCnt \in Nat /\ b.RootClus \in Nat /\ b.FATSz * b.NumFATs \in Nat
         /\ DirSectors(b) \in Nat /\ SystemArea(b) \in Nat /\ SysSectors(b) \in Nat
         /\ Clusters(b) \in Nat \ {0} /\ Clusters(b) < Dword
         /\ FatEntries(b) \in Nat /\ FatEntries(b) < Dword
         /\ Clusters(b) * b.SecPerClus <= b.TotSec - SysSectors(b)
         /\ SysSectors(b) < b.TotSec
<1>1. /\ b.SecPerClus \in Nat \ {0} /\ b.FATSz \in Nat /\ b.NumFATs \in {1, 2}
      /\ b.RsvdSecCnt \in Nat \ {0} /\ b.TotSec \in Nat /\ b.TotSec < Dword
      /\ b.RootEntCnt \in Nat /\ b.RootClus \in Nat
  <2>1. Dword \in Nat
    BY GeometryAssumption
  <2> QED  BY <2>1 DEF BPB, DWORD, Accepted, PowersOfTwo
<1>2. DirSectors(b) \in Nat
  BY <1>1, DivBounds, GeometryAssumption DEF DirSectors
<1>3. b.FATSz * b.NumFATs \in Nat
  BY <1>1
<1>4. SystemArea(b) \in Nat /\ SysSectors(b) \in Nat
  <2>1. SystemArea(b) \in Nat
    BY <1>1, <1>2, <1>3 DEF SystemArea
  <2> QED  BY <2>1, WrapIs DEF SysSectors
<1>5. b.TotSec - SysSectors(b) \in Nat
  BY <1>1, <1>4 DEF Accepted
<1>6. /\ Clusters(b) \in Nat \ {0} /\ Clusters(b) * b.SecPerClus <= b.TotSec - SysSectors(b)
      /\ Clusters(b) <= b.TotSec - SysSectors(b)
  <2> DEFINE n == b.TotSec - SysSectors(b)
             d == b.SecPerClus
  <2>1. n \in Nat /\ d \in Nat \ {0} /\ n \div d # 0
    BY <1>1, <1>5 DEF Accepted, Clusters
  <2> HIDE DEF n, d
  <2>2. n \div d \in Nat \ {0} /\ (n \div d) * d <= n /\ n \div d <= n
    <3>1. n \div d \in Nat /\ n % d \in Nat /\ n = d * (n \div d) + (n % d)
      BY <2>1, DivBounds
    <3>2. d * (n \div d) = (n \div d) * d /\ (n \div d) <= d * (n \div d) /\ d * (n \div d) \in Nat
      <4> DEFINE q == n \div d
      <4>1. q \in Nat
        BY <3>1
      <4> HIDE DEF q
      <4>2. d * q = q * d /\ q <= d * q /\ d * q \in Nat
        BY <2>1, <4>1
      <4> QED  BY <4>2 DEF q
    <3> QED  BY <3>1, <3>2, <2>1
  <2> QED  BY <2>1, <2>2 DEF n, d, Clusters
<1>7. Clusters(b) < Dword /\ SysSectors(b) < b.TotSec
  BY <1>1, <1>4, <1>5, <1>6, GeometryAssumption
<1>8. FatEntries(b) \in Nat /\ FatEntries(b) < Dword
  BY <1>6, WrapIs DEF FatEntries
<1> QED  BY <1>1, <1>2, <1>3, <1>4, <1>6, <1>7, <1>8

\* Of a boot record whose sums do not wrap.
LEMMA ExactSums ==
  ASSUME NEW b \in BPB, Accepted(b), Exact(b)
  PROVE  /\ SysSectors(b) = b.RsvdSecCnt + b.FATSz * b.NumFATs + DirSectors(b)
         /\ FatEntries(b) = Clusters(b) + 2 /\ FatEntries(b) * 4 + SS <= Dword
         /\ b.FATSz <= b.FATSz * b.NumFATs
<1>1. /\ SystemArea(b) \in Nat /\ Clusters(b) \in Nat /\ Dword \in Nat /\ SS \in Nat /\ SS >= 4
      /\ b.FATSz \in Nat /\ b.NumFATs \in {1, 2}
  BY AcceptedTypes, GeometryAssumption
<1>2. SysSectors(b) = SystemArea(b)
  BY <1>1, WrapIs DEF Exact, SysSectors
<1>3. FatEntries(b) = Clusters(b) + 2 /\ FatEntries(b) * 4 + SS <= Dword
  <2>1. (Clusters(b) + 2) * 4 + SS <= Dword
    BY DEF Exact
  <2>2. Clusters(b) + 2 < Dword
    BY <1>1, <2>1
  <2> QED  BY <1>1, <2>1, <2>2, WrapIs DEF FatEntries
<1>4. b.FATSz <= b.FATSz * b.NumFATs
  BY <1>1
<1> QED  BY <1>2, <1>3, <1>4 DEF SystemArea

\* Where the parts of a volume that ends below Dword begin.
LEMMA VolumeIs ==
  ASSUME NEW b \in BPB, Accepted(b), NEW bsect \in Nat, bsect + b.TotSec < Dword
  PROVE  LET v == Volume(b, bsect) IN
         /\ v.fs_type = FatType(b) /\ v.fs_type \in {"FAT12", "FAT16", "FAT32"}
         /\ v.csize = b.SecPerClus /\ v.n_rootdir = b.RootEntCnt /\ v.n_fatent = FatEntries(b)
         /\ v.fsize = b.FATSz /\ v.volbase = bsect /\ v.exact = Exact(b)
         /\ v.fatbase \in Nat /\ v.dirbase \in Nat
         /\ v.database = bsect + SysSectors(b) /\ v.volend = bsect + b.TotSec
         /\ Exact(b) => /\ v.fatbase = bsect + b.RsvdSecCnt
                        /\ v.fs_type # "FAT32" =>
                             v.dirbase = bsect + b.RsvdSecCnt + b.FATSz * b.NumFATs
<1> DEFINE v == Volume(b, bsect)
           f == b.FATSz * b.NumFATs
<1>1. /\ v.fs_type = FatType(b)
      /\ v.csize = b.SecPerClus /\ v.n_rootdir = b.RootEntCnt /\ v.n_fatent = FatEntries(b)
      /\ v.fsize = b.FATSz /\ v.volbase = bsect /\ v.exact = Exact(b)
      /\ v.fatbase = Wrap(bsect + b.RsvdSecCnt)
      /\ v.dirbase = (IF FatType(b) = "FAT32" THEN b.RootClus ELSE Wrap(bsect + b.RsvdSecCnt + f))
      /\ v.database = Wrap(bsect + SysSectors(b)) /\ v.volend = bsect + b.TotSec
  BY DEF Volume
<1>2. /\ b.TotSec \in Nat /\ SysSectors(b) \in Nat /\ SysSectors(b) < b.TotSec
      /\ b.RsvdSecCnt \in Nat /\ b.RootClus \in Nat /\ f \in Nat /\ DirSectors(b) \in Nat
      /\ Dword \in Nat
  BY AcceptedTypes, GeometryAssumption
<1> HIDE DEF v
<1>3. v.fs_type \in {"FAT12", "FAT16", "FAT32"}
  BY <1>1 DEF FatType
<1>4. v.database = bsect + SysSectors(b)
  <2>1. bsect + SysSectors(b) \in Nat /\ bsect + SysSectors(b) < Dword
    BY <1>2
  <2> QED  BY <1>1, <2>1, WrapIs
<1>5. v.fatbase \in Nat /\ v.dirbase \in Nat
  <2>1. bsect + b.RsvdSecCnt \in Nat /\ bsect + b.RsvdSecCnt + f \in Nat
    BY <1>2
  <2> HIDE DEF f
  <2> QED  BY <1>1, <1>2, <2>1, WrapIs
<1>6. ASSUME Exact(b)
      PROVE  /\ v.fatbase = bsect + b.RsvdSecCnt
             /\ v.fs_type # "FAT32" => v.dirbase = bsect + b.RsvdSecCnt + f
  <2>1. SysSectors(b) = b.RsvdSecCnt + f + DirSectors(b)
    BY <1>6, ExactSums
  <2> HIDE DEF f
  <2>2. /\ bsect + b.RsvdSecCnt \in Nat /\ bsect + b.RsvdSecCnt < Dword
        /\ bsect + b.RsvdSecCnt + f \in Nat /\ bsect + b.RsvdSecCnt + f < Dword
    BY <1>2, <2>1
  <2> QED  BY <1>1, <2>2, WrapIs
<1> QED  BY <1>1, <1>3, <1>4, <1>5, <1>6 DEF v

\* A FAT of n entries holds the last byte of every entry get_fat looks up.
LEMMA EntryInFat ==
  ASSUME NEW n \in Nat, n * 4 < Dword, NEW c \in Nat, c < n,
         NEW v, v.fs_type \in {"FAT12", "FAT16", "FAT32"}
  PROVE  /\ FatByte(v, c) \in Nat
         /\ FatByte(v, c) + 1 < FatBytes(v.fs_type, n)
         /\ FatBytes(v.fs_type, n) \in Nat /\ FatBytes(v.fs_type, n) <= n * 4
<1>1. Wrap(n * 4) = n * 4 /\ Wrap(n * 3) = n * 3 /\ Wrap(n * 2) = n * 2
  <2>1. \A k \in {n * 4, n * 3, n * 2} : k \in Nat /\ k < Dword
    BY GeometryAssumption
  <2> QED  BY <2>1, WrapIs
<1>2. CASE v.fs_type = "FAT32"
  BY <1>1, <1>2 DEF FatByte, FatBytes
<1>3. CASE v.fs_type = "FAT16"
  BY <1>1, <1>3 DEF FatByte, FatBytes
<1>4. CASE v.fs_type = "FAT12"
  <2>1. c + c \div 2 + 1 < (n * 3) \div 2 + (n % 2) /\ c + c \div 2 \in Nat
        /\ (n * 3) \div 2 + (n % 2) \in Nat /\ (n * 3) \div 2 + (n % 2) <= n * 4
    OBVIOUS
  <2> QED  BY <1>1, <2>1, <1>4 DEF FatByte, FatBytes
<1> QED  BY <1>2, <1>3, <1>4

\* Every sector get_fat loads for a cluster's entry is one of the first FAT's, if
\* the sums of the boot record are exact: find_volume refuses a FAT too small
\* for the clusters it counts.
THEOREM FatLoadsInFat ==
  ASSUME NEW b \in BPB, Accepted(b), Exact(b), NEW bsect \in Nat, bsect + b.TotSec < Dword,
         NEW c \in Nat, IsCluster(Volume(b, bsect), c)
  PROVE  LET v == Volume(b, bsect) IN
         /\ FatSectors(v, c) \in {<<s>> : s \in v.fatbase .. v.fatbase + v.fsize - 1}
              \cup {<<s, s + 1>> : s \in v.fatbase .. v.fatbase + v.fsize - 2}
<1> DEFINE v == Volume(b, bsect)
           e == FatByte(v, c)
           first == v.fatbase + e \div SS
           last == v.fatbase + (e + 1) \div SS
<1>1. SS \in Nat \ {0} /\ Dword \in Nat
  BY GeometryAssumption
<1>2. /\ v.fs_type = FatType(b) /\ v.n_fatent = FatEntries(b) /\ v.fsize = b.FATSz
      /\ v.fatbase = bsect + b.RsvdSecCnt
  BY VolumeIs
<1>3. /\ v.fs_type \in {"FAT12", "FAT16", "FAT32"} /\ v.n_fatent \in Nat /\ c < v.n_fatent
      /\ v.fsize \in Nat /\ v.fatbase \in Nat
  BY <1>2, AcceptedTypes DEF FatType, IsCluster
<1>4. v.n_fatent * 4 + SS <= Dword
  BY <1>2, ExactSums
<1>5. /\ e \in Nat /\ e + 1 < FatBytes(v.fs_type, v.n_fatent)
      /\ FatBytes(v.fs_type, v.n_fatent) \in Nat
      /\ FatBytes(v.fs_type, v.n_fatent) <= v.n_fatent * 4
  <2> HIDE DEF v
  <2>1. v.n_fatent * 4 < Dword
    BY <1>1, <1>3, <1>4
  <2> QED  BY <1>3, <2>1, EntryInFat
<1>6. FatBytes(v.fs_type, v.n_fatent) <= v.fsize * SS
  <2> DEFINE z == FatBytes(v.fs_type, v.n_fatent)
  <2>1. z \in Nat /\ z + (SS - 1) \in Nat /\ z + (SS - 1) < Dword
    <3> HIDE DEF v, z
    <3>1. z \in Nat /\ z <= v.n_fatent * 4
      BY <1>5 DEF z
    <3> QED  BY <1>1, <1>3, <1>4, <3>1
  <2>2. v.fsize >= Wrap(z + (SS - 1)) \div SS
    BY <1>2 DEF Accepted
  <2> HIDE DEF z, v
  <2>3. v.fsize >= (z + (SS - 1)) \div SS
    BY <2>1, <2>2, WrapIs
  <2>4. z <= v.fsize * SS
    BY <1>1, <1>3, <2>1, <2>3, CeilingCovers
  <2> QED  BY <2>4 DEF z
<1> HIDE DEF e
<1>7. e < v.fsize * SS /\ e + 1 < v.fsize * SS
  BY <1>1, <1>3, <1>5, <1>6
<1>8. e \div SS \in Nat /\ e \div SS < v.fsize /\ (e + 1) \div SS \in Nat /\ (e + 1) \div SS < v.fsize
  <2> HIDE DEF v
  <2>1. \A n \in {e, e + 1} : n \in Nat /\ n < v.fsize * SS
    BY <1>5, <1>7
  <2>2. \A n \in {e, e + 1} : n \div SS \in Nat
    BY <1>1, <2>1, DivBounds
  <2>3. \A n \in {e, e + 1} : n \div SS < v.fsize
    BY <1>1, <1>3, <2>1, DivBelow
  <2> QED  BY <2>2, <2>3
<1>9. (e + 1) \div SS = e \div SS \/ (e + 1) \div SS = e \div SS + 1
  BY <1>1, <1>5
<1>10. v.fatbase + v.fsize < Dword
  <2>1. /\ b.RsvdSecCnt \in Nat /\ b.FATSz \in Nat /\ b.FATSz * b.NumFATs \in Nat
        /\ DirSectors(b) \in Nat /\ b.TotSec \in Nat /\ SysSectors(b) < b.TotSec
        /\ SysSectors(b) = b.RsvdSecCnt + b.FATSz * b.NumFATs + DirSectors(b)
        /\ b.FATSz <= b.FATSz * b.NumFATs
    BY AcceptedTypes, ExactSums
  <2> HIDE DEF v
  <2> QED  BY <1>1, <1>2, <2>1
<1>11. Wrap(first) = first /\ Wrap(last) = last
  <2> HIDE DEF v
  <2>1. first \in Nat /\ first < Dword /\ last \in Nat /\ last < Dword
    BY <1>1, <1>3, <1>8, <1>10
  <2> QED  BY <2>1, WrapIs
<1>12. FatSectors(v, c) = IF v.fs_type = "FAT12" /\ last # first THEN <<first, last>> ELSE <<first>>
  BY <1>11 DEF FatSectors, e
<1> HIDE DEF v
<1>13. first \in v.fatbase .. v.fatbase + v.fsize - 1 /\ last \in v.fatbase .. v.fatbase + v.fsize - 1
  BY <1>3, <1>8
<1>14. last = first \/ last = first + 1
  BY <1>3, <1>8, <1>9
<1>15. last # first => last = first + 1 /\ first \in v.fatbase .. v.fatbase + v.fsize - 2
  BY <1>3, <1>13, <1>14
<1> QED  BY <1>12, <1>13, <1>15 DEF v

\* Every sector clust2sect gives lies, with its cluster, between the start of the
\* clusters and the end of the volume, whatever number it is asked for and
\* whichever sums of the boot record wrap; and it gives one for every cluster
\* get_fat would look up.
THEOREM ClusterInVolume ==
  ASSUME NEW b \in BPB, Accepted(b), NEW bsect \in Nat, bsect + b.TotSec < Dword, NEW c \in Nat
  PROVE  LET v == Volume(b, bsect) IN
         /\ clust2sect(v, c) \in Nat
         /\ HasSector(v, c) => /\ clust2sect(v, c) >= v.database
                               /\ clust2sect(v, c) + v.csize <= v.volend
         /\ IsCluster(v, c) => HasSector(v, c)
<1> DEFINE v == Volume(b, bsect)
           x == Wrap(c + Dword - 2)
<1>1. /\ v.csize = b.SecPerClus /\ v.n_fatent = FatEntries(b)
      /\ v.database = bsect + SysSectors(b) /\ v.volend = bsect + b.TotSec
  BY VolumeIs
<1>2. /\ b.SecPerClus \in Nat \ {0} /\ SysSectors(b) \in Nat /\ b.TotSec \in Nat
      /\ Clusters(b) \in Nat \ {0} /\ Clusters(b) < Dword
      /\ FatEntries(b) \in Nat /\ FatEntries(b) < Dword
      /\ Clusters(b) * b.SecPerClus <= b.TotSec - SysSectors(b)
      /\ Dword \in Nat /\ Dword > 2
  BY AcceptedTypes, GeometryAssumption
<1>3. x \in Nat
  BY <1>2, WrapIs
<1>4. clust2sect(v, c) = IF HasSector(v, c) THEN Wrap(x * v.csize + v.database) ELSE 0
  BY DEF clust2sect
<1>5. HasSector(v, c) <=> x < Wrap(v.n_fatent + Dword - 2)
  BY DEF HasSector
<1>6. IsCluster(v, c) <=> c >= 2 /\ c < v.n_fatent
  BY DEF IsCluster
<1>7. IsCluster(v, c) => x = c - 2
  <2> HIDE DEF v
  <2>1. IsCluster(v, c) => /\ c + Dword - 2 \in Nat /\ c + Dword - 2 >= Dword
                           /\ c + Dword - 2 < Dword + Dword /\ (c + Dword - 2) - Dword = c - 2
    BY <1>1, <1>2, <1>6
  <2> QED  BY <2>1, WrapIs
<1> HIDE DEF v, x
<1>8. Wrap(v.n_fatent + Dword - 2) = Clusters(b)
  <2>1. CASE Clusters(b) + 2 < Dword
    <3>1. v.n_fatent = Clusters(b) + 2
      BY <1>1, <1>2, <2>1, WrapIs DEF FatEntries
    <3>2. /\ v.n_fatent + Dword - 2 \in Nat /\ v.n_fatent + Dword - 2 >= Dword
          /\ v.n_fatent + Dword - 2 < Dword + Dword
          /\ (v.n_fatent + Dword - 2) - Dword = Clusters(b)
      <4> DEFINE k == Clusters(b)
      <4>1. k \in Nat /\ k + 2 < Dword /\ Dword \in Nat /\ v.n_fatent = k + 2
        BY <1>2, <2>1, <3>1
      <4> HIDE DEF k
      <4>2. v.n_fatent \in Nat /\ v.n_fatent >= 2 /\ v.n_fatent < Dword
        BY <4>1
      <4>3. (v.n_fatent + Dword - 2) - Dword = k
        BY <4>1
      <4> QED  BY <4>1, <4>2, <4>3 DEF k
    <3> QED  BY <3>2, WrapIs
  <2>2. CASE ~(Clusters(b) + 2 < Dword)
    <3>1. /\ Clusters(b) + 2 \in Nat /\ Clusters(b) + 2 >= Dword
          /\ Clusters(b) + 2 < Dword + Dword
      BY <1>2, <2>2
    <3>2. v.n_fatent = (Clusters(b) + 2) - Dword
      <4>1. Wrap(Clusters(b) + 2) = (Clusters(b) + 2) - Dword
        BY <3>1, WrapIs
      <4> QED  BY <1>1, <4>1 DEF FatEntries
    <3>3. v.n_fatent + Dword - 2 = Clusters(b)
      BY <1>2, <3>2
    <3> QED  BY <1>2, <3>3, WrapIs
  <2> QED  BY <2>1, <2>2
<1>9. ASSUME HasSector(v, c)
      PROVE  /\ clust2sect(v, c) \in Nat /\ clust2sect(v, c) >= v.database
             /\ clust2sect(v, c) + v.csize <= v.volend
  <2>1. x + 1 \in Nat /\ x + 1 <= Clusters(b)
    BY <1>2, <1>3, <1>5, <1>8, <1>9
  <2>2. (x + 1) * v.csize <= Clusters(b) * v.csize /\ Clusters(b) * v.csize \in Nat
    BY <1>1, <1>2, <2>1, ProductMonotone
  <2>3. x * v.csize \in Nat /\ (x + 1) * v.csize = x * v.csize + v.csize
    <3>1. \A k, m \in Nat : k * m \in Nat /\ (k + 1) * m = k * m + m
      OBVIOUS
    <3> QED  BY <1>1, <1>2, <1>3, <3>1
  <2>4. /\ x * v.csize + v.database \in Nat
        /\ x * v.csize + v.database + v.csize <= v.volend /\ v.volend < Dword
    BY <1>1, <1>2, <2>2, <2>3
  <2>5. x * v.csize + v.database < Dword
    BY <1>1, <1>2, <2>3, <2>4
  <2>6. clust2sect(v, c) = x * v.csize + v.database
    BY <1>4, <1>9, <2>4, <2>5, WrapIs
  <2> QED  BY <1>1, <1>2, <2>3, <2>4, <2>6
<1>10. IsCluster(v, c) => HasSector(v, c)
  <2> SUFFICES ASSUME IsCluster(v, c) PROVE x < Clusters(b)
    BY <1>5, <1>8
  <2>1. /\ v.n_fatent + Dword - 2 \in Nat /\ v.n_fatent + Dword - 2 >= Dword
        /\ v.n_fatent + Dword - 2 < Dword + Dword
    BY <1>1, <1>2, <1>6
  <2>2. Wrap(v.n_fatent + Dword - 2) = (v.n_fatent + Dword - 2) - Dword
    BY <2>1, WrapIs
  <2>3. Clusters(b) = v.n_fatent - 2
    BY <1>1, <1>2, <1>8, <2>2
  <2> QED  BY <1>1, <1>2, <1>6, <1>7, <2>3
<1> QED  BY <1>4, <1>9, <1>10 DEF v

\* The parts of a volume whose sums are exact do not overlap: the first FAT, then
\* on FAT12 and FAT16 the root directory, then the clusters, up to the end of
\* the volume.
THEOREM PartsInOrder ==
  ASSUME NEW b \in BPB, Accepted(b), Exact(b), NEW bsect \in Nat, bsect + b.TotSec < Dword
  PROVE  LET v == Volume(b, bsect) IN
         /\ v.volbase < v.fatbase /\ v.database < v.volend
         /\ v.fatbase + v.fsize <= v.database
         /\ v.fs_type # "FAT32" => /\ v.fatbase + v.fsize <= v.dirbase
                                   /\ v.dirbase + DirSectors(b) = v.database
                                   /\ DirSectors(b) > 0
<1> DEFINE v == Volume(b, bsect)
<1>1. /\ v.volbase = bsect /\ v.fatbase = bsect + b.RsvdSecCnt /\ v.fsize = b.FATSz
      /\ v.database = bsect + SysSectors(b) /\ v.volend = bsect + b.TotSec
      /\ v.fs_type = FatType(b)
      /\ v.fs_type # "FAT32" => v.dirbase = bsect + b.RsvdSecCnt + b.FATSz * b.NumFATs
  BY VolumeIs
<1>2. /\ SysSectors(b) \in Nat /\ b.TotSec \in Nat /\ SysSectors(b) < b.TotSec
      /\ b.FATSz \in Nat /\ b.FATSz * b.NumFATs \in Nat /\ b.RsvdSecCnt \in Nat \ {0}
      /\ DirSectors(b) \in Nat
  BY AcceptedTypes
<1>3. /\ SysSectors(b) = b.RsvdSecCnt + b.FATSz * b.NumFATs + DirSectors(b)
      /\ b.FATSz <= b.FATSz * b.NumFATs
  BY ExactSums
<1>4. v.fs_type # "FAT32" => DirSectors(b) > 0
  <2> SUFFICES ASSUME FatType(b) # "FAT32" PROVE DirSectors(b) > 0
    BY <1>1
  <2>1. /\ b.RootEntCnt \in Nat \ {0} /\ b.RootEntCnt % EntriesPerSector = 0
        /\ EntriesPerSector \in Nat \ {0}
    BY AcceptedTypes, GeometryAssumption DEF Accepted
  <2>2. b.RootEntCnt \div EntriesPerSector # 0
    <3>1. \A n \in Nat \ {0}, d \in Nat \ {0} : n % d = 0 => n \div d # 0
      OBVIOUS
    <3> QED  BY <2>1, <3>1
  <2> QED  BY <2>2, <1>2 DEF DirSectors
<1> HIDE DEF v
<1> QED  BY <1>1, <1>2, <1>3, <1>4 DEF v

-----------------------------------------------------------------------------
(***************************************************************************)
(* The sectors FatRead loads from such a volume.                           *)
(***************************************************************************)

\* What the geometry theorems say of a volume, and what the code relies on.
Sound(v) ==
  /\ v.csize \in Nat \ {0} /\ v.n_fatent \in Nat
  /\ v.n_rootdir \in Nat /\ v.n_rootdir % EntriesPerSector = 0
  /\ v.fs_type = "FAT32" => v.n_rootdir = 0
  /\ v.fatbase \in Nat /\ v.fsize \in Nat
  /\ v.dirbase \in Nat /\ v.database \in Nat /\ v.volend \in Nat
  /\ \A c \in Nat : /\ clust2sect(v, c) \in Nat
                    /\ HasSector(v, c) => /\ clust2sect(v, c) >= v.database
                                          /\ clust2sect(v, c) + v.csize <= v.volend
                    /\ IsCluster(v, c) => HasSector(v, c)

\* And of one whose sums are exact.
Ordered(v) ==
  /\ \A c \in Nat : IsCluster(v, c) =>
       FatSectors(v, c) \in {<<s>> : s \in v.fatbase .. v.fatbase + v.fsize - 1}
              \cup {<<s, s + 1>> : s \in v.fatbase .. v.fatbase + v.fsize - 2}
  /\ v.fatbase + v.fsize <= Behind(v)
  /\ v.fs_type # "FAT32" =>
       \A i \in Nat : i < v.n_rootdir => v.dirbase + i \div EntriesPerSector < v.database

LEMMA VolumeSound ==
  ASSUME NEW b \in BPB, Accepted(b), NEW bsect \in Nat, Numbered(Volume(b, bsect))
  PROVE  LET v == Volume(b, bsect) IN Sound(v) /\ (v.exact => Ordered(v)) /\ v # NotMounted
<1> DEFINE v == Volume(b, bsect)
<1>1. bsect + b.TotSec < Dword
  BY DEF Numbered, Volume
<1>2. /\ v.fs_type = FatType(b) /\ v.fs_type \in {"FAT12", "FAT16", "FAT32"}
      /\ v.csize = b.SecPerClus /\ v.n_rootdir = b.RootEntCnt /\ v.n_fatent = FatEntries(b)
      /\ v.fsize = b.FATSz /\ v.exact = Exact(b)
      /\ v.fatbase \in Nat /\ v.dirbase \in Nat
      /\ v.database = bsect + SysSectors(b) /\ v.volend = bsect + b.TotSec
  BY <1>1, VolumeIs
<1>3. /\ v.csize \in Nat \ {0} /\ v.n_rootdir \in Nat /\ v.n_fatent \in Nat
      /\ v.fsize \in Nat /\ v.database \in Nat /\ v.volend \in Nat
  BY <1>2, AcceptedTypes
<1>4. Sound(v)
  <2>1. v.n_rootdir % EntriesPerSector = 0 /\ (v.fs_type = "FAT32" => v.n_rootdir = 0)
    BY <1>2 DEF Accepted
  <2> QED  BY <1>1, <1>2, <1>3, <2>1, ClusterInVolume DEF Sound
<1>5. ASSUME Exact(b), v.fs_type # "FAT32", NEW i \in Nat, i < v.n_rootdir
      PROVE  v.dirbase + i \div EntriesPerSector < v.database
  <2>1. v.dirbase + DirSectors(b) = v.database
    BY <1>1, <1>5, PartsInOrder
  <2>2. /\ b.RootEntCnt \in Nat /\ b.RootEntCnt % EntriesPerSector = 0
        /\ EntriesPerSector \in Nat \ {0}
    BY AcceptedTypes, GeometryAssumption DEF Accepted
  <2>3. \A n, j \in Nat, d \in Nat \ {0} : n % d = 0 /\ j < n => j \div d < n \div d /\ j \div d \in Nat
    OBVIOUS
  <2>4. i \div EntriesPerSector < DirSectors(b) /\ i \div EntriesPerSector \in Nat
    BY <1>2, <1>5, <2>2, <2>3 DEF DirSectors
  <2>5. DirSectors(b) \in Nat
    BY AcceptedTypes
  <2> QED  BY <1>2, <1>3, <2>1, <2>4, <2>5
<1>6. v.exact => Ordered(v)
  <2> SUFFICES ASSUME Exact(b) PROVE Ordered(v)
    BY <1>2
  <2>1. v.fatbase + v.fsize <= Behind(v)
    BY <1>1, <1>2, PartsInOrder DEF Behind
  <2>2. \A c \in Nat : IsCluster(v, c) =>
          FatSectors(v, c) \in {<<s>> : s \in v.fatbase .. v.fatbase + v.fsize - 1}
                 \cup {<<s, s + 1>> : s \in v.fatbase .. v.fatbase + v.fsize - 2}
    BY <1>1, FatLoadsInFat
  <2> QED  BY <1>5, <2>1, <2>2 DEF Ordered
<1>7. v # NotMounted
  <2>1. v.fs_type # NotMounted.fs_type
    BY <1>2 DEF NotMounted
  <2> QED  BY <2>1
<1> QED  BY <1>4, <1>6, <1>7

-----------------------------------------------------------------------------
\* The entry of the directory that is looked at is in a sector of the table.
DirSound ==
  /\ dp.dptr \in Nat /\ dp.dptr < MAX_DIR /\ dp.clust \in Nat
  /\ dp.clust # 0 =>
       /\ HasSector(fs, dp.clust)
       /\ dp.sect = clust2sect(fs, dp.clust) + ((dp.dptr \div EntriesPerSector) % fs.csize)
  /\ dp.clust = 0 =>
       /\ fs.fs_type # "FAT32" /\ dp.dptr < fs.n_rootdir
       /\ dp.sect = fs.dirbase + (dp.dptr \div EntriesPerSector)

FsSound == \/ fs = NotMounted
           \/ /\ Sound(fs) /\ (fs.exact => Ordered(fs))
              /\ \A k \in Nat : IsCluster(fs, k) => card.fat[k] \in Nat

FileSound == /\ DOMAIN file = DOMAIN NoFile
             /\ file.clust \in Nat /\ file.sclust \in Nat
             /\ file.fptr \in Int /\ file.objsize \in Int /\ btr \in Int

RInv ==
  /\ card \in Cards
  /\ FsSound
  /\ pc \in {"idle", "boot", "part", "sdi", "find", "next", "read", "sector", "copy"}
  /\ pc \notin {"idle", "boot", "part"} => Mounted
  /\ pc \in {"find", "next"} => DirSound
  /\ FileSound

LEMMA InitRInv == Init => RInv
  BY DEF Init, RInv, FsSound, FileSound, NoFile, call

\* The sectors a call of get_fat asks the card for.
FatLoads(clst) ==
  LET sects == FatSectors(fs, clst) IN
  \/ io' = <<>>
  \/ /\ IsCluster(fs, clst)
     /\ \/ Len(sects) = 1 /\ io' = <<sects[1], 1>>
        \/ Len(sects) = 2 /\ io' \in {<<sects[1], 1>>, <<sects[1], 2>>, <<sects[2], 1>>}

LEMMA FatLoadsInRegion ==
  ASSUME Sound(fs), Ordered(fs), NEW clst \in Nat, FatLoads(clst), io' # <<>>
  PROVE  io'[1] >= fs.fatbase /\ io'[1] + io'[2] <= fs.fatbase + fs.fsize
<1>1. \/ \E t \in fs.fatbase .. fs.fatbase + fs.fsize - 1 : FatSectors(fs, clst) = <<t>>
      \/ \E t \in fs.fatbase .. fs.fatbase + fs.fsize - 2 : FatSectors(fs, clst) = <<t, t + 1>>
  BY DEF Ordered, FatLoads
<1>2. fs.fatbase \in Nat /\ fs.fsize \in Nat
  BY DEF Sound
<1>3. CASE \E t \in fs.fatbase .. fs.fatbase + fs.fsize - 1 : FatSectors(fs, clst) = <<t>>
  <2>1. PICK t \in fs.fatbase .. fs.fatbase + fs.fsize - 1 : FatSectors(fs, clst) = <<t>>
    BY <1>3
  <2>2. io' = <<t, 1>>
    BY <2>1 DEF FatLoads
  <2> QED  BY <1>2, <2>2
<1>4. CASE \E t \in fs.fatbase .. fs.fatbase + fs.fsize - 2 : FatSectors(fs, clst) = <<t, t + 1>>
  <2>1. PICK t \in fs.fatbase .. fs.fatbase + fs.fsize - 2 : FatSectors(fs, clst) = <<t, t + 1>>
    BY <1>4
  <2>2. io' \in {<<t, 1>>, <<t, 2>>, <<t + 1, 1>>}
    BY <2>1 DEF FatLoads
  <2>3. \/ io'[1] = t /\ io'[2] \in {1, 2}
        \/ io'[1] = t + 1 /\ io'[2] = 1
    BY <2>2
  <2>4. t \in Nat /\ t >= fs.fatbase /\ t + 2 <= fs.fatbase + fs.fsize
    BY <1>2
  <2> QED  BY <1>2, <2>3, <2>4
<1> QED  BY <1>1, <1>3, <1>4

LEMMA BehindFat ==
  ASSUME Sound(fs), Ordered(fs)
  PROVE  AtMost(fs.fatbase + fs.fsize, Behind(fs)) = fs.fatbase + fs.fsize
<1>1. /\ fs.fatbase \in Nat /\ fs.fsize \in Nat /\ Behind(fs) \in Nat
      /\ fs.fatbase + fs.fsize <= Behind(fs)
  BY DEF Sound, Ordered, Behind
<1> QED  BY <1>1 DEF AtMost

\* A step that asks the card for sectors asks for those of its region.
LEMMA StepReadsInRegion ==
  ASSUME RInv, Next, Searches, InClusters \/ fs.exact
  PROVE  ReadsInside
<1> SUFFICES io'[1] >= Region.from /\ io'[1] + io'[2] <= Region.to
  BY DEF ReadsInside
<1>0. io' # <<>> /\ pc \in {"find", "next", "read", "sector"}
  BY DEF Searches
<1>1. Sound(fs) /\ (~InClusters => Ordered(fs))
  BY <1>0 DEF RInv, FsSound, Mounted
<1>2. /\ fs.csize \in Nat \ {0} /\ fs.dirbase \in Nat /\ fs.database \in Nat /\ fs.volend \in Nat
  BY <1>1 DEF Sound
<1>3. CASE dir_find
  <2>1. pc = "find" /\ io' = <<dp.sect, 1>> /\ DirSound
    BY <1>0, <1>3 DEF dir_find, WindowFails, WindowHolds, DiskOk, DiskFails, NoDisk, RInv
  <2>2. EntriesPerSector \in Nat \ {0} /\ dp.dptr \in Nat
    BY <2>1, GeometryAssumption DEF DirSound
  <2>3. CASE dp.clust = 0
    <3>1. /\ dp.sect = fs.dirbase + (dp.dptr \div EntriesPerSector)
          /\ fs.dirbase + (dp.dptr \div EntriesPerSector) < fs.database
      BY <2>1, <2>3, <1>1 DEF DirSound, Ordered, InClusters
    <3>2. dp.dptr \div EntriesPerSector \in Nat
      BY <2>2, DivBounds
    <3>3. Region.from = fs.dirbase /\ Region.to = fs.database
      BY <2>1, <2>3 DEF Region, InClusters
    <3> QED  BY <1>2, <2>1, <3>1, <3>2, <3>3
  <2>4. CASE dp.clust # 0
    <3> DEFINE q == (dp.dptr \div EntriesPerSector) % fs.csize
               base == clust2sect(fs, dp.clust)
    <3>1. /\ dp.sect = base + q /\ base \in Nat
          /\ base >= fs.database /\ base + fs.csize <= fs.volend
      BY <2>1, <2>4, <1>1 DEF DirSound, Sound
    <3>2. q \in 0 .. fs.csize - 1
      BY <2>2, <1>2, DivBounds
    <3>3. Region.from = fs.database /\ Region.to = fs.volend
      BY <2>1, <2>4 DEF Region, InClusters
    <3> HIDE DEF q, base
    <3> QED  BY <1>2, <2>1, <3>1, <3>2, <3>3
  <2> QED  BY <2>3, <2>4
<1>4. CASE dir_next
  <2>1. pc = "next" /\ dp.clust \in Nat
    BY <1>4 DEF dir_next, RInv, DirSound
  <2>2. FatLoads(dp.clust)
    BY <1>4 DEF dir_next, GetFat, FatLoads, WindowHolds, WindowFails, DiskOk, DiskFails, NoDisk
  <2>3. Ordered(fs) /\ Region.from = fs.fatbase /\ Region.to = fs.fatbase + fs.fsize
    BY <1>1, <2>1, BehindFat DEF Region, InClusters
  <2> QED  BY <1>0, <1>1, <2>1, <2>2, <2>3, FatLoadsInRegion
<1>5. CASE NextCluster
  <2>1. pc = "read" /\ file.clust \in Nat
    BY <1>5 DEF NextCluster, RInv, FileSound
  <2>2. FatLoads(file.clust)
    BY <1>5 DEF NextCluster, GetFat, FatLoads, WindowHolds, WindowFails, DiskOk, DiskFails, NoDisk
  <2>3. Ordered(fs) /\ Region.from = fs.fatbase /\ Region.to = fs.fatbase + fs.fsize
    BY <1>1, <2>1, BehindFat DEF Region, InClusters
  <2> QED  BY <1>0, <1>1, <2>1, <2>2, <2>3, FatLoadsInRegion
<1>6. CASE ReadSectors \/ LoadSector
  <2> DEFINE base == clust2sect(fs, file.clust)
             cc == Clipped(btr \div SS)
  <2>1. /\ pc = "sector" /\ file.clust \in Nat /\ base # 0
        /\ io' = <<Sector, cc>> \/ io' = <<Sector, 1>>
    BY <1>0, <1>6 DEF ReadSectors, LoadSector, SectorLoaded, SectorFails, DiskOk, DiskFails, NoDisk,
                RInv, FileSound
  <2>2. base \in Nat /\ base >= fs.database /\ base + fs.csize <= fs.volend
    BY <1>1, <2>1 DEF Sound, clust2sect
  <2>3. SS \in Nat \ {0} /\ file.fptr \in Int /\ btr \in Int
    BY GeometryAssumption DEF RInv, FileSound
  <2>4. Csect \in 0 .. fs.csize - 1
    <3>1. \A i \in Int, d \in Nat \ {0} : i \div d \in Int /\ i % d \in 0 .. d - 1
      OBVIOUS
    <3> QED  BY <1>2, <2>3, <3>1 DEF Csect
  <2>5. cc \in Int /\ cc <= fs.csize - Csect
    <3>1. \A i \in Int, d \in Nat \ {0} : i \div d \in Int
      OBVIOUS
    <3>2. btr \div SS \in Int
      BY <2>3, <3>1
    <3> QED  BY <1>2, <2>4, <3>2 DEF Clipped, AtMost
  <2>6. Sector = base + Csect
    BY DEF Sector
  <2>7. Region.from = fs.database /\ Region.to = fs.volend
    BY <2>1 DEF Region, InClusters
  <2> HIDE DEF base, cc
  <2>8. io'[1] = base + Csect /\ io'[2] \in {1, cc}
    BY <2>1, <2>6
  <2>9. /\ base + Csect \in Int /\ base + Csect >= fs.database
        /\ \A n \in {1, cc} : base + Csect + n <= fs.volend
    BY <1>2, <2>2, <2>4, <2>5
  <2>10. io'[1] >= fs.database /\ io'[1] + io'[2] <= fs.volend
    BY <2>8, <2>9
  <2> QED  BY <2>7, <2>10
<1>7. ASSUME Caller \/ Boot \/ Partition \/ dir_sdi \/ NoSector \/ Copy \/ ReadDone
      PROVE  FALSE
  BY <1>0, <1>7 DEF Caller, f_mount, f_open, f_close, f_read, Boot, Partition, dir_sdi, NoSector,
              Copy, ReadDone, NewCall, NoDisk
<1> QED  BY <1>3, <1>4, <1>5, <1>6, <1>7 DEF Next, FatFs

-----------------------------------------------------------------------------
LEMMA ModNext ==
  ASSUME NEW q \in Nat, NEW m \in Nat \ {0}, (q + 1) % m # 0
  PROVE  (q + 1) % m = (q % m) + 1
<1> DEFINE a == q \div m
           r == q % m
<1>1. a \in Nat /\ r \in 0 .. m - 1 /\ q = m * a + r
  BY DivBounds
<1> HIDE DEF a, r
<1>2. m * a \in Nat /\ m * (a + 1) = m * a + m
  BY <1>1
<1>3. CASE r + 1 < m
  <2>1. q + 1 = m * a + (r + 1) /\ r + 1 \in 0 .. m - 1 /\ q + 1 \in Nat
    BY <1>1, <1>2, <1>3
  <2> QED  BY <1>1, <2>1, ModUnique DEF r
<1>4. CASE r + 1 = m
  <2>1. q + 1 = m * (a + 1) + 0 /\ q + 1 \in Nat /\ a + 1 \in Nat /\ 0 \in 0 .. m - 1
    BY <1>1, <1>2, <1>4
  <2>2. (q + 1) % m = 0
    BY <2>1, ModUnique
  <2> QED  BY <2>2
<1> QED  BY <1>1, <1>3, <1>4

LEMMA DirNextSound ==
  ASSUME RInv, dir_next
  PROVE  RInv'
<1>1. /\ pc = "next" /\ DirSound /\ Mounted /\ Sound(fs)
      /\ \A k \in Nat : IsCluster(fs, k) => card.fat[k] \in Nat
  BY DEF dir_next, RInv, FsSound, Mounted
<1>2. fs' = fs /\ card' = card
  BY DEF dir_next
<1>3. /\ pc' \in {"find", "idle"}
      /\ file' \in {file, NoFile} /\ btr' \in {btr, 0}
  BY DEF dir_next, GetFat, DirCluster, Goes, Fails, Returns, NewCall
<1>4. FileSound'
  BY <1>3 DEF FileSound, NoFile, RInv
<1>5. ASSUME pc' = "find" PROVE DirSound'
  <2> DEFINE ofs == dp.dptr + 1
             q == dp.dptr \div EntriesPerSector
  <2>1. /\ dp.dptr \in Nat /\ dp.dptr < MAX_DIR /\ dp.clust \in Nat
        /\ EntriesPerSector \in Nat \ {0} /\ fs.csize \in Nat \ {0} /\ fs.n_rootdir \in Nat
        /\ MAX_DIR \in Nat /\ DwordEntries \in Nat /\ MAX_DIR < DwordEntries
    BY <1>1, GeometryAssumption, CardsAssumption DEF DirSound, Sound
  <2>2. ofs \in Nat /\ ofs % DwordEntries = ofs
    BY <2>1
  <2>3. /\ q \in Nat
        /\ ofs % EntriesPerSector = 0 => ofs \div EntriesPerSector = q + 1
        /\ ofs % EntriesPerSector # 0 => ofs \div EntriesPerSector = q
    BY <2>1
  <2>4. /\ (q + 1) % fs.csize # 0 => (q + 1) % fs.csize = (q % fs.csize) + 1
        /\ q % fs.csize \in Nat
    <3> HIDE DEF q
    <3>1. q \in Nat /\ fs.csize \in Nat \ {0}
      BY <2>1, <2>3
    <3>2. q % fs.csize \in Nat
      BY <3>1, DivBounds
    <3> QED  BY <3>1, <3>2, ModNext
  <2>5. \/ /\ ofs < MAX_DIR /\ ofs % EntriesPerSector # 0
           /\ dp' = [dp EXCEPT !.dptr = ofs]
        \/ /\ ofs < MAX_DIR /\ ofs % EntriesPerSector = 0 /\ SameCluster(ofs)
           /\ dp.clust = 0 => ofs < fs.n_rootdir
           /\ dp' = [dp EXCEPT !.dptr = ofs, !.sect = @ + 1]
        \/ /\ ofs < MAX_DIR /\ ofs % EntriesPerSector = 0 /\ ~SameCluster(ofs)
           /\ \E clst : clst \in Nat /\ IsCluster(fs, clst) /\
                 dp' = [sect |-> clust2sect(fs, clst), clust |-> clst, dptr |-> ofs]
    <3>1. ASSUME NEW clst \in Nat, DirCluster(clst)
          PROVE  /\ IsCluster(fs, clst)
                 /\ dp' = [sect |-> clust2sect(fs, clst), clust |-> clst, dptr |-> ofs]
      BY <1>5, <2>2, <3>1 DEF DirCluster, Fails, Returns
    <3>2. IsCluster(fs, dp.clust) => card.fat[dp.clust] \in Nat
      BY <1>1, <2>1
    <3>3. (\E clst \in FatValues(dp.clust) : DirCluster(clst)) =>
             \E clst : clst \in Nat /\ IsCluster(fs, clst) /\
                 dp' = [sect |-> clust2sect(fs, clst), clust |-> clst, dptr |-> ofs]
      BY <3>1, <3>2, GeometryAssumption DEF FatValues, DiskErr, Invalid
    <3> QED  BY <1>5, <2>2, <3>3 DEF dir_next, DirGoesOn, Fails, Returns
  <2>6. CASE /\ ofs < MAX_DIR /\ ofs % EntriesPerSector # 0
             /\ dp' = [dp EXCEPT !.dptr = ofs]
    <3>1. dp'.dptr = ofs /\ dp'.clust = dp.clust /\ dp'.sect = dp.sect
      BY <2>6
    <3>2. dp.clust = 0 => ofs < fs.n_rootdir
      <4>1. dp.clust = 0 => dp.dptr < fs.n_rootdir
        BY <1>1 DEF DirSound
      <4>2. fs.n_rootdir % EntriesPerSector = 0
        BY <1>1 DEF Sound
      <4> QED  BY <2>1, <2>6, <4>1, <4>2
    <3> QED  BY <1>1, <1>2, <2>2, <2>3, <2>6, <3>1, <3>2 DEF DirSound
  <2>7. CASE /\ ofs < MAX_DIR /\ ofs % EntriesPerSector = 0 /\ SameCluster(ofs)
             /\ dp.clust = 0 => ofs < fs.n_rootdir
             /\ dp' = [dp EXCEPT !.dptr = ofs, !.sect = @ + 1]
    <3>1. dp'.dptr = ofs /\ dp'.clust = dp.clust /\ dp'.sect = dp.sect + 1
      BY <2>7
    <3>2. ofs \div EntriesPerSector = q + 1
      BY <2>3, <2>7
    <3>3. CASE dp.clust = 0
      <4>1. dp.sect + 1 = fs.dirbase + (q + 1)
        BY <1>1, <2>3, <3>3 DEF DirSound, Sound
      <4> QED  BY <1>1, <1>2, <2>1, <2>2, <2>7, <3>1, <3>2, <3>3, <4>1 DEF DirSound
    <3>4. CASE dp.clust # 0
      <4> DEFINE base == clust2sect(fs, dp.clust)
      <4>1. (q + 1) % fs.csize = (q % fs.csize) + 1
        BY <2>4, <2>7, <3>2, <3>4 DEF SameCluster
      <4>2. dp.sect = base + (q % fs.csize) /\ base \in Nat
        BY <1>1, <3>4 DEF DirSound, Sound
      <4>3. dp.sect + 1 = base + ((q + 1) % fs.csize)
        <5> HIDE DEF base, q
        <5> QED  BY <2>4, <4>1, <4>2
      <4> QED  BY <1>1, <1>2, <2>1, <2>2, <2>7, <3>1, <3>2, <3>4, <4>3 DEF DirSound
    <3> QED  BY <3>3, <3>4
  <2>8. CASE /\ ofs < MAX_DIR /\ ofs % EntriesPerSector = 0 /\ ~SameCluster(ofs)
             /\ \E clst : clst \in Nat /\ IsCluster(fs, clst) /\
                 dp' = [sect |-> clust2sect(fs, clst), clust |-> clst, dptr |-> ofs]
    <3>1. PICK clst : clst \in Nat /\ IsCluster(fs, clst) /\
                 dp' = [sect |-> clust2sect(fs, clst), clust |-> clst, dptr |-> ofs]
      BY <2>8
    <3>2. (ofs \div EntriesPerSector) % fs.csize = 0 /\ dp.clust # 0
      BY <2>8 DEF SameCluster
    <3>3. clst # 0 /\ clust2sect(fs, clst) + 0 = clust2sect(fs, clst)
      BY <1>1, <3>1 DEF IsCluster, Sound
    <3>4. HasSector(fs, clst)
      BY <1>1, <3>1 DEF Sound
    <3>5. dp'.dptr = ofs /\ dp'.clust = clst /\ dp'.sect = clust2sect(fs, clst)
      BY <3>1
    <3> QED  BY <1>2, <2>2, <2>8, <3>1, <3>2, <3>3, <3>4, <3>5 DEF DirSound
  <2> QED  BY <2>5, <2>6, <2>7, <2>8
<1> QED  BY <1>1, <1>2, <1>3, <1>4, <1>5 DEF RInv, FsSound, Mounted

\* What a boot record gives.
LEMMA AnalyzeSound ==
  ASSUME RInv, NEW s \in card.vbr, Analyze(s), card' = card
  PROVE  /\ fs' = fs \/ fs' # NotMounted
         /\ FsSound'
         /\ pc' \in {"idle", "sdi"} /\ (pc' = "sdi" => fs' # NotMounted)
         /\ file' \in {file, NoFile} /\ btr' \in {btr, 0}
<1> DEFINE b == card.bpb[s]
<1>1. card \in Cards
  BY DEF RInv
<1>2. /\ s \in Nat /\ b \in BPB
      /\ Accepted(b) => /\ Numbered(Volume(b, s))
                        /\ \A k \in 2 .. FatEntries(b) - 1 : card.fat[k] \in Nat
  <2>1. \A c \in Cards : \A t \in c.vbr :
           /\ t \in Nat /\ c.bpb[t] \in BPB
           /\ Accepted(c.bpb[t]) =>
                /\ Numbered(Volume(c.bpb[t], t))
                /\ \A k \in 2 .. FatEntries(c.bpb[t]) - 1 : c.fat[k] \in DWORD
    BY CardsAssumption, Zenon
  <2>2. \A n \in DWORD : n \in Nat
    BY DwordNat
  <2> QED  BY <1>1, <2>1, <2>2, Zenon
<1>3. CASE Accepted(b)
  <2>1. /\ fs' = Volume(b, s) /\ file' = file
        /\ pc' \in {"idle", "sdi"} /\ btr' \in {btr, 0}
    BY <1>3 DEF Analyze, Found, Returns, Goes
  <2>2. Sound(fs') /\ (fs'.exact => Ordered(fs')) /\ fs' # NotMounted
    BY <1>2, <1>3, <2>1, VolumeSound
  <2>3. fs'.n_fatent = FatEntries(b) /\ FatEntries(b) \in Nat
    BY <1>2, <1>3, <2>1, AcceptedTypes DEF Volume
  <2>4. \A k \in Nat : IsCluster(fs', k) => card'.fat[k] \in Nat
    BY <1>2, <1>3, <2>3 DEF IsCluster
  <2> QED  BY <2>1, <2>2, <2>4 DEF FsSound
<1>4. CASE ~Accepted(b)
  <2>1. fs' = fs /\ pc' = "idle" /\ file' \in {file, NoFile} /\ btr' = 0
    BY <1>4 DEF Analyze, Fails, Returns
  <2> QED  BY <2>1 DEF FsSound, RInv
<1> QED  BY <1>3, <1>4

LEMMA FindVolumeSound ==
  ASSUME RInv, Boot \/ Partition
  PROVE  RInv'
<1>1. card' = card
  BY DEF Boot, Partition
<1>2. \/ \E s \in card.vbr : Analyze(s)
      \/ fs' = fs /\ pc' \in {"idle", "part"} /\ file' \in {file, NoFile} /\ btr' \in {btr, 0}
  BY DEF Boot, Partition, NextPart, Fails, Returns, RInv
<1>3. /\ FsSound' /\ pc' \in {"idle", "part", "sdi"} /\ (pc' = "sdi" => fs' # NotMounted)
      /\ file' \in {file, NoFile} /\ btr' \in {btr, 0}
  <2>1. CASE \E s \in card.vbr : Analyze(s)
    BY <1>1, <2>1, AnalyzeSound
  <2>2. CASE fs' = fs /\ pc' \in {"idle", "part"} /\ file' \in {file, NoFile} /\ btr' \in {btr, 0}
    BY <1>1, <2>2 DEF FsSound, RInv
  <2> QED  BY <1>2, <2>1, <2>2
<1>4. FileSound'
  BY <1>3 DEF FileSound, NoFile, RInv
<1> QED  BY <1>1, <1>3, <1>4 DEF RInv, Mounted

LEMMA OpenSound ==
  ASSUME RInv, dir_sdi \/ dir_find
  PROVE  RInv'
<1>1. fs' = fs /\ card' = card /\ Mounted /\ Sound(fs)
  BY DEF dir_sdi, dir_find, RInv, FsSound, Mounted
<1>2. FsSound'
  BY <1>1 DEF FsSound, RInv
<1>3. CASE dir_sdi
  <2>1. /\ pc' \in {"find", "idle"} /\ file' \in {file, NoFile} /\ btr' \in {btr, 0}
        /\ pc' = "find" => /\ RootSector # 0
                          /\ dp' = [sect |-> RootSector, clust |-> RootCluster, dptr |-> 0]
    BY <1>3 DEF dir_sdi, Fails, Returns, Goes
  <2>2. FileSound'
    BY <2>1 DEF FileSound, NoFile, RInv
  <2>3. ASSUME pc' = "find" PROVE DirSound'
    <3>1. dp'.sect = RootSector /\ dp'.clust = RootCluster /\ dp'.dptr = 0 /\ RootSector # 0
      BY <2>1, <2>3
    <3>2. EntriesPerSector \in Nat \ {0} /\ fs.csize \in Nat \ {0} /\ fs.dirbase \in Nat
          /\ fs.n_rootdir \in Nat /\ MAX_DIR \in Nat \ {0}
      BY <1>1, GeometryAssumption, CardsAssumption DEF Sound
    <3>3. 0 \div EntriesPerSector = 0 /\ 0 % fs.csize = 0
      BY <3>2
    <3>4. CASE RootCluster = 0
      <4>1. RootSector = fs.dirbase /\ fs.n_rootdir # 0
        BY <3>1, <3>4 DEF RootSector
      <4>2. fs.fs_type # "FAT32"
        BY <1>1, <4>1 DEF Sound
      <4>3. fs.dirbase + 0 = fs.dirbase /\ 0 < fs.n_rootdir
        BY <3>2, <4>1
      <4> QED  BY <1>1, <3>1, <3>2, <3>3, <3>4, <4>1, <4>2, <4>3 DEF DirSound
    <3>5. CASE RootCluster # 0
      <4>1. RootCluster \in Nat /\ RootSector = clust2sect(fs, RootCluster)
        BY <3>2, <3>5 DEF RootCluster, RootSector
      <4>2. HasSector(fs, RootCluster) /\ RootSector \in Nat
        BY <1>1, <3>1, <4>1 DEF Sound, clust2sect
      <4> QED  BY <1>1, <3>1, <3>2, <3>3, <3>5, <4>1, <4>2 DEF DirSound
    <3> QED  BY <3>4, <3>5
  <2> QED  BY <1>1, <1>2, <2>1, <2>2, <2>3 DEF RInv, Mounted
<1>4. CASE dir_find
  <2> DEFINE e == EntryAt(dp.sect, dp.dptr % EntriesPerSector)
  <2>1. /\ pc' \in {"next", "idle"} /\ dp' = dp /\ DirSound /\ btr' \in {btr, 0}
        /\ file' \in {file, NoFile} \/ Opens(e)
    BY <1>4 DEF dir_find, Fails, Returns, Goes, Opens, RInv
  <2>2. e.sclust \in Nat /\ e.size \in Nat
    <3>1. (dp.dptr % EntriesPerSector) + 1 \in 1 .. EntriesPerSector
      BY <2>1, GeometryAssumption DEF DirSound
    <3> QED  BY <3>1, CardsAssumption, DwordNat DEF EntryAt, Other, RInv
  <2>3. FileSound'
    <3>1. CASE file' \in {file, NoFile}
      BY <2>1, <3>1 DEF FileSound, NoFile, RInv
    <3>2. CASE Opens(e)
      BY <2>1, <2>2, <3>2 DEF FileSound, NoFile, RInv, Opens
    <3> QED  BY <2>1, <3>1, <3>2
  <2>4. DirSound'
    BY <1>1, <2>1 DEF DirSound
  <2> QED  BY <1>1, <1>2, <2>1, <2>3, <2>4 DEF RInv, Mounted
<1> QED  BY <1>3, <1>4

\* Assignments to the file object keep its fields.
LEMMA FileFields ==
  ASSUME RInv, NEW x, NEW y
  PROVE  /\ \/ file' = file
            \/ file' = [file EXCEPT !.err = x]
            \/ file' = [file EXCEPT !.open = x]
            \/ file' = [file EXCEPT !.sect = x, !.buf = y]
            \/ file' = [file EXCEPT !.err = x, !.buf = y]
            => /\ DOMAIN file' = DOMAIN file
               /\ file'.clust = file.clust /\ file'.sclust = file.sclust
               /\ file'.fptr = file.fptr /\ file'.objsize = file.objsize
         /\ file' = [file EXCEPT !.clust = x]
            => /\ DOMAIN file' = DOMAIN file
               /\ file'.clust = x /\ file'.sclust = file.sclust
               /\ file'.fptr = file.fptr /\ file'.objsize = file.objsize
         /\ file' = [file EXCEPT !.fptr = @ + x]
            => /\ DOMAIN file' = DOMAIN file
               /\ file'.clust = file.clust /\ file'.sclust = file.sclust
               /\ file'.fptr = file.fptr + x /\ file'.objsize = file.objsize
<1>1. {"clust", "sclust", "fptr", "objsize"} \subseteq DOMAIN file
  BY DEF RInv, FileSound, NoFile
<1> QED  BY <1>1

LEMMA FileReadSound ==
  ASSUME RInv, NextCluster \/ ReadSectors \/ LoadSector \/ NoSector \/ Copy \/ ReadDone
  PROVE  RInv'
<1>1. fs' = fs /\ card' = card /\ Mounted
  BY DEF NextCluster, ReadSectors, LoadSector, NoSector, Copy, ReadDone, RInv
<1>2. FsSound'
  BY <1>1 DEF FsSound, RInv
<1>3. pc' \in {"idle", "read", "sector", "copy"}
  BY DEF NextCluster, GetFat, Cluster, ReadSectors, LoadSector, SectorLoaded, SectorFails, NoSector,
         Copy, CopyFrom, ReadDone, Moves, Goes, Abort, Returns
<1>4. FileSound'
  <2>1. /\ DOMAIN file = DOMAIN NoFile
        /\ file.clust \in Nat /\ file.sclust \in Nat /\ file.fptr \in Int /\ file.objsize \in Int
        /\ btr \in Int
    BY DEF RInv, FileSound
  <2>2. CASE NextCluster
    <3>1. ASSUME NEW clst \in Nat, Cluster(clst)
          PROVE  /\ DOMAIN file' = DOMAIN file
                 /\ file'.clust \in {file.clust, clst} /\ file'.sclust = file.sclust
                 /\ file'.fptr = file.fptr /\ file'.objsize = file.objsize /\ btr' \in {btr, 0}
      <4>1. CASE Abort("FR_INT_ERR") \/ Abort("FR_DISK_ERR")
        <5>1. \E res : file' = [file EXCEPT !.err = res] /\ btr' = 0
          BY <4>1 DEF Abort, Returns
        <5> QED  BY <5>1, FileFields
      <4>2. CASE Goes("sector") /\ file' = [file EXCEPT !.clust = clst]
        BY <4>2, FileFields DEF Goes
      <4> QED  BY <3>1, <4>1, <4>2 DEF Cluster
    <3>2. \A k \in Nat : IsCluster(fs, k) => card.fat[k] \in Nat
      BY <1>1 DEF RInv, FsSound, Mounted
    <3>3. (\E clst \in FatValues(file.clust) : Cluster(clst)) => \E clst \in Nat : Cluster(clst)
      BY <2>1, <3>2, GeometryAssumption DEF FatValues, DiskErr, Invalid
    <3>4. (file' = file /\ btr' = btr) \/ \E clst \in Nat : Cluster(clst)
      BY <2>1, <2>2, <3>3 DEF NextCluster, Goes
    <3> QED  BY <2>1, <3>1, <3>4 DEF FileSound
  <2>3. CASE ReadSectors
    <3> DEFINE n == SS * Clipped(btr \div SS)
    <3>1. n \in Int
      <4>1. SS \in Nat \ {0} /\ fs.csize \in Nat \ {0}
        BY <1>1, GeometryAssumption DEF RInv, FsSound, Sound, Mounted
      <4>2. \A i \in Int, d \in Nat \ {0} : i \div d \in Int /\ i % d \in Int
        OBVIOUS
      <4>3. btr \div SS \in Int /\ Csect \in Int
        BY <2>1, <4>1, <4>2 DEF Csect
      <4>4. Clipped(btr \div SS) \in Int
        BY <4>1, <4>3 DEF Clipped, AtMost
      <4> QED  BY <4>1, <4>4
    <3>2. \/ btr' = btr - n /\ file' = [file EXCEPT !.fptr = @ + n]
          \/ btr' = 0 /\ file' = [file EXCEPT !.err = "FR_DISK_ERR"]
      BY <2>3 DEF ReadSectors, Moves, Abort, Returns
    <3> HIDE DEF n
    <3>3. /\ DOMAIN file' = DOMAIN file
          /\ file'.clust = file.clust /\ file'.sclust = file.sclust /\ file'.objsize = file.objsize
          /\ file'.fptr = file.fptr \/ file'.fptr = file.fptr + n
          /\ btr' = 0 \/ btr' = btr - n
      BY <3>2, FileFields
    <3> QED  BY <2>1, <3>1, <3>3 DEF FileSound
  <2>4. CASE LoadSector \/ NoSector \/ ReadDone
    <3>1. \/ file' = file
          \/ \E x : file' = [file EXCEPT !.err = x]
          \/ \E x, y : file' = [file EXCEPT !.sect = x, !.buf = y]
          \/ \E x, y : file' = [file EXCEPT !.err = x, !.buf = y]
      <4>1. CASE LoadSector
        BY <4>1 DEF LoadSector, SectorLoaded, SectorFails, Goes, Returns
      <4>2. CASE NoSector
        BY <4>2 DEF NoSector, Abort, Returns
      <4>3. CASE ReadDone
        BY <4>3 DEF ReadDone, Returns
      <4> QED  BY <2>4, <4>1, <4>2, <4>3
    <3>2. /\ DOMAIN file' = DOMAIN file
          /\ file'.clust = file.clust /\ file'.sclust = file.sclust
          /\ file'.fptr = file.fptr /\ file'.objsize = file.objsize
      BY <3>1, FileFields
    <3>3. btr' = btr \/ btr' = 0
      BY <2>4 DEF LoadSector, NoSector, ReadDone, SectorLoaded, SectorFails, Goes, Abort, Returns
    <3>4. btr \in Int /\ 0 \in Int
      BY <2>1
    <3>5. btr' \in Int
      BY <3>3, <3>4, Zenon
    <3> QED  BY <2>1, <3>2, <3>5 DEF FileSound
  <2>5. CASE Copy
    <3> DEFINE n == AtMost(SS - (file.fptr % SS), btr)
    <3>1. n \in Int
      BY <2>1, GeometryAssumption DEF AtMost
    <3>2. btr' = btr - n /\ file' = [file EXCEPT !.fptr = @ + n]
      BY <2>5 DEF Copy, CopyFrom, Moves
    <3> HIDE DEF n
    <3>3. /\ DOMAIN file' = DOMAIN file
          /\ file'.clust = file.clust /\ file'.sclust = file.sclust /\ file'.objsize = file.objsize
          /\ file'.fptr = file.fptr + n
      BY <3>2, FileFields
    <3> QED  BY <2>1, <3>1, <3>2, <3>3 DEF FileSound
  <2> QED  BY <2>2, <2>3, <2>4, <2>5
<1> QED  BY <1>1, <1>2, <1>3, <1>4 DEF RInv, Mounted

LEMMA CallerSound ==
  ASSUME RInv, Caller
  PROVE  RInv'
<1>1. CASE f_mount
  <2>1. card' = card /\ fs' = NotMounted /\ file' = file /\ btr' = btr /\ pc' = "boot"
    BY <1>1 DEF f_mount
  <2> QED  BY <2>1 DEF RInv, FsSound, FileSound
<1>2. CASE f_open
  <2>1. /\ card' = card /\ fs' = fs /\ file' = file /\ btr' = btr
        /\ pc' \in {"sdi", "boot"} /\ (pc' = "sdi" => Mounted)
    BY <1>2 DEF f_open
  <2> QED  BY <2>1 DEF RInv, FsSound, FileSound, Mounted
<1>3. ASSUME NEW n \in ReadSizes, f_read(n) PROVE RInv'
  <2>1. /\ card' = card /\ fs' = fs /\ file' = file
        /\ pc' \in {"idle", "read"} /\ (pc' = "read" => Mounted)
        /\ btr' = btr \/ btr' = AtMost(n, file.objsize - file.fptr)
    BY <1>3 DEF f_read, Valid, RInv
  <2>2. n \in Nat /\ file.objsize \in Int /\ file.fptr \in Int /\ btr \in Int
    BY CardsAssumption DEF RInv, FileSound
  <2>3. btr' \in Int
    BY <2>1, <2>2 DEF AtMost
  <2> QED  BY <2>1, <2>3 DEF RInv, FsSound, FileSound, Mounted
<1>4. CASE f_close
  <2>1. /\ card' = card /\ fs' = fs /\ btr' = btr /\ pc' = pc /\ pc = "idle"
        /\ file' = file \/ file' = [file EXCEPT !.open = FALSE]
    BY <1>4 DEF f_close, call
  <2>2. /\ DOMAIN file' = DOMAIN file
        /\ file'.clust = file.clust /\ file'.sclust = file.sclust
        /\ file'.fptr = file.fptr /\ file'.objsize = file.objsize
    BY <2>1, FileFields
  <2> QED  BY <2>1, <2>2 DEF RInv, FsSound, FileSound, Mounted
<1> QED  BY <1>1, <1>2, <1>3, <1>4 DEF Caller

LEMMA StepRInv ==
  ASSUME RInv, [Next]_vars
  PROVE  RInv'
<1>1. CASE UNCHANGED vars
  <2>1. /\ card' = card /\ fs' = fs /\ dp' = dp /\ file' = file /\ pc' = pc /\ btr' = btr
    BY <1>1 DEF vars, call
  <2> QED  BY <2>1 DEF RInv, FsSound, FileSound, DirSound, Mounted
<1> QED
  BY <1>1, CallerSound, FindVolumeSound, OpenSound, DirNextSound, FileReadSound DEF Next, FatFs

\* FatFs reads directories and files inside the volume's clusters on every card,
\* and the FAT and the root directory where the boot record puts them on every
\* card whose boot record's sums are exact.
THEOREM ReadsWhereItBelongs == Spec => ReadsInRegion
<1> DEFINE A == Searches /\ (InClusters \/ fs.exact) => ReadsInside
<1>1. RInv /\ [Next]_vars => [A]_vars
  BY StepReadsInRegion
<1> QED  BY <1>1, InitRInv, StepRInv, PTL DEF Spec, ReadsInRegion

-----------------------------------------------------------------------------
\* CachesHold without the conditions under which the file's sector matters.
CInv ==
  /\ winsect # Invalid => win = winsect
  /\ file.err = "FR_OK" /\ file.sect # 0 => file.buf = file.sect

LEMMA WindowStep ==
  ASSUME winsect # Invalid => win = winsect, Next
  PROVE  winsect' # Invalid => win' = winsect'
<1> USE DEF Loads, LoadFails, FailedWindow, WindowHolds, WindowFails
<1>1. CASE Caller
  BY <1>1 DEF Caller, f_mount, f_open, f_read, f_close
<1>2. CASE Boot \/ Partition
  BY <1>2 DEF Boot, Partition, Analyze
<1>3. CASE dir_sdi \/ dir_find \/ ReadSectors \/ LoadSector \/ NoSector \/ Copy \/ ReadDone
  BY <1>3 DEF dir_sdi, dir_find, ReadSectors, LoadSector, NoSector, Copy, ReadDone
<1>4. CASE dir_next
  BY <1>4 DEF dir_next, GetFat
<1>5. CASE NextCluster
  BY <1>5 DEF NextCluster, GetFat
<1> QED  BY <1>1, <1>2, <1>3, <1>4, <1>5 DEF Next, FatFs

LEMMA FileBufferStep ==
  ASSUME RInv, CInv, Next
  PROVE  file'.err = "FR_OK" /\ file'.sect # 0 => file'.buf = file'.sect
<1>1. {"err", "sect", "buf", "open", "clust", "fptr"} \subseteq DOMAIN file
  BY DEF RInv, FileSound, NoFile
<1>2. \/ file' = file \/ file' = NoFile
      \/ \E e : file' = [NoFile EXCEPT !.open = TRUE, !.id = Fsid, !.sclust = e.sclust, !.objsize = e.size]
      \/ \E x : file' = [file EXCEPT !.open = x]
      \/ \E x : file' = [file EXCEPT !.clust = x]
      \/ \E x : file' = [file EXCEPT !.fptr = x]
      \/ \E x \in Errors : file' = [file EXCEPT !.err = x]
      \/ \E x \in Errors : file' = [file EXCEPT !.err = x, !.buf = Garbage]
      \/ \E x : file' = [file EXCEPT !.sect = x, !.buf = x]
  <2>1. CASE Caller
    BY <2>1 DEF Caller, f_mount, f_open, f_read, f_close
  <2>2. CASE Boot \/ Partition
    BY <2>2 DEF Boot, Partition, Analyze, NextPart, Fails
  <2>3. CASE dir_sdi
    BY <2>3 DEF dir_sdi, Fails
  <2>4. CASE dir_find
    BY <2>4 DEF dir_find, Fails, Opens
  <2>5. CASE dir_next
    BY <2>5 DEF dir_next, GetFat, DirCluster, Fails
  <2>6. CASE NextCluster
    BY <2>6 DEF NextCluster, GetFat, Cluster, Abort, Errors
  <2>7. CASE ReadSectors
    BY <2>7 DEF ReadSectors, Abort, Errors
  <2>8. CASE LoadSector
    BY <2>8 DEF LoadSector, SectorLoaded, SectorFails, Errors
  <2>9. CASE NoSector \/ ReadDone
    BY <2>9 DEF NoSector, ReadDone, Abort, Errors
  <2>10. CASE Copy
    BY <2>10 DEF Copy, CopyFrom
  <2> QED  BY <2>1, <2>2, <2>3, <2>4, <2>5, <2>6, <2>7, <2>8, <2>9, <2>10 DEF Next, FatFs
<1>3. "FR_OK" \notin Errors
  BY DEF Errors
<1>4. CASE file' = file
  BY <1>4 DEF CInv
<1>5. CASE \/ file' = NoFile
           \/ \E e : file' = [NoFile EXCEPT !.open = TRUE, !.id = Fsid, !.sclust = e.sclust,
                                          !.objsize = e.size]
  <2>1. "sect" \in DOMAIN NoFile /\ NoFile.sect = 0
    BY DEF NoFile
  <2>2. file'.sect = 0
    <3> HIDE DEF NoFile
    <3> QED  BY <1>5, <2>1
  <2> QED  BY <2>2
<1>6. CASE \/ \E x : file' = [file EXCEPT !.open = x]
           \/ \E x : file' = [file EXCEPT !.clust = x]
           \/ \E x : file' = [file EXCEPT !.fptr = x]
  <2>1. file'.err = file.err /\ file'.sect = file.sect /\ file'.buf = file.buf
    BY <1>1, <1>6
  <2> QED  BY <2>1 DEF CInv
<1>7. CASE \/ \E x \in Errors : file' = [file EXCEPT !.err = x]
           \/ \E x \in Errors : file' = [file EXCEPT !.err = x, !.buf = Garbage]
  <2>1. file'.err \in Errors
    BY <1>1, <1>7
  <2> QED  BY <1>3, <2>1
<1>8. CASE \E x : file' = [file EXCEPT !.sect = x, !.buf = x]
  BY <1>1, <1>8
<1> QED  BY <1>2, <1>4, <1>5, <1>6, <1>7, <1>8

LEMMA CachesKept == ASSUME RInv, CInv, [Next]_vars PROVE CInv'
<1>1. CASE Next
  BY <1>1, WindowStep, FileBufferStep DEF CInv
<1>2. CASE UNCHANGED vars
  BY <1>2 DEF vars, CInv
<1> QED  BY <1>1, <1>2

\* No buffer is taken for a sector it does not hold, whichever loads failed.
THEOREM CachesAreTrusted == Spec => []CachesHold
<1>1. Init => CInv
  BY DEF Init, CInv, NoFile
<1>2. RInv /\ CInv /\ [Next]_vars => CInv'
  BY CachesKept
<1>3. CInv => CachesHold
  BY DEF CInv, CachesHold
<1> QED  BY <1>1, <1>2, <1>3, InitRInv, StepRInv, PTL DEF Spec

-----------------------------------------------------------------------------
(****************************************************************************)
(* Quotients and remainders.                                                *)
(****************************************************************************)
\* Induction, from the well-foundedness of <.
LEMMA Induction ==
  ASSUME NEW S, 0 \in S, \A n \in Nat : n \in S => n + 1 \in S
  PROVE  Nat \subseteq S
<1> SUFFICES ASSUME Nat \ S # {} PROVE FALSE
  OBVIOUS
<1>1. PICK x \in Nat \ S : \A m \in Nat \ S : ~ (<<m, x>> \in OpToRel(<, Nat))
  BY NatLessThanWellFounded, WFMin
<1>2. \A m \in Nat \ S : ~ (m < x)
  BY <1>1 DEF OpToRel
<1>3. x # 0
  OBVIOUS
<1>4. x - 1 \in Nat /\ x - 1 \in S
  BY <1>2, <1>3
<1> QED  BY <1>4

\* A number has one quotient and one remainder.
LEMMA DivModUnique ==
  ASSUME NEW n \in Nat, NEW d \in Nat \ {0}, NEW a \in Nat, NEW r \in 0 .. d - 1, n = d * a + r
  PROVE  n \div d = a /\ n % d = r
<1>1. n % d = r
  BY ModUnique
<1>2. n \div d \in Nat /\ n = d * (n \div d) + (n % d)
  BY DivBounds
<1> DEFINE b == n \div d
<1>3. d * a = d * b /\ b \in Nat
  <2>1. d * b \in Nat /\ d * a \in Nat /\ b \in Nat
    BY <1>2
  <2>2. d * b + r = d * a + r
    BY <1>1, <1>2
  <2> HIDE DEF b
  <2> QED  BY <2>1, <2>2
<1> HIDE DEF b
<1>4. ~(a < b) /\ ~(b < a)
  <2>1. \A x, y \in Nat : x < y => d * x # d * y
    <3> SUFFICES ASSUME NEW x \in Nat, NEW y \in Nat, x < y PROVE d * x # d * y
      OBVIOUS
    <3>1. (x + 1) * d <= y * d
      BY ProductMonotone
    <3>2. (x + 1) * d = d * x + d /\ y * d = d * y /\ d * x \in Nat /\ d * y \in Nat
      OBVIOUS
    <3> QED  BY <3>1, <3>2
  <2> QED  BY <1>3, <2>1
<1>5. a = b
  BY <1>3, <1>4
<1> QED  BY <1>1, <1>5 DEF b

\* k places on, inside the same d: the same quotient.
LEMMA Within ==
  ASSUME NEW p \in Nat, NEW d \in Nat \ {0}, NEW k \in Nat, k < d - (p % d)
  PROVE  (p + k) \div d = p \div d /\ (p + k) % d = (p % d) + k
<1> DEFINE a == p \div d
           r == p % d
<1>1. a \in Nat /\ r \in 0 .. d - 1 /\ p = d * a + r
  BY DivBounds
<1>2. k < d - r
  OBVIOUS
<1> HIDE DEF a, r
<1>3. d * a \in Nat
  BY <1>1
<1>4. p + k = d * a + (r + k) /\ r + k \in 0 .. d - 1
  BY <1>1, <1>2, <1>3
<1>5. (p + k) \div d = a /\ (p + k) % d = r + k
  BY <1>1, <1>4, DivModUnique
<1> QED  BY <1>5 DEF a, r

\* i places on, from a multiple of d.
LEMMA Blocks ==
  ASSUME NEW p \in Nat, NEW d \in Nat \ {0}, NEW i \in Nat, p % d = 0
  PROVE  (p + i) \div d = (p \div d) + (i \div d) /\ (p + i) % d = i % d
<1> DEFINE a == p \div d
           b == i \div d
           r == i % d
<1>1. a \in Nat /\ p = d * a + 0
  BY DivBounds
<1>2. b \in Nat /\ r \in 0 .. d - 1 /\ i = d * b + r
  BY DivBounds
<1> HIDE DEF a, b, r
<1>3. d * a \in Nat /\ d * b \in Nat /\ d * (a + b) = d * a + d * b
  BY <1>1, <1>2
<1>4. p + i = d * (a + b) + r /\ a + b \in Nat
  BY <1>1, <1>2, <1>3
<1>5. (p + i) \div d = a + b /\ (p + i) % d = r
  BY <1>2, <1>4, DivModUnique
<1> QED  BY <1>5 DEF a, b, r

\* The place before.
LEMMA Before ==
  ASSUME NEW p \in Nat \ {0}, NEW d \in Nat \ {0}
  PROVE  /\ p % d # 0 => (p - 1) \div d = p \div d
         /\ p % d = 0 => p \div d > 0 /\ (p - 1) \div d = (p \div d) - 1
<1> DEFINE a == p \div d
           r == p % d
<1>1. a \in Nat /\ r \in 0 .. d - 1 /\ p = d * a + r
  BY DivBounds
<1> HIDE DEF a, r
<1>2. CASE r # 0
  <2>1. p - 1 = d * a + (r - 1) /\ r - 1 \in 0 .. d - 1 /\ p - 1 \in Nat
    <3>1. d * a \in Nat
      BY <1>1
    <3> QED  BY <1>1, <1>2, <3>1
  <2>2. (p - 1) \div d = a
    BY <1>1, <2>1, DivModUnique
  <2> QED  BY <1>2, <2>2 DEF a, r
<1>3. CASE r = 0
  <2>1. a # 0
    <3>1. d * 0 = 0
      OBVIOUS
    <3> QED  BY <1>1, <1>3, <3>1
  <2>2. a - 1 \in Nat /\ d * (a - 1) = d * a - d /\ d * a \in Nat
    BY <1>1, <2>1
  <2>3. p - 1 = d * (a - 1) + (d - 1) /\ d - 1 \in 0 .. d - 1 /\ p - 1 \in Nat
    BY <1>1, <1>3, <2>2
  <2>4. (p - 1) \div d = a - 1
    BY <2>2, <2>3, DivModUnique
  <2> QED  BY <1>1, <1>3, <2>1, <2>4 DEF a, r
<1> QED  BY <1>2, <1>3

-----------------------------------------------------------------------------
(****************************************************************************)
(* The chain of clusters and the contents of the file.                      *)
(****************************************************************************)
\* f is the chain of n links from s on in the FAT of volume v.
Chain(f, v, fat, s, n) ==
  f = [k \in 0 .. n |-> IF k = 0 THEN s
                        ELSE IF IsCluster(v, f[k - 1]) THEN fat[f[k - 1]] ELSE 1]

\* The recursion of Linked has a solution.
LEMMA LinksExist ==
  ASSUME NEW v, NEW fat, NEW s, NEW n \in Nat
  PROVE  \E f : Chain(f, v, fat, s, n)
<1> DEFINE To(c) == IF IsCluster(v, c) THEN fat[c] ELSE 1
           Links(f, m) == f = [k \in 0 .. m |-> IF k = 0 THEN s ELSE To(f[k - 1])]
           S == {m \in Nat : \E f : Links(f, m)}
<1>1. 0 \in S
  <2>1. Links([k \in 0 .. 0 |-> s], 0)
    OBVIOUS
  <2> QED  BY <2>1
<1>2. ASSUME NEW m \in Nat, m \in S PROVE m + 1 \in S
  <2>1. PICK f : Links(f, m)
    BY <1>2
  <2> DEFINE g == [k \in 0 .. m + 1 |-> IF k = m + 1 THEN To(f[m]) ELSE f[k]]
  <2> HIDE DEF To
  <2>2. ASSUME NEW k \in 0 .. m + 1
        PROVE  g[k] = IF k = 0 THEN s ELSE To(g[k - 1])
    <3>1. CASE k = m + 1
      <4>1. g[k - 1] = f[m] /\ g[k] = To(f[m]) /\ k # 0
        BY <3>1
      <4> QED  BY <4>1
    <3>2. CASE k # m + 1
      <4>1. k \in 0 .. m /\ g[k] = f[k]
        BY <3>2
      <4>2. f[k] = IF k = 0 THEN s ELSE To(f[k - 1])
        BY <2>1, <4>1
      <4>3. k # 0 => g[k - 1] = f[k - 1]
        BY <4>1
      <4> QED  BY <4>1, <4>2, <4>3
    <3> QED  BY <3>1, <3>2
  <2>3. Links(g, m + 1)
    BY <2>2
  <2> HIDE DEF Links
  <2>4. m + 1 \in Nat /\ \E f2 : Links(f2, m + 1)
    BY <2>3
  <2> QED  BY <2>4
<1>3. n \in S
  <2> HIDE DEF S
  <2> QED  BY <1>1, <1>2, Induction
<1> QED  BY <1>3 DEF Chain

\* What is needed of the volume and of the file.
HasFile == RInv /\ Mounted /\ file.objsize \in Nat

LEMMA Sizes ==
  ASSUME HasFile
  PROVE  /\ SS \in Nat \ {0} /\ fs.csize \in Nat \ {0} /\ file.objsize \in Nat
         /\ file.sclust \in Nat /\ file.clust \in Nat
         /\ \A k \in Nat : IsCluster(fs, k) => card.fat[k] \in Nat
         /\ \A c \in Nat : clust2sect(fs, c) \in Nat
  BY GeometryAssumption DEF HasFile, RInv, FsSound, FileSound, Sound, Mounted

LEMMA MostCovers ==
  ASSUME HasFile
  PROVE  /\ Most \in Nat
         /\ \A p \in Nat : p < file.objsize =>
              /\ p \div SS \in Nat /\ (p \div SS) \div fs.csize \in Nat
              /\ (p \div SS) \div fs.csize < Most
<1>1. SS \in Nat \ {0} /\ fs.csize \in Nat \ {0} /\ file.objsize \in Nat
  BY Sizes
<1> DEFINE n == file.objsize
           m == fs.csize
           d == SS * m
<1> HIDE DEF n, m
<1>2. n \in Nat /\ m \in Nat \ {0} /\ d \in Nat \ {0}
  BY <1>1 DEF n, m
<1>3. Most = (n + d - 1) \div d
  BY DEF Most, n, m
<1>4. Most \in Nat /\ n <= Most * d
  <2> HIDE DEF d
  <2>1. n + d - 1 = n + (d - 1) /\ n + (d - 1) \in Nat
    BY <1>2
  <2>2. Most \in Nat
    BY <1>2, <1>3, <2>1, DivBounds
  <2>3. Most = (n + (d - 1)) \div d
    BY <1>3, <2>1
  <2>4. Most >= (n + (d - 1)) \div d
    BY <2>2, <2>3
  <2> QED  BY <1>2, <2>2, <2>4, CeilingCovers
<1>5. Most * d = (Most * m) * SS /\ Most * m \in Nat
  BY <1>1, <1>2, <1>4
<1>6. ASSUME NEW p \in Nat, p < n
      PROVE  p \div SS \in Nat /\ (p \div SS) \div m \in Nat /\ (p \div SS) \div m < Most
  <2> HIDE DEF d
  <2>0. (Most * m) * SS \in Nat
    BY <1>1, <1>5
  <2>1. p < (Most * m) * SS
    BY <1>2, <1>4, <1>5, <1>6, <2>0
  <2>2. p \div SS \in Nat /\ p \div SS < Most * m
    BY <1>1, <1>5, <2>1, DivBounds, DivBelow
  <2>3. (p \div SS) \div m < Most /\ (p \div SS) \div m \in Nat
    BY <1>2, <1>4, <2>2, DivBounds, DivBelow
  <2> QED  BY <2>2, <2>3
<1> QED  BY <1>4, <1>6 DEF n, m

\* The clusters of the file, one after the other.
LEMMA LinkedIs ==
  ASSUME HasFile
  PROVE  /\ Linked[0] = file.sclust
         /\ \A k \in 1 .. Most : Linked[k] = Link(Linked[k - 1])
         /\ \A k \in 0 .. Most : Linked[k] \in Nat
<1> DEFINE n == Most
           Links(f) == f = [k \in 0 .. n |-> IF k = 0 THEN file.sclust ELSE Link(f[k - 1])]
<1>1. n \in Nat
  BY MostCovers
<1>2. Links(Linked)
  <2>1. \E f : Chain(f, fs, card.fat, file.sclust, n)
    <3> HIDE DEF n
    <3> QED  BY <1>1, LinksExist
  <2>2. \E f : Links(f)
    BY <2>1 DEF Chain, Link
  <2> QED  BY <2>2 DEF Linked
<1> DEFINE F == Linked
<1>3. Links(F)
  BY <1>2
<1> HIDE DEF n, F
<1>4. F[0] = file.sclust /\ \A k \in 1 .. n : F[k] = Link(F[k - 1])
  BY <1>1, <1>3
<1>5. \A c \in Nat : Link(c) \in Nat
  BY Sizes DEF Link
<1> DEFINE S == {k \in Nat : k <= n => F[k] \in Nat}
<1>6. 0 \in S
  BY <1>4, Sizes
<1>7. ASSUME NEW k \in Nat, k \in S PROVE k + 1 \in S
  <2> SUFFICES ASSUME k + 1 <= n PROVE F[k + 1] \in Nat
    OBVIOUS
  <2>1. F[k] \in Nat /\ k + 1 \in 1 .. n /\ (k + 1) - 1 = k
    BY <1>1, <1>7
  <2> QED  BY <1>4, <1>5, <2>1
<1>8. Nat \subseteq S
  <2> HIDE DEF S
  <2> QED  BY <1>6, <1>7, Induction
<1> QED  BY <1>1, <1>4, <1>8 DEF n, F

\* A function on 1 .. n is a sequence.
LEMMA FunctionIsSeq ==
  ASSUME NEW S, NEW n \in Nat, NEW f \in [1 .. n -> S]
  PROVE  f \in Seq(S) /\ Len(f) = n
<1>1. f \in Seq(S)
  BY SeqDef
<1>2. Len(f) \in Nat /\ DOMAIN f = 1 .. Len(f)
  BY <1>1, LenProperties
<1> QED  BY <1>1, <1>2

\* As many clusters as can be had.
LEMMA ChainLengthIs ==
  ASSUME HasFile
  PROVE  /\ ChainLength \in 0 .. Most /\ Clustered(ChainLength)
         /\ \A k \in 0 .. Most : Clustered(k) => k <= ChainLength
<1> DEFINE Ends(k) == Clustered(k) /\ (k = Most \/ ~HasData(Linked[k]))
           S == {n \in Nat : n <= Most => Clustered(n) \/ \E k \in 0 .. Most : Ends(k)}
<1>1. Most \in Nat
  BY MostCovers
<1>2. 0 \in S
  BY DEF Clustered
<1>3. ASSUME NEW n \in Nat, n \in S PROVE n + 1 \in S
  <2> SUFFICES ASSUME n + 1 <= Most, ~ \E k \in 0 .. Most : Ends(k)
               PROVE  Clustered(n + 1)
    OBVIOUS
  <2>1. n \in 0 .. Most /\ Clustered(n) /\ ~Ends(n)
    BY <1>1, <1>3
  <2>2. HasData(Linked[n])
    BY <2>1
  <2>3. \A j \in 0 .. (n + 1) - 1 : j = n \/ j \in 0 .. n - 1
    OBVIOUS
  <2> QED  BY <2>1, <2>2, <2>3 DEF Clustered
<1>4. Nat \subseteq S
  <2> HIDE DEF S
  <2> QED  BY <1>2, <1>3, Induction
<1>5. \E k \in 0 .. Most : Ends(k)
  BY <1>1, <1>4
<1>6. ChainLength \in 0 .. Most /\ Ends(ChainLength)
  BY <1>5 DEF ChainLength
<1>7. ASSUME NEW k \in 0 .. Most, Clustered(k), ~(k <= ChainLength) PROVE FALSE
  <2>1. ChainLength # Most /\ ChainLength \in 0 .. k - 1
    BY <1>1, <1>6, <1>7
  <2> QED  BY <1>6, <1>7, <2>1 DEF Clustered
<1> QED  BY <1>6, <1>7

\* The n-th sector of the file, its byte at p, and that the chain leads there.
SectorAt(n) == clust2sect(fs, Linked[n \div fs.csize]) + (n % fs.csize)
ByteAt(p) == <<SectorAt(p \div SS), p % SS>>
Reaches(p) == Clustered(((p \div SS) \div fs.csize) + 1)

\* The contents: the bytes the chain leads to, one after the other.
THEOREM ContentIs ==
  ASSUME HasFile
  PROVE  /\ Content \in Seq(Nat \X Nat) /\ Len(Content) \in Nat /\ Len(Content) <= file.objsize
         /\ \A p \in Nat : p < Len(Content) <=> p < file.objsize /\ Reaches(p)
         /\ \A p \in Nat : p < Len(Content) => Content[p + 1] = ByteAt(p)
<1> DEFINE c == ChainLength
           m == fs.csize
           size == c * m
           S(i) == clust2sect(fs, Linked[i \div m]) + (i % m)
           sects == [i \in 0 .. size - 1 |-> S(i)]
           n == AtMost(file.objsize, size * SS)
<1>1. /\ SS \in Nat \ {0} /\ m \in Nat \ {0} /\ file.objsize \in Nat
  BY Sizes
<1>2. c \in 0 .. Most /\ Clustered(c) /\ \A k \in 0 .. Most : Clustered(k) => k <= c
  BY ChainLengthIs
<1>3. Most \in Nat /\ c \in Nat /\ size \in Nat /\ size * SS \in Nat
  <2>1. Most \in Nat /\ c \in Nat
    BY <1>2, MostCovers
  <2> HIDE DEF c, m
  <2>2. size \in Nat
    BY <1>1, <2>1
  <2> HIDE DEF size
  <2> QED  BY <1>1, <2>1, <2>2
<1>4. n \in Nat /\ n <= file.objsize /\ n <= size * SS /\ (n = file.objsize \/ n = size * SS)
  <2> HIDE DEF size
  <2> QED  BY <1>1, <1>3 DEF AtMost
<1>5. Content = [i \in 1 .. n |-> <<sects[(i - 1) \div SS], (i - 1) % SS>>]
  BY DEF Content
<1>6. ASSUME NEW p \in Nat
      PROVE  p < n <=> p < file.objsize /\ Reaches(p)
  <2> DEFINE b == (p \div SS) \div m
  <2>1. p \div SS \in Nat /\ b \in Nat
    BY <1>1, DivBounds
  <2>2. p < size * SS <=> b < c
    <3> HIDE DEF c, m
    <3>1. p < size * SS <=> p \div SS < size
      <4> HIDE DEF size
      <4> DEFINE q == p \div SS
                 r == p % SS
      <4>1. q \in Nat /\ r \in 0 .. SS - 1 /\ p = SS * q + r
        BY <1>1, DivBounds
      <4> HIDE DEF q, r
      <4>2. ASSUME q < size PROVE p < size * SS
        <5>1. (q + 1) * SS <= size * SS
          BY <1>1, <1>3, <4>1, <4>2, ProductMonotone
        <5>2. (q + 1) * SS = SS * q + SS
          BY <1>1, <4>1
        <5>3. SS * q \in Nat
          BY <1>1, <4>1
        <5> QED  BY <1>1, <1>3, <4>1, <5>1, <5>2, <5>3
      <4>3. ASSUME p < size * SS PROVE q < size
        BY <1>1, <1>3, <4>3, DivBelow DEF q
      <4> QED  BY <4>2, <4>3 DEF q
    <3>2. p \div SS < size <=> b < c
      <4> DEFINE t == p \div SS
                 q == t \div m
                 r == t % m
      <4>1. t \in Nat
        BY <2>1
      <4> HIDE DEF t
      <4>2. q \in Nat /\ r \in 0 .. m - 1 /\ t = m * q + r
        BY <1>1, <4>1, DivBounds
      <4> HIDE DEF q, r
      <4>3. ASSUME q < c PROVE t < size
        <5>1. (q + 1) * m <= c * m
          BY <1>1, <1>3, <4>2, <4>3, ProductMonotone
        <5>2. (q + 1) * m = m * q + m
          BY <1>1, <4>2
        <5>3. m * q \in Nat
          BY <1>1, <4>2
        <5> QED  BY <1>1, <1>3, <4>2, <5>1, <5>2, <5>3
      <4>4. ASSUME t < size PROVE q < c
        BY <1>1, <1>3, <4>1, <4>4, DivBelow DEF q
      <4> QED  BY <4>3, <4>4 DEF q, t
    <3> QED  BY <3>1, <3>2
  <2>3. p < file.objsize => b < Most
    BY MostCovers
  <2>4. Reaches(p) <=> Clustered(b + 1)
    BY DEF Reaches
  <2>5. b < c => Clustered(b + 1)
    <3> HIDE DEF c, b
    <3>1. b < c => \A j \in 0 .. (b + 1) - 1 : j \in 0 .. c - 1
      BY <1>3, <2>1
    <3> QED  BY <1>2, <3>1 DEF Clustered
  <2>6. b < Most /\ Clustered(b + 1) => b < c
    <3> HIDE DEF c, b
    <3>1. b < Most => b + 1 \in 0 .. Most
      BY <1>3, <2>1
    <3>2. b < Most /\ Clustered(b + 1) => b + 1 <= c
      BY <1>2, <3>1
    <3> QED  BY <1>3, <2>1, <3>2
  <2>7. p < n <=> p < file.objsize /\ p < size * SS
    <3> HIDE DEF size, n
    <3> QED  BY <1>1, <1>3, <1>4
  <2> HIDE DEF n, size, b, c
  <2> QED  BY <2>2, <2>3, <2>4, <2>5, <2>6, <2>7
<1>7. ASSUME NEW p \in Nat, p < n
      PROVE  /\ p \div SS \in 0 .. size - 1 /\ sects[p \div SS] = S(p \div SS)
             /\ S(p \div SS) \in Nat /\ p % SS \in Nat
  <2>1. p \div SS \in Nat /\ p % SS \in Nat /\ p \div SS < size
    <3> HIDE DEF size, n
    <3>1. p < size * SS
      BY <1>3, <1>4, <1>7
    <3>2. p \div SS \in Nat /\ p % SS \in 0 .. SS - 1
      BY <1>1, <1>7, DivBounds
    <3>3. p \div SS < size
      BY <1>1, <1>3, <3>1, DivBelow
    <3>4. p % SS \in Nat
      BY <1>1, <3>2
    <3> QED  BY <3>2, <3>3, <3>4
  <2>2. p \div SS \in 0 .. size - 1
    <3> HIDE DEF size
    <3> QED  BY <1>3, <2>1
  <2>3. S(p \div SS) \in Nat
    <3> DEFINE t == p \div SS
    <3>1. t \in Nat /\ p < file.objsize
      <4> HIDE DEF n
      <4> QED  BY <1>1, <1>4, <1>7, <2>1
    <3>2. t \div m \in 0 .. Most
      BY <1>1, <1>3, <3>1, MostCovers, DivBounds
    <3>3. Linked[t \div m] \in Nat
      BY <3>2, LinkedIs
    <3>4. clust2sect(fs, Linked[t \div m]) \in Nat
      BY <3>3, Sizes
    <3>5. t % m \in Nat
      BY <1>1, <3>1, DivBounds
    <3> QED  BY <3>4, <3>5
  <2>4. sects[p \div SS] = S(p \div SS)
    <3> HIDE DEF size, S
    <3> QED  BY <2>2
  <2> QED  BY <2>1, <2>2, <2>3, <2>4
<1> HIDE DEF n, sects, size, c
<1>8. ASSUME NEW i \in 1 .. n
      PROVE  <<sects[(i - 1) \div SS], (i - 1) % SS>> \in Nat \X Nat
  <2>1. i - 1 \in Nat /\ i - 1 < n
    BY <1>4
  <2> QED  BY <1>7, <2>1
<1>9. Content \in Seq(Nat \X Nat) /\ Len(Content) = n
  <2>1. Content \in [1 .. n -> Nat \X Nat]
    BY <1>5, <1>8
  <2> QED  BY <1>4, <2>1, FunctionIsSeq
<1>10. ASSUME NEW p \in Nat, p < n PROVE Content[p + 1] = ByteAt(p)
  <2>1. p + 1 \in 1 .. n /\ (p + 1) - 1 = p
    BY <1>4, <1>10
  <2>2. Content[p + 1] = <<sects[p \div SS], p % SS>>
    BY <1>5, <2>1
  <2> QED  BY <1>7, <1>10, <2>2 DEF ByteAt, SectorAt
<1> QED  BY <1>4, <1>6, <1>9, <1>10

-----------------------------------------------------------------------------
(****************************************************************************)
(* The inductive invariant of a read.                                       *)
(****************************************************************************)
\* What the calls leave behind, and what they have done so far.
Calls ==
  /\ Fsid \in Nat /\ file.id \in 0 .. Fsid
  /\ pc \in {"boot", "part"} => op \in {"mount", "open"} /\ fs = NotMounted
  /\ pc \in {"sdi", "find", "next"} => op = "open"
  /\ pc \in {"read", "sector", "copy"} <=> op = "read"
  /\ pc = "idle" => op = "none"
  /\ op \in {"mount", "open"} => got = <<>>

Inside == pc \in {"sector", "copy"}
Good == Valid /\ file.err = "FR_OK"

\* The file object of a file that can be read.
Placed ==
  /\ file.fptr \in 0 .. file.objsize
  /\ file.fptr > 0 => Reaches(file.fptr - 1)
  /\ ~Inside /\ file.fptr > 0 => file.clust = Linked[((file.fptr - 1) \div SS) \div fs.csize]
  /\ file.fptr % SS # 0 => file.buf = SectorAt((file.fptr - 1) \div SS)
  /\ Inside => /\ file.fptr % SS = 0 /\ file.fptr < file.objsize
               /\ file.clust = Linked[(file.fptr \div SS) \div fs.csize]
               /\ file.clust >= 2 /\ file.clust # DiskErr
  /\ pc = "copy" => file.buf = Sector /\ clust2sect(fs, file.clust) # 0

\* Where the read under way started, and what it has delivered.
Start == file.fptr - Len(got)
Delivered ==
  /\ asked \in Nat /\ btr \in Nat /\ got \in Seq(Nat \X Nat)
  /\ Start \in Nat
  /\ Len(got) + btr = AtMost(asked, file.objsize - Start)
  /\ \A i \in 1 .. Len(got) : got[i] = ByteAt(Start + i - 1)
  /\ Inside => btr > 0

SInv ==
  /\ Calls /\ file.objsize \in Nat
  /\ Good => Placed
  /\ Reading => Good /\ Delivered

-----------------------------------------------------------------------------
\* The file object and the volume stay what they are for the file's contents.
SameFile ==
  /\ card' = card /\ fs' = fs /\ Fsid' = Fsid
  /\ file'.open = file.open /\ file'.id = file.id
  /\ file'.sclust = file.sclust /\ file'.objsize = file.objsize

LEMMA SameFileSame ==
  ASSUME SameFile
  PROVE  /\ Valid' <=> Valid
         /\ Linked' = Linked /\ Content' = Content
<1>1. Valid' <=> Valid
  BY DEF SameFile, Valid, Mounted
<1>2. Most' = Most
  BY DEF SameFile, Most
<1>3. Linked' = Linked
  BY <1>2 DEF SameFile, Linked, Link, IsCluster
<1>4. ChainLength' = ChainLength
  BY <1>2, <1>3 DEF SameFile, ChainLength, Clustered, HasData, clust2sect, HasSector
<1>5. Content' = Content
  BY <1>3, <1>4 DEF SameFile, Content, clust2sect, HasSector
<1> QED  BY <1>1, <1>3, <1>5

LEMMA SamePlaces ==
  ASSUME SameFile, NEW p
  PROVE  /\ SectorAt(p)' = SectorAt(p) /\ ByteAt(p)' = ByteAt(p)
         /\ Reaches(p)' <=> Reaches(p)
<1>1. Linked' = Linked /\ fs' = fs
  BY SameFileSame DEF SameFile
<1>2. \A n : SectorAt(n)' = SectorAt(n)
  BY <1>1 DEF SectorAt, clust2sect, HasSector
<1>3. \A k : Clustered(k)' <=> Clustered(k)
  BY <1>1 DEF Clustered, HasData, clust2sect, HasSector
<1>4. Reaches(p)' <=> Reaches(p)
  BY <1>1, <1>3 DEF Reaches
<1>5. ByteAt(p)' = ByteAt(p)
  BY <1>2 DEF ByteAt
<1> QED  BY <1>2, <1>4, <1>5

LEMMA PlacedNext ==
  ASSUME SameFile, NEW p, NEW c, NEW b, file'.fptr = p, file'.clust = c, file'.buf = b,
         p \in 0 .. file.objsize,
         p > 0 => Reaches(p - 1),
         ~(pc' \in {"sector", "copy"}) /\ p > 0 => c = Linked[((p - 1) \div SS) \div fs.csize],
         p % SS # 0 => b = SectorAt((p - 1) \div SS),
         pc' \in {"sector", "copy"} =>
           /\ p % SS = 0 /\ p < file.objsize /\ c = Linked[(p \div SS) \div fs.csize]
           /\ c >= 2 /\ c # DiskErr,
         pc' = "copy" => /\ b = clust2sect(fs, c) + ((p \div SS) % fs.csize)
                         /\ clust2sect(fs, c) # 0
  PROVE  Placed'
<1>1. Linked' = Linked /\ fs' = fs /\ file'.objsize = file.objsize
  BY SameFileSame DEF SameFile
<1>2. Reaches(p - 1)' <=> Reaches(p - 1)
  BY SamePlaces
<1>3. SectorAt((p - 1) \div SS)' = SectorAt((p - 1) \div SS)
  BY SamePlaces
<1>4. p > 0 => Reaches(file.fptr - 1)'
  BY <1>2 
<1>5. p % SS # 0 => b = SectorAt((file.fptr - 1) \div SS)'
  BY <1>3
<1>6. Inside' <=> pc' \in {"sector", "copy"}
  BY DEF Inside
<1>7. Sector' = clust2sect(fs, c) + ((p \div SS) % fs.csize)
  BY <1>1 DEF Sector, Csect, clust2sect, HasSector
<1>8. clust2sect(fs, file.clust)' = clust2sect(fs, c)
  BY <1>1 DEF clust2sect, HasSector
<1> QED  BY <1>1, <1>4, <1>5, <1>6, <1>7, <1>8 DEF Placed

LEMMA DeliveredNext ==
  ASSUME SameFile, NEW p, NEW g, NEW r, file'.fptr = p, got' = g, btr' = r, asked' = asked,
         asked \in Nat, r \in Nat, g \in Seq(Nat \X Nat),
         p - Len(g) \in Nat, p - Len(g) = Start,
         Len(g) + r = AtMost(asked, file.objsize - Start),
         \A i \in 1 .. Len(g) : g[i] = ByteAt(Start + i - 1),
         pc' \in {"sector", "copy"} => r > 0
  PROVE  Delivered' /\ Start' = Start
<1>1. Start' = Start /\ file'.objsize = file.objsize
  BY DEF Start, SameFile
<1>2. ASSUME NEW i \in 1 .. Len(g) PROVE g[i] = ByteAt(Start + i - 1)'
  <2>1. ByteAt(Start + i - 1) = g[i]
    OBVIOUS
  <2> DEFINE q == Start + i - 1
  <2>2. PICK n : n = q
    OBVIOUS
  <2>3. q' = q
    BY <1>1
  <2>4. ByteAt(n)' = ByteAt(n)
    BY SamePlaces
  <2>5. ByteAt(q)' = ByteAt(n)'
    BY <2>2, <2>3
  <2> QED  BY <2>1, <2>2, <2>4, <2>5
<1>3. \A i \in 1 .. Len(got') : got'[i] = ByteAt(Start + i - 1)'
  BY <1>2
<1> QED  BY <1>1, <1>3 DEF Delivered, Inside

LEMMA FileUpdates ==
  ASSUME RInv, NEW x, NEW y
  PROVE  /\ file' = [file EXCEPT !.open = x]
            => file'.open = x /\ file'.id = file.id /\ file'.objsize = file.objsize
         /\ file' = [file EXCEPT !.clust = x]
            => /\ file'.open = file.open /\ file'.id = file.id /\ file'.sclust = file.sclust
               /\ file'.objsize = file.objsize /\ file'.fptr = file.fptr
               /\ file'.clust = x /\ file'.buf = file.buf /\ file'.err = file.err
         /\ file' = [file EXCEPT !.fptr = @ + x]
            => /\ file'.open = file.open /\ file'.id = file.id /\ file'.sclust = file.sclust
               /\ file'.objsize = file.objsize /\ file'.fptr = file.fptr + x
               /\ file'.clust = file.clust /\ file'.buf = file.buf /\ file'.err = file.err
         /\ file' = [file EXCEPT !.sect = x, !.buf = y]
            => /\ file'.open = file.open /\ file'.id = file.id /\ file'.sclust = file.sclust
               /\ file'.objsize = file.objsize /\ file'.fptr = file.fptr
               /\ file'.clust = file.clust /\ file'.buf = y /\ file'.err = file.err
         /\ file' = [file EXCEPT !.err = x] \/ file' = [file EXCEPT !.err = x, !.buf = y]
            => /\ file'.open = file.open /\ file'.id = file.id /\ file'.sclust = file.sclust
               /\ file'.objsize = file.objsize /\ file'.fptr = file.fptr /\ file'.err = x
<1>1. {"open", "id", "sclust", "objsize", "fptr", "clust", "sect", "buf", "err"} \subseteq DOMAIN file
  BY DEF RInv, FileSound, NoFile
<1> QED  BY <1>1

-----------------------------------------------------------------------------
(***************************************************************************)
(* The calls other than f_read.                                            *)
(***************************************************************************)
Kept == file' = file /\ card' = card /\ fs' = fs /\ Fsid' = Fsid
Opened ==
  /\ file'.open /\ file'.id = Fsid /\ file'.fptr = 0 /\ file'.objsize \in Nat
  /\ file'.err = "FR_OK"
  /\ card' = card /\ fs' = fs /\ Fsid' = Fsid /\ Mounted /\ pc' = "idle"

\* f_mount, f_open and f_close deliver nothing, and leave the file object as it
\* is, that of a new file, or one that is not valid.
Moved ==
  /\ got' = <<>> /\ op # "read" /\ Calls'
  /\ op' # "read" /\ pc' \notin {"read", "sector", "copy"} /\ pc \notin {"read", "sector", "copy"}
  /\ file'.objsize \in Nat
  /\ Kept \/ Opened \/ ~Valid'

LEMMA NoFileFields ==
  /\ NoFile.open = FALSE /\ NoFile.id = 0 /\ NoFile.objsize = 0
  BY DEF NoFile

LEMMA CallerMoves ==
  ASSUME RInv, Calls, file.objsize \in Nat, f_mount \/ f_open \/ f_close
  PROVE  Moved
<1>1. CASE f_mount
  <2>1. /\ got' = <<>> /\ op' = "mount" /\ pc' = "boot" /\ pc = "idle" /\ fs' = NotMounted
        /\ file' = file /\ Fsid' = Fsid
    BY <1>1 DEF f_mount, NewCall
  <2> QED  BY <2>1 DEF Calls, Moved, Valid, Mounted
<1>2. CASE f_open
  <2>1. /\ got' = <<>> /\ op' = "open" /\ pc' \in {"sdi", "boot"} /\ pc = "idle" /\ fs' = fs
        /\ pc' = "boot" => fs = NotMounted
        /\ file' = file /\ Fsid' = Fsid /\ card' = card
    BY <1>2 DEF f_open, NewCall, Mounted
  <2> QED  BY <2>1 DEF Calls, Moved, Kept
<1>3. CASE f_close
  <2>1. /\ got' = <<>> /\ op' = op /\ pc' = pc /\ pc = "idle" /\ fs' = fs
        /\ Fsid' = Fsid /\ card' = card
        /\ \/ file' = file
           \/ file' = [file EXCEPT !.open = FALSE]
    BY <1>3 DEF f_close, NewCall, call
  <2>2. \/ file' = file
        \/ file'.open = FALSE /\ file'.id = file.id /\ file'.objsize = file.objsize
    BY <2>1, FileUpdates
  <2>3. Calls' /\ op # "read" /\ op' # "read"
    BY <2>1, <2>2 DEF Calls
  <2>4. Kept \/ ~Valid'
    BY <2>1, <2>2 DEF Kept, Valid
  <2> QED  BY <2>1, <2>2, <2>3, <2>4 DEF Moved
<1> QED  BY <1>1, <1>2, <1>3

LEMMA FindVolumeMoves ==
  ASSUME RInv, Calls, file.objsize \in Nat, Boot \/ Partition
  PROVE  Moved
<1>1. pc \in {"boot", "part"} /\ op \in {"mount", "open"} /\ fs = NotMounted /\ got = <<>>
  BY DEF Boot, Partition, Calls
<1>2. got' = got /\ card' = card
  BY DEF Boot, Partition
<1>3. \/ /\ fs' = fs /\ Fsid' = Fsid
         /\ \/ pc' = "part" /\ op' = op /\ file' = file
            \/ pc' = "idle" /\ op' = "none" /\ file' \in {file, NoFile}
      \/ /\ Fsid' = Fsid + 1 /\ file' = file
         /\ \/ pc' = "idle" /\ op' = "none"
            \/ pc' = "sdi" /\ op' = op /\ op # "mount"
  <2>1. CASE \E s \in card.vbr : Analyze(s)
    BY <2>1 DEF Analyze, Found, Returns, Goes, Fails
  <2> QED  BY <1>1, <2>1 DEF Boot, Partition, NextPart, Fails, Returns
<1>4. Fsid \in Nat /\ file.id \in 0 .. Fsid
  BY DEF Calls
<1>5. ~Valid'
  <2>1. CASE fs' = fs
    BY <1>1, <2>1 DEF Valid, Mounted
  <2>2. CASE Fsid' = Fsid + 1 /\ file' = file
    <3>1. file'.id # Fsid'
      BY <1>4, <2>2
    <3> QED  BY <3>1 DEF Valid
  <2> QED  BY <1>3, <2>1, <2>2
<1>6. file'.objsize \in Nat /\ Fsid' \in Nat /\ file'.id \in 0 .. Fsid'
  BY <1>3, <1>4, NoFileFields
<1>7. Calls'
  BY <1>1, <1>2, <1>3, <1>6 DEF Calls
<1> QED  BY <1>1, <1>2, <1>3, <1>5, <1>6, <1>7 DEF Moved

LEMMA OpenMoves ==
  ASSUME RInv, Calls, file.objsize \in Nat, dir_sdi \/ dir_find \/ dir_next
  PROVE  Moved
<1>1. pc \in {"sdi", "find", "next"} /\ op = "open" /\ got = <<>> /\ Mounted
  BY DEF dir_sdi, dir_find, dir_next, Calls, RInv
<1>2. got' = got /\ card' = card /\ fs' = fs /\ Fsid' = Fsid
  BY DEF dir_sdi, dir_find, dir_next
<1>3. \/ pc' \in {"find", "next"} /\ op' = op /\ file' = file
      \/ pc' = "idle" /\ op' = "none" /\ file' = NoFile
      \/ pc' = "idle" /\ op' = "none"
         /\ \E e : e.size \in Nat /\ e.sclust \in Nat /\ Opens(e)
  <2>1. CASE dir_sdi
    BY <1>1, <2>1 DEF dir_sdi, Fails, Returns, Goes
  <2>2. CASE dir_find
    <3> DEFINE e == EntryAt(dp.sect, dp.dptr % EntriesPerSector)
    <3>1. e.size \in Nat /\ e.sclust \in Nat
      <4>1. DirSound
        BY <2>2 DEF dir_find, RInv
      <4>2. (dp.dptr % EntriesPerSector) + 1 \in 1 .. EntriesPerSector
        BY <4>1, GeometryAssumption DEF DirSound
      <4> QED  BY <4>2, CardsAssumption, DwordNat DEF EntryAt, Other, RInv
    <3>2. \/ pc' = "next" /\ op' = op /\ file' = file
          \/ pc' = "idle" /\ op' = "none" /\ file' = NoFile
          \/ pc' = "idle" /\ op' = "none" /\ Opens(e)
      BY <1>1, <2>2 DEF dir_find, Fails, Returns, Goes, Opens
    <3> HIDE DEF e
    <3> QED  BY <3>1, <3>2
  <2>3. CASE dir_next
    <3>1. (\E clst \in FatValues(dp.clust) : DirCluster(clst)) =>
            \/ pc' = "find" /\ op' = op /\ file' = file
            \/ pc' = "idle" /\ op' = "none" /\ file' = NoFile
      BY <1>1 DEF DirCluster, Fails, Returns, Goes
    <3> QED  BY <1>1, <2>3, <3>1 DEF dir_next, Fails, Returns, Goes
  <2> QED  BY <2>1, <2>2, <2>3
<1>4. Fsid \in Nat /\ file.id \in 0 .. Fsid
  BY DEF Calls
<1>5. CASE pc' \in {"find", "next"} /\ op' = op /\ file' = file
  BY <1>1, <1>2, <1>4, <1>5 DEF Moved, Calls, Kept
<1>6. CASE pc' = "idle" /\ op' = "none" /\ file' = NoFile
  <2>1. ~Valid'
    BY <1>6, NoFileFields DEF Valid
  <2> QED  BY <1>1, <1>2, <1>4, <1>6, <2>1, NoFileFields DEF Moved, Calls
<1>7. CASE pc' = "idle" /\ op' = "none" /\ \E e : e.size \in Nat /\ e.sclust \in Nat /\ Opens(e)
  <2>1. /\ file'.open /\ file'.id = Fsid /\ file'.fptr = 0 /\ file'.objsize \in Nat
        /\ file'.err = "FR_OK"
    BY <1>7 DEF Opens, NoFile
  <2>2. Opened
    BY <1>1, <1>2, <1>7, <2>1 DEF Opened
  <2> QED  BY <1>1, <1>2, <1>4, <1>7, <2>1, <2>2 DEF Moved, Calls
<1> QED  BY <1>3, <1>5, <1>6, <1>7

LEMMA MovedKeeps ==
  ASSUME RInv, SInv, Moved
  PROVE  SInv'
<1>1. Calls' /\ file'.objsize \in Nat /\ ~Reading'
  BY DEF Moved, Reading
<1>2. ASSUME Good' PROVE Placed'
  <2>1. Kept \/ Opened
    BY <1>2 DEF Moved, Good
  <2>2. pc' \notin {"sector", "copy"} /\ pc \notin {"sector", "copy"}
    BY DEF Moved
  <2>3. CASE Kept
    <3>1. SameFile
      BY <2>3 DEF Kept, SameFile
    <3>2. Good
      BY <1>2, <2>3, <3>1, SameFileSame DEF Good, Kept
    <3>3. Placed /\ ~Inside
      BY <2>2, <3>2 DEF SInv, Inside
    <3>4. file'.fptr = file.fptr /\ file'.clust = file.clust /\ file'.buf = file.buf
      BY <2>3 DEF Kept
    <3> QED  BY <2>2, <3>1, <3>3, <3>4, PlacedNext DEF Placed
  <2>4. CASE Opened
    <3>1. file'.fptr = 0 /\ file'.objsize \in Nat
      BY <2>4 DEF Opened
    <3>2. file'.fptr \in 0 .. file'.objsize /\ ~(file'.fptr > 0)
      BY <3>1
    <3>3. file'.fptr % SS = 0
      BY <3>1, GeometryAssumption
    <3> QED  BY <2>2, <3>2, <3>3 DEF Placed, Inside
  <2> QED  BY <2>1, <2>3, <2>4
<1> QED  BY <1>1, <1>2 DEF SInv

-----------------------------------------------------------------------------
(***************************************************************************)
(* The stream that FatRead shows.                                          *)
(***************************************************************************)
FileBytes == IF Valid THEN Content ELSE <<>>
FileWhole == Valid => Len(Content) = file.objsize
FileState == IF ~Valid THEN "closed" ELSE IF file.err = "FR_OK" THEN "open" ELSE "broken"
FilePos == IF ~Valid THEN 0 ELSE IF Reading THEN file.fptr - Len(got) ELSE file.fptr
FileWanted == IF Reading THEN asked ELSE 0
FileData == IF Reading THEN <<>> ELSE got

LEMMA IsForgets ==
  ASSUME FileWanted = 0, FileData' = <<>>, FileBytes' = FileBytes, FileWhole' = FileWhole,
         FileState' = FileState, FilePos' = FilePos, FileWanted' = FileWanted
  PROVE  Stream!Next
BY DEF FileBytes, FileWhole, FileState, FilePos, FileWanted, FileData, Stream!Next, Stream!Forgets

LEMMA IsClose ==
  ASSUME FileWanted = 0, FileData' = <<>>, FileBytes' = <<>>, FileWhole' = TRUE,
         FileState' = "closed", FilePos' = 0, FileWanted' = FileWanted
  PROVE  Stream!Next
BY DEF FileBytes, FileWhole, FileState, FilePos, FileWanted, FileData, Stream!Next, Stream!Close

LEMMA IsOpen ==
  ASSUME FileWanted = 0, FileData' = <<>>,
         FileState' = "open", FilePos' = 0, FileWanted' = FileWanted
  PROVE  Stream!Next
BY DEF FileBytes, FileWhole, FileState, FilePos, FileWanted, FileData, Stream!Next, Stream!Open

LEMMA IsRead ==
  ASSUME NEW n \in ReadSizes, n > 0, FileWanted = 0, FileState = "open",
         FileWanted' = n, FileData' = <<>>, FileBytes' = FileBytes, FileWhole' = FileWhole,
         FileState' = FileState, FilePos' = FilePos
  PROVE  Stream!Next
BY DEF FileBytes, FileWhole, FileState, FilePos, FileWanted, FileData, Stream!Next, Stream!Read

FileRest == SubSeq(FileBytes, FilePos + 1, Len(FileBytes))

LEMMA IsDelivers ==
  ASSUME FileWanted > 0, FileWanted <= Len(FileRest) \/ FileWhole,
         FileData' = IF FileWanted < Len(FileRest) THEN SubSeq(FileRest, 1, FileWanted) ELSE FileRest,
         FilePos' = FilePos + Len(FileData'), FileWanted' = 0,
         FileBytes' = FileBytes, FileWhole' = FileWhole, FileState' = FileState
  PROVE  Stream!Next
BY DEF FileBytes, FileWhole, FileState, FilePos, FileWanted, FileData, FileRest,
       Stream!Next, Stream!Delivers, Stream!Rest

LEMMA IsBreaks ==
  ASSUME FileWanted > 0, FileWanted' = 0, FileState' = "broken",
         NEW k \in 0 .. FileWanted - 1, k <= Len(FileRest), FileData' = SubSeq(FileRest, 1, k),
         FilePos' = FilePos + k, FileBytes' = FileBytes, FileWhole' = FileWhole
  PROVE  Stream!Next
BY DEF FileBytes, FileWhole, FileState, FilePos, FileWanted, FileData, FileRest,
       Stream!Next, Stream!Breaks, Stream!Rest

LEMMA IsStutter ==
  ASSUME FileBytes' = FileBytes, FileWhole' = FileWhole, FileState' = FileState,
         FilePos' = FilePos, FileWanted' = FileWanted, FileData' = FileData
  PROVE  UNCHANGED Stream!streamVars
BY DEF FileBytes, FileWhole, FileState, FilePos, FileWanted, FileData, Stream!streamVars

LEMMA SameStream ==
  ASSUME SameFile
  PROVE  /\ FileBytes' = FileBytes /\ FileWhole' = FileWhole
         /\ file'.err = file.err => FileState' = FileState
<1>1. (Valid' <=> Valid) /\ Content' = Content /\ file'.objsize = file.objsize
  BY SameFileSame DEF SameFile
<1>2. FileBytes' = FileBytes
  BY <1>1 DEF FileBytes
<1>3. FileWhole' = FileWhole
  BY <1>1 DEF FileWhole
<1>4. file'.err = file.err => FileState' = FileState
  BY <1>1 DEF FileState
<1> QED  BY <1>2, <1>3, <1>4

LEMMA MovedStream ==
  ASSUME RInv, SInv, Moved
  PROVE  Stream!Next
<1>1. ~Reading /\ ~Reading' /\ got' = <<>>
  BY DEF Moved, Reading
<1>2. FileWanted = 0 /\ FileWanted' = 0 /\ FileData' = <<>>
  BY <1>1 DEF FileWanted, FileData
<1>3. CASE Kept
  <2>1. SameFile /\ file'.err = file.err /\ file'.fptr = file.fptr
    BY <1>3 DEF Kept, SameFile
  <2>2. FilePos' = FilePos
    BY <1>1, <2>1, SameFileSame DEF FilePos
  <2> QED  BY <1>2, <2>1, <2>2, SameStream, IsForgets
<1>4. CASE Opened
  <2>1. Valid'
    BY <1>4 DEF Opened, Valid, Mounted
  <2>2. FileState' = "open" /\ FilePos' = 0
    BY <1>1, <1>4, <2>1 DEF Opened, FileState, FilePos
  <2> QED  BY <1>2, <2>2, IsOpen
<1>5. CASE ~Valid'
  <2>1. FileBytes' = <<>> /\ FileState' = "closed" /\ FilePos' = 0
    BY <1>5 DEF FileBytes, FileState, FilePos
  <2>2. FileWhole' = TRUE
    BY <1>5 DEF FileWhole
  <2> QED  BY <1>2, <2>1, <2>2, IsClose
<1> QED  BY <1>3, <1>4, <1>5 DEF Moved

-----------------------------------------------------------------------------
(****************************************************************************)
(* A read under way.                                                        *)
(****************************************************************************)
\* What a read under way has delivered is the next piece of the file.
LEMMA Reads ==
  ASSUME RInv, SInv, Reading
  PROVE  /\ HasFile /\ Valid /\ file.err = "FR_OK" /\ Placed /\ Delivered
         /\ file.fptr \in Nat /\ Len(got) \in Nat /\ asked \in Nat /\ btr \in Nat
         /\ FilePos = Start /\ Start \in Nat /\ Start + Len(got) = file.fptr
         /\ FileWanted = asked /\ FileData = <<>> /\ FileState = "open"
         /\ btr <= file.objsize - file.fptr
<1>1. Good /\ Placed /\ Delivered /\ Valid /\ file.err = "FR_OK" /\ file.objsize \in Nat
  BY DEF SInv, Good
<1>2. HasFile
  BY <1>1 DEF HasFile, Valid
<1>3. /\ file.fptr \in Nat /\ Start \in Nat /\ asked \in Nat /\ btr \in Nat
      /\ got \in Seq(Nat \X Nat) /\ Len(got) \in Nat
      /\ Len(got) + btr = AtMost(asked, file.objsize - Start)
  <2>1. got \in Seq(Nat \X Nat)
    BY <1>1 DEF Delivered
  <2>2. Len(got) \in Nat
    BY <2>1, LenProperties
  <2> QED  BY <1>1, <2>1, <2>2 DEF Placed, Delivered
<1>4. Start + Len(got) = file.fptr
  BY <1>3 DEF Start
<1>5. btr <= file.objsize - file.fptr
  BY <1>1, <1>3, <1>4 DEF AtMost
<1>6. FilePos = Start /\ FileWanted = asked /\ FileData = <<>> /\ FileState = "open"
  BY <1>1 DEF FilePos, Start, FileWanted, FileData, FileState
<1> QED  BY <1>1, <1>2, <1>3, <1>4, <1>5, <1>6

LEMMA HasRead ==
  ASSUME RInv, SInv, Reading
  PROVE  /\ file.fptr <= Len(Content) /\ Len(Content) \in Nat /\ Len(Content) <= file.objsize
         /\ FileRest \in Seq(Nat \X Nat) /\ Len(FileRest) = Len(Content) - Start
         /\ got = SubSeq(FileRest, 1, Len(got))
<1> DEFINE n == Len(Content)
<1>1. /\ HasFile /\ Valid /\ Placed /\ Delivered
      /\ file.fptr \in Nat /\ Len(got) \in Nat
      /\ FilePos = Start /\ Start \in Nat /\ Start + Len(got) = file.fptr
  BY Reads
<1>2. /\ Content \in Seq(Nat \X Nat) /\ n \in Nat /\ n <= file.objsize
      /\ \A p \in Nat : p < n <=> p < file.objsize /\ Reaches(p)
      /\ \A p \in Nat : p < n => Content[p + 1] = ByteAt(p)
  BY <1>1, ContentIs
<1>3. file.fptr <= n
  <2>1. CASE file.fptr = 0
    BY <1>2, <2>1
  <2>2. CASE file.fptr > 0
    <3>1. file.fptr - 1 \in Nat /\ file.fptr - 1 < file.objsize /\ Reaches(file.fptr - 1)
      BY <1>1, <2>2 DEF Placed, HasFile
    <3>2. file.fptr - 1 < n
      BY <1>2, <3>1
    <3> QED  BY <1>1, <1>2, <3>2
  <2> QED  BY <1>1, <2>1, <2>2
<1>4. FileRest = SubSeq(Content, Start + 1, n)
  BY <1>1 DEF FileRest, FileBytes
<1> HIDE DEF n
<1>5. \A i \in Start + 1 .. n : Content[i] \in Nat \X Nat
  <2>1. \A i \in Start + 1 .. n : i \in 1 .. n
    BY <1>1, <1>2
  <2> QED  BY <1>2, <2>1, ElementOfSeq DEF n
<1>6. /\ FileRest \in Seq(Nat \X Nat)
      /\ Len(FileRest) = (IF Start + 1 <= n THEN n - (Start + 1) + 1 ELSE 0)
      /\ \A i \in 1 .. n - (Start + 1) + 1 : FileRest[i] = Content[(Start + 1) + i - 1]
  <2>1. Start + 1 \in Int /\ n \in Int
    BY <1>1, <1>2
  <2> QED  BY <1>4, <1>5, <2>1, SubSeqProperties
<1>7. Len(FileRest) = n - Start
  BY <1>1, <1>2, <1>3, <1>6
<1>8. \A i \in 1 .. Len(got) : got[i] = FileRest[i]
  <2> SUFFICES ASSUME NEW i \in 1 .. Len(got) PROVE got[i] = FileRest[i]
    OBVIOUS
  <2>1. got[i] = ByteAt(Start + i - 1)
    BY <1>1 DEF Delivered
  <2>2. /\ Start + i - 1 \in Nat /\ Start + i - 1 < n /\ (Start + i - 1) + 1 = (Start + 1) + i - 1
        /\ i \in 1 .. n - (Start + 1) + 1
    BY <1>1, <1>2, <1>3
  <2>3. Content[(Start + i - 1) + 1] = ByteAt(Start + i - 1)
    BY <1>2, <2>2
  <2> QED  BY <1>6, <2>1, <2>2, <2>3
<1>9. got = SubSeq(FileRest, 1, Len(got))
  <2> DEFINE m == Len(got)
             s == SubSeq(FileRest, 1, m)
  <2>1. m \in Nat /\ m <= Len(FileRest)
    BY <1>1, <1>2, <1>3, <1>7
  <2>2. \A i \in 1 .. m : FileRest[i] \in Nat \X Nat
    <3>1. \A i \in 1 .. m : i \in 1 .. Len(FileRest)
      BY <1>2, <1>1, <1>7, <2>1
    <3> QED  BY <1>6, <3>1, ElementOfSeq
  <2>3. /\ s \in Seq(Nat \X Nat) /\ Len(s) = (IF 1 <= m THEN m - 1 + 1 ELSE 0)
        /\ \A i \in 1 .. m - 1 + 1 : s[i] = FileRest[1 + i - 1]
    <3>1. m \in Int /\ 1 \in Int
      BY <2>1
    <3> HIDE DEF m
    <3> QED  BY <2>2, <3>1, SubSeqProperties
  <2>4. Len(s) = m /\ \A i \in 1 .. m : s[i] = FileRest[i]
    <3> HIDE DEF m, s
    <3> QED  BY <2>1, <2>3
  <2>5. got \in Seq(Nat \X Nat)
    BY <1>1 DEF Delivered
  <2> QED  BY <1>8, <2>3, <2>4, <2>5, SeqEqual
<1> QED  BY <1>2, <1>3, <1>6, <1>7, <1>9 DEF n

\* A step of a read that goes on.
LEMMA ReadGoesOn ==
  ASSUME RInv, SInv, Reading, op' = op, pc' \in {"read", "sector", "copy"}, SameFile,
         file'.err = file.err, asked' = asked, Placed', Delivered', Start' = Start
  PROVE  SInv' /\ UNCHANGED Stream!streamVars
<1>1. Reading' /\ Good' /\ Valid /\ Valid'
  BY Reads, SameFileSame DEF Reading, Good
<1>2. Calls'
  BY DEF SInv, Calls, SameFile, Reading
<1>3. SInv'
  BY <1>1, <1>2 DEF SInv, SameFile
<1>4. FileWanted' = FileWanted /\ FileData' = FileData
  BY <1>1 DEF FileWanted, FileData
<1>5. FilePos' = FilePos
  BY <1>1 DEF FilePos, Start
<1> QED  BY <1>3, <1>4, <1>5, SameStream, IsStutter

\* A read that fails.
LEMMA ReadBreaks ==
  ASSUME RInv, SInv, Reading, btr > 0, op' = "none", pc' = "idle", SameFile,
         file'.fptr = file.fptr, file'.err \in Errors, got' = got
  PROVE  SInv' /\ Stream!Next
<1>1. /\ Valid /\ Len(got) \in Nat /\ asked \in Nat /\ btr \in Nat /\ Start \in Nat
      /\ FilePos = Start /\ Start + Len(got) = file.fptr /\ FileWanted = asked
      /\ file.objsize \in Nat /\ Len(got) + btr = AtMost(asked, file.objsize - Start)
  BY Reads DEF Delivered, HasFile
<1>2. ~Reading' /\ Valid' /\ ~Good'
  BY <1>1, SameFileSame DEF Reading, Good, Errors
<1>3. Calls'
  BY DEF SInv, Calls, SameFile
<1>4. SInv'
  BY <1>1, <1>2, <1>3 DEF SInv, SameFile
<1> DEFINE k == Len(got)
<1>5. k \in 0 .. asked - 1 /\ asked > 0
  BY <1>1 DEF AtMost
<1>6. k <= Len(FileRest) /\ got = SubSeq(FileRest, 1, k)
  <2>1. /\ file.fptr <= Len(Content) /\ Len(Content) \in Nat
        /\ Len(FileRest) = Len(Content) - Start /\ got = SubSeq(FileRest, 1, k)
    BY HasRead
  <2>2. k <= Len(Content) - Start
    BY <1>1, <2>1
  <2> QED  BY <2>1, <2>2
<1>7. FileData' = got /\ FileWanted' = 0 /\ FilePos' = FilePos + k
  BY <1>1, <1>2 DEF FileData, FileWanted, FilePos
<1>8. FileState' = "broken"
  BY <1>2 DEF FileState, Good
<1> HIDE DEF k
<1>9. FileWanted > 0 /\ k \in 0 .. FileWanted - 1 /\ FileData' = SubSeq(FileRest, 1, k)
  BY <1>1, <1>5, <1>6, <1>7
<1>10. Stream!Next
  BY <1>6, <1>7, <1>8, <1>9, SameStream, IsBreaks
<1> QED  BY <1>4, <1>10

\* A read that has delivered all there is.
LEMMA ReadEnds ==
  ASSUME RInv, SInv, ReadDone
  PROVE  SInv' /\ (Stream!Next \/ UNCHANGED Stream!streamVars)
<1>1. /\ pc = "read" /\ btr = 0 /\ pc' = "idle" /\ op' = "none" /\ got' = got
      /\ file' = file /\ card' = card /\ fs' = fs /\ Fsid' = Fsid
  BY DEF ReadDone, Returns
<1>2. Reading /\ SameFile
  BY <1>1 DEF SInv, Calls, Reading, SameFile
<1>3. /\ Valid /\ file.err = "FR_OK" /\ Placed /\ Len(got) \in Nat /\ asked \in Nat /\ Start \in Nat
      /\ FilePos = Start /\ Start + Len(got) = file.fptr /\ FileWanted = asked /\ FileData = <<>>
      /\ file.objsize \in Nat /\ Len(got) + btr = AtMost(asked, file.objsize - Start)
      /\ got \in Seq(Nat \X Nat)
  BY <1>2, Reads DEF Delivered, HasFile
<1>4. ~Reading' /\ Valid' /\ Good /\ ~Inside /\ ~(pc' \in {"sector", "copy"})
  BY <1>1, <1>2, <1>3, SameFileSame DEF Reading, Good, Inside
<1>5. Calls'
  BY <1>1 DEF SInv, Calls
<1>6. Placed'
  BY <1>1, <1>2, <1>3, <1>4, PlacedNext DEF Placed
<1>7. SInv'
  BY <1>1, <1>4, <1>5, <1>6, <1>3 DEF SInv
<1>8. FileData' = got /\ FileWanted' = 0 /\ FilePos' = FilePos + Len(got)
  BY <1>1, <1>3, <1>4 DEF FileData, FileWanted, FilePos
<1>9. FileBytes' = FileBytes /\ FileWhole' = FileWhole /\ FileState' = FileState
  BY <1>1, <1>2, SameStream
<1>10. CASE asked = 0
  <2>1. Len(got) = 0
    BY <1>1, <1>3, <1>10 DEF AtMost
  <2>2. got = <<>>
    BY <1>3, <2>1, EmptySeq
  <2>3. FilePos' = FilePos
    BY <1>3, <1>8, <2>1
  <2> QED  BY <1>3, <1>7, <1>8, <1>9, <1>10, <2>2, <2>3, IsStutter
<1>11. CASE asked # 0
  <2> DEFINE k == Len(got)
             n == Len(FileRest)
             size == file.objsize
             c == Len(Content)
  <2>1. /\ file.fptr <= c /\ c \in Nat /\ c <= size
        /\ n = c - Start /\ got = SubSeq(FileRest, 1, k) /\ FileRest \in Seq(Nat \X Nat)
    BY <1>2, HasRead
  <2>2. k = AtMost(asked, size - Start) /\ k \in Nat /\ Start \in Nat /\ Start + k <= c
        /\ size \in Nat
    BY <1>1, <1>3, <2>1
  <2>3. FileRest = SubSeq(FileRest, 1, n)
    <3>1. n \in Nat /\ \A i \in 1 .. n : FileRest[i] \in Nat \X Nat
      BY <2>1, LenProperties, ElementOfSeq
    <3> DEFINE s == SubSeq(FileRest, 1, n)
    <3>2. /\ s \in Seq(Nat \X Nat) /\ Len(s) = (IF 1 <= n THEN n - 1 + 1 ELSE 0)
          /\ \A i \in 1 .. n - 1 + 1 : s[i] = FileRest[1 + i - 1]
      <4> HIDE DEF n
      <4>1. n \in Int /\ 1 \in Int
        BY <3>1
      <4> QED  BY <3>1, <4>1, SubSeqProperties
    <3>3. Len(s) = n /\ \A i \in 1 .. n : s[i] = FileRest[i]
      <4> HIDE DEF n, s
      <4> QED  BY <3>1, <3>2
    <3> QED  BY <2>1, <3>2, <3>3, SeqEqual
  <2> HIDE DEF k, n, size, c
  <2>4. \/ k = asked /\ asked <= n
        \/ k = n /\ n < asked /\ c = size
    BY <1>3, <2>1, <2>2 DEF AtMost
  <2>5. asked < n => k = asked
    BY <1>3, <2>1, <2>2, <2>4
  <2>6. ~(asked < n) => k = n
    BY <1>3, <2>1, <2>2, <2>4
  <2>7. got = IF asked < n THEN SubSeq(FileRest, 1, asked) ELSE FileRest
    BY <2>1, <2>3, <2>5, <2>6
  <2>8. asked <= n \/ FileWhole
    BY <1>3, <2>4 DEF FileWhole, c, size
  <2>9. FileWanted > 0
    BY <1>3, <1>11
  <2>10. Stream!Next
    BY <1>3, <1>8, <1>9, <2>7, <2>8, <2>9, IsDelivers DEF n
  <2> QED  BY <1>7, <2>10
<1> QED  BY <1>10, <1>11

LEMMA ReadStarts ==
  ASSUME RInv, SInv, NEW n \in ReadSizes, f_read(n)
  PROVE  SInv' /\ Stream!Next
<1>1. /\ pc = "idle" /\ op = "none" /\ got' = <<>> /\ file' = file /\ card' = card /\ fs' = fs
      /\ Fsid' = Fsid /\ n \in Nat /\ Calls /\ file.objsize \in Nat
  BY CardsAssumption DEF f_read, NewCall, SInv, Calls
<1>2. SameFile /\ ~Reading
  BY <1>1 DEF SameFile, Reading
<1>3. CASE ~Good
  <2>1. pc' = pc /\ op' = op
    BY <1>3 DEF f_read, Good
  <2>2. Calls'
    BY <1>1, <2>1 DEF Calls
  <2>3. Moved
    BY <1>1, <2>1, <2>2 DEF Moved, Kept
  <2> QED  BY <2>3, MovedKeeps, MovedStream
<1>4. CASE Good
  <2>1. /\ pc' = "read" /\ op' = "read" /\ asked' = n
        /\ btr' = AtMost(n, file.objsize - file.fptr)
    BY <1>4 DEF f_read, Good
  <2>2. Placed /\ Valid /\ file.err = "FR_OK" /\ file.fptr \in 0 .. file.objsize /\ ~Inside
    BY <1>1, <1>4 DEF SInv, Good, Placed, Inside
  <2>3. Placed'
    <3>1. ~(pc' \in {"sector", "copy"})
      BY <2>1
    <3> QED  BY <1>1, <1>2, <2>2, <3>1, PlacedNext DEF Placed
  <2>4. Good' /\ Reading' /\ Valid'
    BY <1>1, <1>2, <2>1, <2>2, SameFileSame DEF Good, Reading
  <2>5. Delivered'
    <3>1. Len(got') = 0 /\ got' \in Seq(Nat \X Nat)
      BY <1>1, EmptySeq
    <3>2. Start' = file.fptr
      BY <1>1, <2>2, <3>1 DEF Start
    <3>3. btr' \in Nat /\ asked' \in Nat /\ file'.objsize = file.objsize
      BY <1>1, <2>1, <2>2 DEF AtMost
    <3>4. Len(got') + btr' = AtMost(asked', file'.objsize - Start')
      BY <1>1, <2>1, <3>1, <3>2, <3>3
    <3>5. Start' \in Nat /\ ~Inside'
      BY <2>1, <2>2, <3>2 DEF Inside
    <3>6. \A i \in 1 .. Len(got') : FALSE
      BY <3>1
    <3> QED  BY <3>1, <3>3, <3>4, <3>5, <3>6 DEF Delivered
  <2>6. Calls'
    BY <1>1, <2>1 DEF Calls
  <2>7. SInv'
    BY <1>1, <2>3, <2>4, <2>5, <2>6 DEF SInv
  <2>8. /\ FileWanted = 0 /\ FileWanted' = n /\ FileData' = <<>> /\ FileState = "open"
    BY <1>2, <2>1, <2>2, <2>4 DEF FileWanted, FileData, FileState
  <2>9. FilePos = file.fptr /\ FilePos' = file.fptr
    <3>1. FilePos = file.fptr
      BY <1>2, <2>2 DEF FilePos
    <3>2. file'.fptr - Len(got') = file.fptr
      <4>1. Len(got') = 0
        BY <1>1, EmptySeq
      <4> QED  BY <1>1, <2>2, <4>1
    <3> QED  BY <2>4, <3>1, <3>2 DEF FilePos
  <2>10. FileBytes' = FileBytes /\ FileWhole' = FileWhole /\ FileState' = FileState
    BY <1>1, <1>2, SameStream
  <2>11. Stream!Next
    <3>1. CASE n > 0
      BY <2>8, <2>9, <2>10, <3>1, IsRead
    <3>2. CASE n = 0
      BY <2>8, <2>9, <2>10, <3>2, IsForgets
    <3> QED  BY <1>1, <3>1, <3>2
  <2> QED  BY <2>7, <2>11
<1> QED  BY <1>3, <1>4

LEMMA ClusterNext ==
  ASSUME RInv, SInv, NextCluster
  PROVE  SInv' /\ (Stream!Next \/ UNCHANGED Stream!streamVars)
<1> DEFINE p == file.fptr
           q == p \div SS
           m == fs.csize
<1>1. /\ pc = "read" /\ btr > 0 /\ p % SS = 0
      /\ card' = card /\ fs' = fs /\ Fsid' = Fsid /\ got' = got
  BY DEF NextCluster
<1>2. Reading /\ ~Inside
  BY <1>1 DEF SInv, Calls, Reading, Inside
<1>3. HasFile /\ Placed /\ Delivered
  BY <1>2, Reads
<1>4. /\ p \in Nat /\ Len(got) \in Nat /\ btr \in Nat
      /\ Start \in Nat /\ Start + Len(got) = p /\ asked \in Nat
      /\ p < file.objsize /\ file.objsize \in Nat
  <2>1. /\ p \in Nat /\ Len(got) \in Nat /\ btr \in Nat
        /\ Start \in Nat /\ Start + Len(got) = p /\ asked \in Nat
        /\ btr <= file.objsize - p /\ file.objsize \in Nat
    BY <1>2, Reads DEF HasFile
  <2> HIDE DEF p
  <2> QED  BY <1>1, <2>1
<1>5. SS \in Nat \ {0} /\ m \in Nat \ {0}
  BY <1>3, Sizes
<1>6. q \in Nat /\ q \div m \in 0 .. Most /\ q \div m < Most /\ Most \in Nat
  <2>1. q \in Nat /\ q \div m \in Nat /\ q \div m < Most /\ Most \in Nat
    BY <1>3, <1>4, MostCovers
  <2> HIDE DEF q, m
  <2> QED  BY <2>1
<1>7. ASSUME NEW c, Goes("sector"), c = Linked[q \div m], c >= 2, c # DiskErr,
             /\ file'.open = file.open /\ file'.id = file.id /\ file'.sclust = file.sclust
             /\ file'.objsize = file.objsize /\ file'.fptr = p
             /\ file'.clust = c /\ file'.buf = file.buf /\ file'.err = file.err
      PROVE  SInv' /\ UNCHANGED Stream!streamVars
  <2>1. /\ file'.objsize = file.objsize /\ file'.fptr = p
        /\ file'.clust = c /\ file'.buf = file.buf /\ file'.err = file.err
    BY <1>7
  <2>2. SameFile /\ pc' = "sector" /\ op' = op /\ asked' = asked /\ btr' = btr
    BY <1>1, <1>7 DEF SameFile, Goes
  <2>3. Placed'
    <3>1. p \in 0 .. file.objsize /\ (p > 0 => Reaches(p - 1))
      BY <1>3 DEF Placed
    <3> HIDE DEF p
    <3>2. pc' \in {"sector", "copy"} /\ ~(pc' = "copy")
      BY <2>2
    <3> QED  BY <1>1, <1>4, <1>7, <2>1, <2>2, <3>1, <3>2, PlacedNext
  <2>4. Delivered' /\ Start' = Start
    <3>1. p - Len(got) = Start
      BY <1>4
    <3>2. /\ got \in Seq(Nat \X Nat) /\ Len(got) + btr = AtMost(asked, file.objsize - Start)
          /\ \A i \in 1 .. Len(got) : got[i] = ByteAt(Start + i - 1)
      BY <1>3 DEF Delivered
    <3> QED  BY <1>1, <1>4, <2>1, <2>2, <3>1, <3>2, DeliveredNext
  <2> QED  BY <1>2, <2>1, <2>2, <2>3, <2>4, ReadGoesOn
<1>8. ASSUME NEW c, Cluster(c), c >= 2 /\ c # DiskErr => c = Linked[q \div m]
      PROVE  SInv' /\ (Stream!Next \/ UNCHANGED Stream!streamVars)
  <2>1. CASE Abort("FR_INT_ERR") \/ Abort("FR_DISK_ERR")
    <3>1. PICK res \in Errors : file' = [file EXCEPT !.err = res] /\ pc' = "idle" /\ op' = "none"
      BY <2>1 DEF Abort, Returns, Errors
    <3>2. /\ file'.open = file.open /\ file'.id = file.id /\ file'.sclust = file.sclust
          /\ file'.objsize = file.objsize /\ file'.fptr = file.fptr /\ file'.err = res
      BY <3>1, FileUpdates
    <3>3. SameFile
      BY <1>1, <3>2 DEF SameFile
    <3> QED  BY <1>1, <1>2, <3>1, <3>2, <3>3, ReadBreaks
  <2>2. CASE c >= 2 /\ c # DiskErr /\ Goes("sector") /\ file' = [file EXCEPT !.clust = c]
    <3>1. /\ file'.open = file.open /\ file'.id = file.id /\ file'.sclust = file.sclust
          /\ file'.objsize = file.objsize /\ file'.fptr = p
          /\ file'.clust = c /\ file'.buf = file.buf /\ file'.err = file.err
      BY <2>2, FileUpdates
    <3> QED  BY <1>7, <1>8, <2>2, <3>1
  <2> QED  BY <1>8, <2>1, <2>2 DEF Cluster
<1>9. Csect = q % m
  BY DEF Csect
<1>10. CASE Csect # 0 /\ Goes("sector") /\ UNCHANGED file
  <2>1. p > 0
    <3>1. CASE p = 0
      <4>1. 0 \div SS = 0 /\ 0 % m = 0
        BY <1>5
      <4> QED  BY <1>9, <1>10, <3>1, <4>1
    <3> QED  BY <1>4, <3>1
  <2>2. file.clust = Linked[((p - 1) \div SS) \div m]
    BY <1>2, <1>3, <2>1 DEF Placed
  <2>3. (p - 1) \div SS = q - 1 /\ q > 0
    <3>1. p \in Nat \ {0} /\ SS \in Nat \ {0} /\ p % SS = 0
      BY <1>1, <1>4, <1>5, <2>1
    <3> HIDE DEF p
    <3> QED  BY <3>1, Before
  <2>4. (q - 1) \div m = q \div m
    <3>1. q \in Nat \ {0} /\ m \in Nat \ {0} /\ q % m # 0
      <4> HIDE DEF q, m
      <4> QED  BY <1>5, <1>6, <1>9, <1>10, <2>3
    <3> HIDE DEF q, m
    <3> QED  BY <3>1, Before
  <2>5. HasData(file.clust)
    <3> DEFINE k == (p - 1) \div SS
    <3>1. Clustered((k \div m) + 1) /\ file.clust = Linked[k \div m]
      BY <1>3, <2>1, <2>2 DEF Placed, Reaches
    <3>2. k \div m \in Nat
      BY <1>6, <2>3, <2>4
    <3> HIDE DEF k
    <3>3. k \div m \in 0 .. ((k \div m) + 1) - 1
      BY <3>2
    <3> QED  BY <3>1, <3>3 DEF Clustered
  <2> QED  BY <1>7, <1>10, <2>2, <2>3, <2>4, <2>5 DEF HasData
<1>11. CASE Csect = 0 /\ p = 0 /\ Cluster(file.sclust)
  <2>1. 0 \div SS = 0 /\ 0 \div m = 0
    BY <1>5
  <2>2. file.sclust = Linked[q \div m]
    BY <1>3, <1>11, <2>1, LinkedIs
  <2> QED  BY <1>8, <1>11, <2>2
<1>12. CASE Csect = 0 /\ p # 0 /\ \E c \in FatValues(file.clust) : Cluster(c)
  <2>1. p > 0 /\ q % m = 0
    BY <1>4, <1>9, <1>12
  <2>2. file.clust = Linked[((p - 1) \div SS) \div m] /\ Reaches(p - 1)
    BY <1>2, <1>3, <2>1 DEF Placed
  <2>3. (p - 1) \div SS = q - 1 /\ q > 0
    <3>1. p \in Nat \ {0} /\ SS \in Nat \ {0} /\ p % SS = 0
      BY <1>1, <1>4, <1>5, <2>1
    <3> HIDE DEF p
    <3> QED  BY <3>1, Before
  <2>4. q \div m > 0 /\ (q - 1) \div m = (q \div m) - 1
    <3>1. q \in Nat \ {0} /\ m \in Nat \ {0} /\ q % m = 0
      <4> HIDE DEF q, m
      <4> QED  BY <1>5, <1>6, <2>1, <2>3
    <3> HIDE DEF q, m
    <3> QED  BY <3>1, Before
  <2> DEFINE b == q \div m
  <2>5. b \in 1 .. Most /\ file.clust = Linked[b - 1] /\ Clustered(b)
    <3>1. (b - 1) + 1 = b /\ b \in 1 .. Most
      BY <1>6, <2>4
    <3>2. Clustered((b - 1) + 1)
      BY <2>2, <2>3, <2>4 DEF Reaches
    <3> QED  BY <2>2, <2>3, <2>4, <3>1, <3>2
  <2> HIDE DEF b
  <2>6. Linked[b] = Link(file.clust)
    BY <1>3, <2>5, LinkedIs
  <2>7. PICK c \in FatValues(file.clust) : Cluster(c)
    BY <1>12
  <2>8. c = Link(file.clust) \/ c = DiskErr
    BY <2>7 DEF FatValues, Link
  <2> QED  BY <1>8, <2>6, <2>7, <2>8 DEF b
<1> QED  BY <1>10, <1>11, <1>12 DEF NextCluster

\* Bytes of the file, the next ones, are put into the caller's buffer.
LEMMA ReadAdvances ==
  ASSUME RInv, SInv, Reading, card' = card, fs' = fs, Fsid' = Fsid,
         NEW n \in Nat, n > 0, n <= btr, NEW b, Moves(n, b),
         file' = [file EXCEPT !.fptr = @ + n],
         DOMAIN b = 1 .. n, b = [i \in 1 .. n |-> b[i]],
         \A i \in 1 .. n : b[i] = ByteAt(file.fptr + i - 1),
         Reaches(file.fptr + n - 1),
         file.clust = Linked[((file.fptr + n - 1) \div SS) \div fs.csize],
         (file.fptr + n) % SS # 0 => file.buf = SectorAt((file.fptr + n - 1) \div SS)
  PROVE  SInv' /\ UNCHANGED Stream!streamVars
<1> DEFINE p == file.fptr
           k == Len(got)
           z == file.objsize
<1>1. HasFile /\ Placed /\ Delivered
  BY Reads
<1>2. /\ p \in Nat /\ k \in Nat /\ btr \in Nat
      /\ Start \in Nat /\ Start + k = p /\ asked \in Nat
      /\ btr <= z - p /\ z \in Nat
  BY Reads DEF HasFile
<1>3. pc' = "read" /\ op' = op /\ asked' = asked /\ btr' = btr - n /\ got' = got \o b
  BY DEF Moves
<1>4. /\ file'.open = file.open /\ file'.id = file.id /\ file'.sclust = file.sclust
      /\ file'.objsize = file.objsize /\ file'.fptr = p + n
      /\ file'.clust = file.clust /\ file'.buf = file.buf /\ file'.err = file.err
  BY FileUpdates
<1>5. SameFile
  BY <1>4 DEF SameFile
<1>6. ~(pc' \in {"sector", "copy"})
  BY <1>3
<1>7. Placed'
  <2>1. p + n \in 0 .. z /\ (p + n) - 1 = p + n - 1
    <3> HIDE DEF p, z
    <3> QED  BY <1>2
  <2> QED  BY <1>4, <1>5, <1>6, <2>1, PlacedNext
<1>8. \A i \in 1 .. n : b[i] \in Nat \X Nat
  <2> SUFFICES ASSUME NEW i \in 1 .. n PROVE ByteAt(p + i - 1) \in Nat \X Nat
    OBVIOUS
  <2> DEFINE t == p + i - 1
  <2>1. t \in Nat /\ t < z
    <3> HIDE DEF p, z
    <3> QED  BY <1>2
  <2> HIDE DEF t
  <2>2. t \div SS \in Nat /\ (t \div SS) \div fs.csize \in 0 .. Most
    <3> DEFINE u == (t \div SS) \div fs.csize
    <3>1. t \div SS \in Nat /\ u \in Nat /\ u < Most /\ Most \in Nat
      BY <1>1, <2>1, MostCovers
    <3> HIDE DEF u
    <3>2. u \in 0 .. Most
      BY <3>1
    <3> QED  BY <3>1, <3>2 DEF u
  <2>3. clust2sect(fs, Linked[(t \div SS) \div fs.csize]) \in Nat
    BY <1>1, <2>2, LinkedIs, Sizes
  <2>4. (t \div SS) % fs.csize \in Nat /\ t % SS \in Nat
    <3>1. SS \in Nat \ {0} /\ fs.csize \in Nat \ {0}
      BY <1>1, Sizes
    <3>2. (t \div SS) % fs.csize \in 0 .. fs.csize - 1
      BY <2>2, <3>1, DivBounds
    <3>3. t % SS \in 0 .. SS - 1
      BY <2>1, <3>1, DivBounds
    <3> QED  BY <3>1, <3>2, <3>3
  <2>5. ByteAt(t) \in Nat \X Nat
    BY <2>3, <2>4 DEF ByteAt, SectorAt
  <2> QED  BY <2>5 DEF t
<1>9. b \in Seq(Nat \X Nat) /\ Len(b) = n
  <2>1. b \in [1 .. n -> Nat \X Nat]
    BY <1>8
  <2> QED  BY <2>1, FunctionIsSeq
<1>10. /\ got \in Seq(Nat \X Nat) /\ k + btr = AtMost(asked, file.objsize - Start)
      /\ \A i \in 1 .. k : got[i] = ByteAt(Start + i - 1)
  BY <1>1 DEF Delivered
<1>11. /\ got' \in Seq(Nat \X Nat) /\ Len(got') = k + n
       /\ \A i \in 1 .. k + n : got'[i] = IF i <= k THEN got[i] ELSE b[i - k]
  BY <1>3, <1>9, <1>10, ConcatProperties
<1>12. \A i \in 1 .. k + n : got'[i] = ByteAt(Start + i - 1)
  <2> SUFFICES ASSUME NEW i \in 1 .. k + n PROVE got'[i] = ByteAt(Start + i - 1)
    OBVIOUS
  <2>1. CASE i <= k
    <3>1. i \in 1 .. k
      BY <1>2, <2>1
    <3> QED  BY <1>10, <1>11, <2>1, <3>1
  <2>2. CASE ~(i <= k)
    <3>1. i - k \in 1 .. n /\ p + (i - k) - 1 = Start + i - 1
      <4> HIDE DEF p, k
      <4>1. i \in Int /\ i <= k + n
        BY <1>2
      <4>2. i - k >= 1 /\ i - k <= n
        BY <1>2, <2>2, <4>1
      <4> QED  BY <1>2, <4>1, <4>2
    <3>2. b[i - k] = ByteAt(p + (i - k) - 1)
      BY <3>1
    <3> QED  BY <1>11, <2>2, <3>1, <3>2
  <2> QED  BY <2>1, <2>2
<1>13. Delivered' /\ Start' = Start
  <2>1. (p + n) - (k + n) = Start /\ btr - n \in Nat /\ (k + n) + (btr - n) = k + btr
    <3> HIDE DEF p, k
    <3> QED  BY <1>2
  <2> QED  BY <1>2, <1>3, <1>4, <1>5, <1>6, <1>10, <1>11, <1>12, <2>1, DeliveredNext
<1> QED  BY <1>3, <1>4, <1>5, <1>7, <1>13, ReadGoesOn

\* The chain leads to the cluster the next sector is in.
LEMMA ReachesNext ==
  ASSUME HasFile, Placed, file.fptr % SS = 0, file.fptr \in Nat, file.fptr < file.objsize,
         HasData(Linked[(file.fptr \div SS) \div fs.csize])
  PROVE  Clustered(((file.fptr \div SS) \div fs.csize) + 1)
<1> DEFINE p == file.fptr
           q == p \div SS
           m == fs.csize
           b == q \div m
<1>1. SS \in Nat \ {0} /\ m \in Nat \ {0} /\ p \in Nat
  BY Sizes
<1>2. q \in Nat /\ b \in Nat
  <2>1. q \in Nat
    BY <1>1, DivBounds
  <2> HIDE DEF q, m
  <2> QED  BY <1>1, <2>1, DivBounds
<1>3. Clustered(b)
  <2>1. CASE b = 0
    BY <2>1 DEF Clustered
  <2>2. CASE b > 0
    <3>1. p # 0
      <4>1. 0 \div SS = 0 /\ 0 \div m = 0
        BY <1>1
      <4> QED  BY <2>2, <4>1
    <3>2. p \in Nat \ {0} /\ SS \in Nat \ {0} /\ p % SS = 0 /\ p > 0
      BY <1>1, <3>1
    <3>3. (p - 1) \div SS = q - 1 /\ q > 0
      <4> HIDE DEF p
      <4> QED  BY <3>2, Before
    <3>4. (q - 1) \div m = b \/ (q - 1) \div m = b - 1
      <4> HIDE DEF q, m
      <4>1. q \in Nat \ {0} /\ m \in Nat \ {0}
        BY <1>1, <1>2, <3>3
      <4> QED  BY <4>1, Before
    <3>5. Clustered(((q - 1) \div m) + 1)
      BY <3>2, <3>3 DEF Placed, Reaches
    <3>6. \A j \in 0 .. b - 1 : j \in 0 .. (((q - 1) \div m) + 1) - 1
      <4> DEFINE c == (q - 1) \div m
      <4>1. c = b \/ c = b - 1
        BY <3>4
      <4> HIDE DEF b, c
      <4>2. \A j \in 0 .. b - 1 : j \in 0 .. (c + 1) - 1
        BY <1>2, <4>1
      <4> QED  BY <4>2 DEF c
    <3> HIDE DEF b
    <3> QED  BY <3>5, <3>6 DEF Clustered
  <2> HIDE DEF b
  <2> QED  BY <1>2, <2>1, <2>2
<1>4. HasData(Linked[b])
  OBVIOUS
<1> HIDE DEF b
<1>5. \A j \in 0 .. (b + 1) - 1 : j = b \/ j \in 0 .. b - 1
  BY <1>2
<1>6. Clustered(b + 1)
  BY <1>3, <1>4, <1>5 DEF Clustered
<1> QED  BY <1>6 DEF b

LEMMA CopyNext ==
  ASSUME RInv, SInv, Copy
  PROVE  SInv' /\ UNCHANGED Stream!streamVars
<1> DEFINE p == file.fptr
           q == p \div SS
           m == fs.csize
           r == p % SS
           n == AtMost(SS - r, btr)
           bs == Bytes(file.buf, r, n)
<1>1. /\ pc = "copy" \/ (pc = "read" /\ btr > 0 /\ r # 0)
      /\ card' = card /\ fs' = fs /\ Fsid' = Fsid
      /\ Moves(n, bs) /\ file' = [file EXCEPT !.fptr = @ + n]
  BY DEF Copy, CopyFrom
<1>2. Reading
  BY <1>1 DEF SInv, Calls, Reading
<1>3. HasFile /\ Placed /\ Delivered
  BY <1>2, Reads
<1>4. p \in Nat /\ btr \in Nat /\ btr > 0 /\ SS \in Nat \ {0} /\ m \in Nat \ {0}
  <2>1. p \in Nat /\ btr \in Nat /\ SS \in Nat \ {0} /\ m \in Nat \ {0}
    BY <1>2, <1>3, Reads, Sizes
  <2>2. btr > 0
    BY <1>1, <1>3 DEF Delivered, Inside
  <2> QED  BY <2>1, <2>2
<1>5. r \in 0 .. SS - 1 /\ q \in Nat
  <2> HIDE DEF p
  <2> QED  BY <1>4, DivBounds
<1>6. n \in Nat /\ n > 0 /\ n <= btr /\ n <= SS - r
  <2> HIDE DEF r
  <2> QED  BY <1>4, <1>5 DEF AtMost
<1>7. /\ file.clust = Linked[q \div m] /\ file.buf = SectorAt(q) /\ Clustered((q \div m) + 1)
  <2>1. CASE pc = "copy"
    <3>1. /\ r = 0 /\ p < file.objsize /\ file.clust = Linked[q \div m]
          /\ file.buf = Sector /\ HasData(file.clust)
      BY <1>3, <2>1 DEF Placed, Inside, HasData
    <3>2. Sector = SectorAt(q)
      BY <3>1 DEF Sector, SectorAt, Csect
    <3>3. Clustered((q \div m) + 1)
      BY <1>3, <1>4, <3>1, ReachesNext
    <3> QED  BY <3>1, <3>2, <3>3
  <2>2. CASE pc = "read" /\ r # 0
    <3>1. p > 0
      <4>1. 0 % SS = 0
        BY <1>4
      <4> QED  BY <1>4, <2>2, <4>1
    <3>2. p \in Nat \ {0} /\ SS \in Nat \ {0} /\ p % SS # 0
      BY <1>4, <2>2, <3>1
    <3>3. (p - 1) \div SS = q
      <4> HIDE DEF p
      <4> QED  BY <3>2, Before
    <3>4. /\ file.clust = Linked[((p - 1) \div SS) \div m]
          /\ file.buf = SectorAt((p - 1) \div SS) /\ Reaches(p - 1)
      BY <1>3, <2>2, <3>1 DEF Placed, Inside
    <3> QED  BY <3>3, <3>4 DEF Reaches
  <2> QED  BY <1>1, <2>1, <2>2
<1>8. ASSUME NEW k \in Nat, k < n
      PROVE  (p + k) \div SS = q /\ (p + k) % SS = r + k
  <2>1. k < SS - r
    <3> HIDE DEF n, r
    <3> QED  BY <1>4, <1>5, <1>6, <1>8
  <2>2. p \in Nat /\ SS \in Nat \ {0}
    BY <1>4
  <2> HIDE DEF p
  <2> QED  BY <2>1, <2>2, Within
<1>9. bs = [i \in 1 .. n |-> <<file.buf, r + i - 1>>]
  BY DEF Bytes
<1> HIDE DEF bs, n
<1>10. ASSUME NEW i \in 1 .. n PROVE bs[i] = ByteAt(p + i - 1)
  <2>1. i - 1 \in Nat /\ i - 1 < n
    BY <1>6
  <2>2. (p + (i - 1)) \div SS = q /\ (p + (i - 1)) % SS = r + (i - 1)
    BY <1>8, <2>1
  <2>3. p + (i - 1) = p + i - 1 /\ r + (i - 1) = r + i - 1
    <3> HIDE DEF p, r
    <3> QED  BY <1>4, <1>5, <2>1
  <2>4. bs[i] = <<SectorAt(q), r + i - 1>>
    BY <1>7, <1>9
  <2> QED  BY <2>2, <2>3, <2>4 DEF ByteAt
<1>11. (p + n - 1) \div SS = q
  <2>1. n - 1 \in Nat /\ n - 1 < n
    BY <1>6
  <2>2. p + (n - 1) = p + n - 1
    <3> HIDE DEF p
    <3> QED  BY <1>4, <1>6
  <2>3. (p + (n - 1)) \div SS = q
    BY <1>8, <2>1
  <2> QED  BY <2>2, <2>3
<1>12. Reaches(p + n - 1)
  BY <1>7, <1>11 DEF Reaches
<1>13. DOMAIN bs = 1 .. n /\ bs = [i \in 1 .. n |-> bs[i]]
  BY <1>9
<1> QED  BY <1>1, <1>2, <1>6, <1>7, <1>10, <1>11, <1>12, <1>13, ReadAdvances

LEMMA SectorsNext ==
  ASSUME RInv, SInv, ReadSectors
  PROVE  SInv' /\ (Stream!Next \/ UNCHANGED Stream!streamVars)
<1> DEFINE p == file.fptr
           q == p \div SS
           m == fs.csize
           cc == Clipped(btr \div SS)
           n == SS * cc
           bs == [i \in 1 .. n |-> <<Sector + (i - 1) \div SS, (i - 1) % SS>>]
<1>1. /\ pc = "sector" /\ clust2sect(fs, file.clust) # 0 /\ btr \div SS > 0
      /\ card' = card /\ fs' = fs /\ Fsid' = Fsid
      /\ \/ Abort("FR_DISK_ERR") /\ got' = got
         \/ Moves(n, bs) /\ file' = [file EXCEPT !.fptr = @ + n]
  BY DEF ReadSectors
<1>2. Reading /\ Inside
  BY <1>1 DEF SInv, Calls, Reading, Inside
<1>3. HasFile /\ Placed /\ Delivered
  BY <1>2, Reads
<1>4. p \in Nat /\ btr \in Nat /\ SS \in Nat \ {0} /\ m \in Nat \ {0} /\ file.clust \in Nat
  BY <1>2, <1>3, Reads, Sizes
<1>5. CASE Abort("FR_DISK_ERR") /\ got' = got
  <2>1. /\ file'.open = file.open /\ file'.id = file.id /\ file'.sclust = file.sclust
        /\ file'.objsize = file.objsize /\ file'.fptr = file.fptr /\ file'.err = "FR_DISK_ERR"
    BY <1>5, FileUpdates DEF Abort
  <2>2. SameFile /\ file'.err \in Errors /\ btr > 0
    BY <1>1, <1>2, <1>3, <2>1 DEF SameFile, Errors, Delivered
  <2>3. pc' = "idle" /\ op' = "none"
    BY <1>5 DEF Abort, Returns
  <2> QED  BY <1>2, <1>5, <2>1, <2>2, <2>3, ReadBreaks
<1>6. CASE Moves(n, bs) /\ file' = [file EXCEPT !.fptr = @ + n]
  <2>1. /\ p % SS = 0 /\ p < file.objsize /\ file.clust = Linked[q \div m]
        /\ HasData(file.clust)
    BY <1>1, <1>2, <1>3, <1>4 DEF Placed, HasData
  <2>2. Clustered((q \div m) + 1)
    BY <1>3, <1>4, <2>1, ReachesNext
  <2>3. q \in Nat /\ q % m \in 0 .. m - 1 /\ btr \div SS \in Nat
    <3>1. q \in Nat /\ btr \div SS \in Nat
      BY <1>4, DivBounds
    <3>2. q % m \in 0 .. m - 1
      <4> HIDE DEF q, m
      <4> QED  BY <1>4, <3>1, DivBounds
    <3> QED  BY <3>1, <3>2
  <2>4. cc \in Nat /\ cc > 0 /\ cc <= btr \div SS /\ cc <= m - (q % m)
    <3> DEFINE x == btr \div SS
               y == q % m
    <3>1. x \in Nat /\ x > 0 /\ y \in 0 .. m - 1 /\ m \in Nat /\ cc = AtMost(x, m - y)
      BY <1>1, <1>4, <2>3 DEF Clipped, Csect
    <3> HIDE DEF x, y, m, cc
    <3>2. cc \in Nat /\ cc > 0 /\ cc <= x /\ cc <= m - y
      BY <3>1 DEF AtMost
    <3> QED  BY <3>2 DEF x, y
  <2> HIDE DEF cc
  <2>5. n \in Nat /\ n > 0 /\ n <= btr /\ n % SS = 0
    <3>1. n \in Nat /\ n > 0
      BY <1>4, <2>4
    <3>2. n <= SS * (btr \div SS)
      <4> DEFINE x == btr \div SS
      <4>1. x \in Nat /\ cc <= x
        BY <2>3, <2>4
      <4> HIDE DEF x
      <4>2. cc * SS <= x * SS
        BY <1>4, <2>4, <4>1, ProductMonotone
      <4>3. cc * SS = SS * cc /\ x * SS = SS * x
        BY <1>4, <2>4, <4>1
      <4> QED  BY <4>2, <4>3 DEF x
    <3>3. SS * (btr \div SS) <= btr
      <4> DEFINE x == btr \div SS
                 y == btr % SS
      <4>1. x \in Nat /\ y \in 0 .. SS - 1 /\ btr = SS * x + y
        BY <1>4, DivBounds
      <4> HIDE DEF x, y
      <4>2. SS * x \in Nat
        BY <1>4, <4>1
      <4> QED  BY <1>4, <4>1, <4>2 DEF x
    <3>4. n % SS = 0
      <4>1. 0 \in 0 .. SS - 1 /\ n = SS * cc + 0
        BY <1>4, <2>4
      <4> HIDE DEF n
      <4> QED  BY <1>4, <2>4, <3>1, <4>1, DivModUnique
    <3> DEFINE y == SS * (btr \div SS)
    <3>5. y \in Nat
      BY <1>4, <2>3
    <3>6. n <= y /\ y <= btr
      BY <3>2, <3>3
    <3> HIDE DEF n, y
    <3>7. n <= btr
      BY <1>4, <3>1, <3>5, <3>6
    <3> QED  BY <3>1, <3>4, <3>7
  <2>6. ASSUME NEW k \in Nat, k < n
        PROVE  /\ (p + k) \div SS = q + (k \div SS) /\ (p + k) % SS = k % SS
               /\ k \div SS \in Nat
               /\ (q + (k \div SS)) \div m = q \div m
               /\ (q + (k \div SS)) % m = (q % m) + (k \div SS)
    <3>1. k \div SS \in Nat /\ k \div SS < cc
      <4>1. k < cc * SS
        <5>1. SS * cc = cc * SS
          BY <1>4, <2>4
        <5> QED  BY <2>6, <5>1
      <4> QED  BY <1>4, <2>4, <4>1, DivBounds, DivBelow
    <3>2. (p + k) \div SS = q + (k \div SS) /\ (p + k) % SS = k % SS
      <4>1. p \in Nat /\ SS \in Nat \ {0} /\ p % SS = 0
        BY <1>4, <2>1
      <4> HIDE DEF p
      <4> QED  BY <4>1, Blocks
    <3>3. /\ (q + (k \div SS)) \div m = q \div m
          /\ (q + (k \div SS)) % m = (q % m) + (k \div SS)
      <4> DEFINE j == k \div SS
      <4>1. q \in Nat /\ m \in Nat \ {0} /\ j \in Nat /\ j < cc
        BY <1>4, <2>3, <3>1
      <4> HIDE DEF j, q, m
      <4>2. j < m - (q % m)
        <5> DEFINE y == q % m
        <5>1. cc <= m - y /\ y \in 0 .. m - 1
          BY <2>3, <2>4
        <5> HIDE DEF y
        <5>2. j < m - y
          BY <2>4, <4>1, <5>1
        <5> QED  BY <5>2 DEF y
      <4>3. (q + j) \div m = q \div m /\ (q + j) % m = (q % m) + j
        BY <4>1, <4>2, Within
      <4> QED  BY <4>3 DEF j
    <3> QED  BY <3>1, <3>2, <3>3
  <2>7. Sector = clust2sect(fs, Linked[q \div m]) + (q % m)
    BY <2>1 DEF Sector, Csect
  <2>8. clust2sect(fs, Linked[q \div m]) \in Nat
    BY <1>3, <1>4, <2>1, Sizes
  <2>9. DOMAIN bs = 1 .. n /\ bs = [i \in 1 .. n |-> bs[i]]
    <3> HIDE DEF n
    <3> QED  OBVIOUS
  <2>10. ASSUME NEW i \in 1 .. n PROVE bs[i] = ByteAt(p + i - 1)
    <3> DEFINE k == i - 1
               j == k \div SS
    <3>1. k \in Nat /\ k < n /\ p + k = p + i - 1
      <4> HIDE DEF n, p
      <4> QED  BY <1>4, <2>5
    <3>2. /\ (p + k) \div SS = q + j /\ (p + k) % SS = k % SS /\ j \in Nat
          /\ (q + j) \div m = q \div m /\ (q + j) % m = (q % m) + j
      <4> HIDE DEF n, k
      <4> QED  BY <2>6, <3>1
    <3>3. bs[i] = <<Sector + j, k % SS>>
      <4> HIDE DEF n
      <4> QED  OBVIOUS
    <3>4. Sector + j = SectorAt(q + j)
      <4> DEFINE x == clust2sect(fs, Linked[q \div m])
                 y == q % m
      <4>1. x \in Nat /\ y \in 0 .. m - 1 /\ j \in Nat /\ m \in Nat
        BY <1>4, <2>3, <2>8, <3>2
      <4>2. SectorAt(q + j) = x + (y + j) /\ Sector = x + y
        BY <2>7, <3>2 DEF SectorAt
      <4> HIDE DEF x, y, j, m
      <4>3. (x + y) + j = x + (y + j)
        BY <4>1
      <4> QED  BY <4>2, <4>3
    <3> QED  BY <3>1, <3>2, <3>3, <3>4 DEF ByteAt
  <2>11. ((p + n - 1) \div SS) \div m = q \div m
    <3> DEFINE k == n - 1
    <3>1. k \in Nat /\ k < n /\ p + k = p + n - 1
      <4> HIDE DEF n, p
      <4> QED  BY <1>4, <2>5
    <3>2. (p + k) \div SS = q + (k \div SS) /\ (q + (k \div SS)) \div m = q \div m
      <4> HIDE DEF n, k
      <4> QED  BY <2>6, <3>1
    <3> QED  BY <3>1, <3>2
  <2>12. Reaches(p + n - 1) /\ file.clust = Linked[((p + n - 1) \div SS) \div m]
    BY <2>1, <2>2, <2>11 DEF Reaches
  <2>13. (p + n) % SS = 0
    <3>1. p \in Nat /\ SS \in Nat \ {0} /\ p % SS = 0
      BY <1>4, <2>1
    <3> HIDE DEF p, n
    <3>2. (p + n) % SS = n % SS
      BY <2>5, <3>1, Blocks
    <3> QED  BY <2>5, <3>2
  <2> HIDE DEF n, bs
  <2> QED  BY <1>1, <1>2, <1>6, <2>5, <2>9, <2>10, <2>12, <2>13, ReadAdvances
<1> QED  BY <1>1, <1>5, <1>6

LEMMA LoadNext ==
  ASSUME RInv, CInv, SInv, LoadSector \/ NoSector
  PROVE  SInv' /\ (Stream!Next \/ UNCHANGED Stream!streamVars)
<1>1. /\ pc = "sector" /\ card' = card /\ fs' = fs /\ Fsid' = Fsid /\ got' = got
      /\ \/ Goes("copy") /\ clust2sect(fs, file.clust) # 0 /\ file.sect = Sector /\ file' = file
         \/ /\ Goes("copy") /\ clust2sect(fs, file.clust) # 0
            /\ file' = [file EXCEPT !.sect = Sector, !.buf = Sector]
         \/ /\ pc' = "idle" /\ op' = "none"
            /\ file' = [file EXCEPT !.err = "FR_DISK_ERR", !.buf = Garbage]
         \/ /\ pc' = "idle" /\ op' = "none" /\ file' = [file EXCEPT !.err = "FR_INT_ERR"]
  BY DEF LoadSector, SectorLoaded, SectorFails, NoSector, Abort, Returns
<1>2. Reading /\ Inside
  BY <1>1 DEF SInv, Calls, Reading, Inside
<1>3. HasFile /\ Placed /\ Delivered /\ Valid /\ file.err = "FR_OK" /\ file.clust \in Nat
  BY <1>2, Reads, Sizes
<1>4. btr > 0
  BY <1>2, <1>3 DEF Delivered
<1>5. CASE \/ file' = [file EXCEPT !.err = "FR_DISK_ERR", !.buf = Garbage] /\ pc' = "idle" /\ op' = "none"
           \/ file' = [file EXCEPT !.err = "FR_INT_ERR"] /\ pc' = "idle" /\ op' = "none"
  <2>1. /\ file'.open = file.open /\ file'.id = file.id /\ file'.sclust = file.sclust
        /\ file'.objsize = file.objsize /\ file'.fptr = file.fptr /\ file'.err \in Errors
    <3>1. CASE file' = [file EXCEPT !.err = "FR_DISK_ERR", !.buf = Garbage]
      BY <3>1, FileUpdates DEF Errors
    <3>2. CASE file' = [file EXCEPT !.err = "FR_INT_ERR"]
      BY <3>2, FileUpdates DEF Errors
    <3> QED  BY <1>5, <3>1, <3>2
  <2>2. SameFile
    BY <1>1, <2>1 DEF SameFile
  <2> QED  BY <1>1, <1>2, <1>4, <1>5, <2>1, <2>2, ReadBreaks
<1>6. CASE /\ Goes("copy") /\ clust2sect(fs, file.clust) # 0
           /\ \/ file.sect = Sector /\ file' = file
              \/ file' = [file EXCEPT !.sect = Sector, !.buf = Sector]
  <2>1. /\ file'.open = file.open /\ file'.id = file.id /\ file'.sclust = file.sclust
        /\ file'.objsize = file.objsize /\ file'.fptr = file.fptr
        /\ file'.clust = file.clust /\ file'.err = file.err
    <3>1. CASE file' = file
      BY <3>1
    <3>2. CASE file' = [file EXCEPT !.sect = Sector, !.buf = Sector]
      BY <3>2, FileUpdates
    <3> QED  BY <1>6, <3>1, <3>2
  <2>2. file'.buf = Sector
    <3>1. CASE file' = [file EXCEPT !.sect = Sector, !.buf = Sector]
      BY <3>1, FileUpdates
    <3>2. CASE file.sect = Sector /\ file' = file
      <4> DEFINE x == clust2sect(fs, file.clust)
                 y == Csect
      <4>1. x \in Nat /\ x # 0 /\ y \in Nat
        <5>1. x \in Nat /\ x # 0
          BY <1>3, <1>6, Sizes
        <5>2. SS \in Nat \ {0} /\ fs.csize \in Nat \ {0} /\ file.fptr \in Nat
          BY <1>2, <1>3, Sizes, Reads
        <5>3. file.fptr \div SS \in Nat
          BY <5>2, DivBounds
        <5>4. Csect \in 0 .. fs.csize - 1
          BY <5>2, <5>3, DivBounds DEF Csect
        <5> QED  BY <5>1, <5>2, <5>4
      <4>2. Sector = x + y
        BY DEF Sector
      <4> HIDE DEF x, y
      <4>3. Sector # 0
        BY <4>1, <4>2
      <4> QED  BY <1>3, <3>2, <4>3 DEF CInv
    <3> QED  BY <1>6, <3>1, <3>2
  <2>3. SameFile /\ pc' = "copy" /\ op' = op /\ asked' = asked /\ btr' = btr
    BY <1>1, <1>6, <2>1 DEF SameFile, Goes
  <2>4. clust2sect(fs, file.clust) # 0
    BY <1>6
  <2>5. /\ file.fptr \in 0 .. file.objsize /\ (file.fptr > 0 => Reaches(file.fptr - 1))
        /\ file.fptr % SS = 0 /\ file.fptr < file.objsize
        /\ file.clust = Linked[(file.fptr \div SS) \div fs.csize]
        /\ file.clust >= 2 /\ file.clust # DiskErr
    BY <1>2, <1>3 DEF Placed
  <2>6. Placed'
    <3>1. pc' \in {"sector", "copy"}
      BY <2>3
    <3>2. Sector = clust2sect(fs, file.clust) + ((file.fptr \div SS) % fs.csize)
      BY DEF Sector, Csect
    <3> QED  BY <2>1, <2>2, <2>3, <2>4, <2>5, <3>1, <3>2, PlacedNext
  <2>7. Delivered' /\ Start' = Start
    <3>1. /\ got \in Seq(Nat \X Nat) /\ Len(got) + btr = AtMost(asked, file.objsize - Start)
          /\ \A i \in 1 .. Len(got) : got[i] = ByteAt(Start + i - 1)
          /\ asked \in Nat /\ btr \in Nat /\ Start \in Nat
      BY <1>3 DEF Delivered
    <3>2. file.fptr - Len(got) = Start
      BY DEF Start
    <3> QED  BY <1>1, <1>4, <2>1, <2>3, <3>1, <3>2, DeliveredNext
  <2> QED  BY <1>2, <2>1, <2>3, <2>6, <2>7, ReadGoesOn
<1> QED  BY <1>1, <1>5, <1>6

LEMMA StepStream ==
  ASSUME RInv, CInv, SInv, [Next]_vars
  PROVE  SInv' /\ [Stream!Next]_(Stream!streamVars)
<1>1. CASE f_mount \/ f_open \/ f_close
  BY <1>1, CallerMoves, MovedKeeps, MovedStream DEF SInv
<1>2. ASSUME NEW n \in ReadSizes, f_read(n)
      PROVE  SInv' /\ Stream!Next
  BY <1>2, ReadStarts
<1>3. CASE Boot \/ Partition
  BY <1>3, FindVolumeMoves, MovedKeeps, MovedStream DEF SInv
<1>4. CASE dir_sdi \/ dir_find \/ dir_next
  BY <1>4, OpenMoves, MovedKeeps, MovedStream DEF SInv
<1>5. CASE NextCluster
  BY <1>5, ClusterNext
<1>6. CASE ReadSectors
  BY <1>6, SectorsNext
<1>7. CASE LoadSector \/ NoSector
  BY <1>7, LoadNext
<1>8. CASE Copy
  BY <1>8, CopyNext
<1>9. CASE ReadDone
  BY <1>9, ReadEnds
<1>10. CASE UNCHANGED vars
  <2>1. /\ card' = card /\ fs' = fs /\ Fsid' = Fsid /\ file' = file /\ pc' = pc /\ op' = op
        /\ asked' = asked /\ btr' = btr /\ got' = got
    BY <1>10 DEF vars, call
  <2>2. SameFile
    BY <2>1 DEF SameFile
  <2>3. (Reading' <=> Reading) /\ (Good' <=> Good) /\ Calls'
    BY <2>1, <2>2, SameFileSame DEF Reading, Good, SInv, Calls
  <2>4. ASSUME Good PROVE Placed'
    <3>1. Placed /\ pc' = pc
      BY <2>1, <2>4 DEF SInv
    <3>2. pc \in {"sector", "copy"} <=> Inside
      BY DEF Inside
    <3>3. Sector = clust2sect(fs, file.clust) + ((file.fptr \div SS) % fs.csize)
      BY DEF Sector, Csect
    <3> QED  BY <2>1, <2>2, <3>1, <3>2, <3>3, PlacedNext DEF Placed
  <2>5. ASSUME Reading PROVE Delivered'
    <3>1. Delivered
      BY <2>5 DEF SInv
    <3>2. pc' \in {"sector", "copy"} => Inside
      BY <2>1 DEF Inside
    <3>3. file.fptr - Len(got) = Start
      BY DEF Start
    <3> QED  BY <2>1, <2>2, <3>1, <3>2, <3>3, DeliveredNext DEF Delivered
  <2>6. SInv'
    BY <2>1, <2>3, <2>4, <2>5 DEF SInv
  <2>7. Valid' <=> Valid
    BY <2>2, SameFileSame
  <2>8. FilePos' = FilePos /\ FileWanted' = FileWanted /\ FileData' = FileData
    BY <2>1, <2>3, <2>7 DEF FilePos, FileWanted, FileData
  <2> QED  BY <2>1, <2>2, <2>6, <2>8, SameStream, IsStutter
<1> QED
  BY <1>1, <1>2, <1>3, <1>4, <1>5, <1>6, <1>7, <1>8, <1>9, <1>10 DEF Next, Caller, FatFs

LEMMA InitStream == Init => SInv /\ Stream!Init
<1> SUFFICES ASSUME Init PROVE SInv /\ Stream!Init
  OBVIOUS
<1>1. /\ fs = NotMounted /\ Fsid = 0 /\ file = NoFile /\ pc = "idle" /\ op = "none" /\ got = <<>>
  BY DEF Init
<1>2. ~Valid /\ ~Reading /\ ~Good
  BY <1>1 DEF Valid, Mounted, Reading, Good
<1>3. SInv
  BY <1>1, <1>2, NoFileFields DEF SInv, Calls
<1>4. /\ FileState = "closed" /\ FileBytes = <<>> /\ FileWhole = TRUE /\ FilePos = 0
      /\ FileWanted = 0 /\ FileData = <<>>
  BY <1>1, <1>2 DEF FileState, FileBytes, FileWhole, FilePos, FileWanted, FileData
<1>5. Stream!Init
  BY <1>4 DEF FileState, FileBytes, FileWhole, FilePos, FileWanted, FileData, Stream!Init
<1> QED  BY <1>3, <1>5

\* Every read delivers the bytes of the file, in their order and each once: as
\* many as asked for or all that are left, or some of them and then never one
\* more, on every card.
THEOREM ImplementsFileStream == Spec => ReadsTheFile
<1>1. Init => RInv /\ CInv /\ SInv /\ Stream!Init
  BY InitRInv, InitStream DEF Init, CInv, NoFile
<1>2. RInv /\ CInv /\ SInv /\ [Next]_vars
        => RInv' /\ CInv' /\ SInv' /\ [Stream!Next]_(Stream!streamVars)
  BY StepRInv, CachesKept, StepStream
<1> QED  BY <1>1, <1>2, PTL DEF Spec, ReadsTheFile, Stream!Spec
=============================================================================
