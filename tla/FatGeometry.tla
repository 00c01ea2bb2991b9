---------------------------- MODULE FatGeometry ----------------------------
(***************************************************************************)
(* How src/nrf/ff.c lays a FAT volume out on the card: what find_volume    *)
(* computes from the BPB of the boot sector, which BPBs it refuses, and    *)
(* where get_fat and clust2sect look for a FAT entry and for a cluster.    *)
(*                                                                         *)
(* Sectors are numbered from the start of the card.  Every number is a     *)
(* DWORD: what find_volume adds and multiplies is taken modulo Dword, and  *)
(* a boot record whose sums wrap is judged by what is left of them.        *)
(***************************************************************************)
EXTENDS Naturals

CONSTANTS
  Dword,             (* 2^32                                                 *)
  SS,                (* bytes in a sector                                    *)
  EntriesPerSector,  (* SS(fs) / SZDIRE                                      *)
  MAX_FAT12, MAX_FAT16

ASSUME GeometryAssumption ==
  /\ SS \in Nat /\ SS >= 4 /\ SS % 4 = 0
  /\ Dword \in Nat /\ Dword > 2
  /\ EntriesPerSector \in Nat \ {0}
  /\ MAX_FAT12 \in Nat /\ MAX_FAT16 \in Nat

DWORD == 0 .. Dword - 1
Wrap(n) == n % Dword
Invalid == Dword - 1                   \* 0xFFFFFFFF: no sector, and no cluster

\* The fields of a boot sector find_volume looks at.  FSVer and FSInfo: the
\* fields of that name are 0 and 1.
BPB == [BytsPerSec : DWORD, FATSz : DWORD, NumFATs : DWORD, SecPerClus : DWORD, RootEntCnt : DWORD,
        TotSec : DWORD, RsvdSecCnt : DWORD, RootClus : DWORD, FSVer : BOOLEAN, FSInfo : BOOLEAN]

PowersOfTwo == {1, 2, 4, 8, 16, 32, 64, 128}     \* of a byte

-----------------------------------------------------------------------------
DirSectors(b) == b.RootEntCnt \div EntriesPerSector
SystemArea(b) == b.RsvdSecCnt + b.FATSz * b.NumFATs + DirSectors(b)   \* before it wraps
SysSectors(b) == Wrap(SystemArea(b))
Clusters(b)   == (b.TotSec - SysSectors(b)) \div b.SecPerClus
FatEntries(b) == Wrap(Clusters(b) + 2)

FatType(b) ==
  IF Clusters(b) <= MAX_FAT12 THEN "FAT12"
  ELSE IF Clusters(b) <= MAX_FAT16 THEN "FAT16" ELSE "FAT32"

\* szbfat: the bytes a FAT of n entries takes, or what 32 bits leave of them.
FatBytes(type, n) ==
  IF type = "FAT32" THEN Wrap(n * 4)
  ELSE IF type = "FAT16" THEN Wrap(n * 2) ELSE Wrap(n * 3) \div 2 + (n % 2)

\* find_volume goes on, otherwise it returns FR_NO_FILESYSTEM.
AcceptedAnyFatSize(b) ==                                     \* mutant
  /\ b.BytsPerSec = SS /\ b.NumFATs \in {1, 2} /\ b.SecPerClus \in PowersOfTwo
  /\ b.RootEntCnt % EntriesPerSector = 0 /\ b.RsvdSecCnt # 0
  /\ b.TotSec >= SysSectors(b) /\ Clusters(b) # 0
  /\ IF FatType(b) = "FAT32" THEN b.FSVer /\ b.RootEntCnt = 0 ELSE b.RootEntCnt # 0
Accepted(b) ==
  /\ b.BytsPerSec = SS
  /\ b.NumFATs \in {1, 2}
  /\ b.SecPerClus \in PowersOfTwo
  /\ b.RootEntCnt % EntriesPerSector = 0
  /\ b.RsvdSecCnt # 0
  /\ b.TotSec >= SysSectors(b)
  /\ Clusters(b) # 0
  /\ IF FatType(b) = "FAT32" THEN b.FSVer /\ b.RootEntCnt = 0 ELSE b.RootEntCnt # 0
  /\ b.FATSz >= Wrap(FatBytes(FatType(b), FatEntries(b)) + (SS - 1)) \div SS

\* Nothing wraps in these sums: the areas before the clusters, and the bytes of
\* the FAT.  find_volume does not ask for it.
Exact(b) == SystemArea(b) < Dword /\ (Clusters(b) + 2) * 4 + SS <= Dword

\* The FATFS object of the volume at sector bsect.  dirbase is a sector, or in
\* FAT32 the first cluster of the root directory.
Volume(b, bsect) ==
  [fs_type   |-> FatType(b),
   csize     |-> b.SecPerClus,
   n_rootdir |-> b.RootEntCnt,
   n_fatent  |-> FatEntries(b),
   fsize     |-> b.FATSz,
   volbase   |-> bsect,
   fatbase   |-> Wrap(bsect + b.RsvdSecCnt),
   dirbase   |-> IF FatType(b) = "FAT32" THEN b.RootClus
                 ELSE Wrap(bsect + b.RsvdSecCnt + b.FATSz * b.NumFATs),
   database  |-> Wrap(bsect + SysSectors(b)),
   volend    |-> bsect + b.TotSec,      \* not fields: the end by the BPB, and
   exact     |-> Exact(b)]              \* whether its sums are

-----------------------------------------------------------------------------
\* get_fat and clust2sect each have a test of their own for a cluster's number.
IsCluster(v, clst) == clst >= 2 /\ clst < v.n_fatent
HasSector(v, clst) == Wrap(clst + Dword - 2) < Wrap(v.n_fatent + Dword - 2)

\* clust2sect: 0 for a number that is not a cluster's.
clust2sect(v, clst) ==
  IF HasSector(v, clst) THEN Wrap(Wrap(clst + Dword - 2) * v.csize + v.database) ELSE 0

\* The sectors get_fat loads for the entry of clst, in this order: an entry of
\* FAT12 takes a byte and a half and may lie across two.
FatByte(v, clst) ==
  IF v.fs_type = "FAT32" THEN clst * 4
  ELSE IF v.fs_type = "FAT16" THEN clst * 2 ELSE clst + clst \div 2
FatSectors(v, clst) ==
  LET first == Wrap(v.fatbase + FatByte(v, clst) \div SS)
      last  == Wrap(v.fatbase + (FatByte(v, clst) + 1) \div SS)
  IN IF v.fs_type = "FAT12" /\ last # first THEN <<first, last>> ELSE <<first>>

\* The volume is within what DWORDs number: its end, the static directory, and
\* no entry of the FAT is in the sector move_window takes for none.
Numbered(v) ==
  /\ v.volend < Dword
  /\ v.fs_type # "FAT32" => v.dirbase + v.n_rootdir \div EntriesPerSector < Dword
  /\ \A k \in 2 .. v.n_fatent - 1 : \A i \in DOMAIN FatSectors(v, k) :
       FatSectors(v, k)[i] # Invalid
=============================================================================
