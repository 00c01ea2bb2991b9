------------------------------ MODULE FatRead ------------------------------
(***************************************************************************)
(* The read path of src/nrf/ff.c as fatfs.cpp uses it: f_mount, f_open     *)
(* with FA_READ, f_read and f_close on one volume and one file.            *)
(*                                                                         *)
(* Nothing is written to the card, so a sector's contents are its number:  *)
(* `win` and `file.buf` say whose contents a buffer holds, `winsect` and   *)
(* `file.sect` whose the code takes them for.  disk_read fills the buffer  *)
(* and succeeds, or fails and leaves it in any state (Garbage).  What the  *)
(* card holds may be inconsistent; it is what card says.                   *)
(***************************************************************************)
EXTENDS FatGeometry, Sequences

CONSTANTS
  Cards,       (* [mbr, br, vbr, bpb, fat, dir]: see below                   *)
  ReadSizes,   (* how many bytes f_read is asked for                         *)
  MAX_DIR,     (* entries of a directory                                     *)
  MaxMounts    (* bounds Fsid                                                *)

\* Entries after which a 32-bit offset into a directory is 0 again.
DwordEntries == Dword \div (SS \div EntriesPerSector)

\* A card says all the code may look at, and 32 bits hold every directory's
\* offset.  A partition and a volume are where DWORDs number sectors; whether
\* what its boot record says of itself adds up is left open.
ASSUME CardsAssumption ==
  /\ MAX_DIR \in Nat \ {0} /\ DwordEntries \in Nat /\ MAX_DIR < DwordEntries
  /\ ReadSizes \subseteq Nat
  /\ \A c \in Cards :
       /\ \A i \in 1 .. 4 : c.br[i] # Invalid
       /\ \A s \in c.vbr :
            /\ s \in Nat /\ c.bpb[s] \in BPB
            /\ Accepted(c.bpb[s]) =>
                 /\ Numbered(Volume(c.bpb[s], s))
                 /\ \A k \in 2 .. FatEntries(c.bpb[s]) - 1 : c.fat[k] \in DWORD
       /\ \A s \in DOMAIN c.dir, i \in 1 .. EntriesPerSector :
            c.dir[s][i].sclust \in DWORD /\ c.dir[s][i].size \in DWORD

VARIABLES
  card,
  fs,          (* the FATFS object as find_volume has filled it              *)
  Fsid,
  win, winsect,
  dp,          (* the DIR object: sect, clust, dptr                          *)
  file,        (* the FIL object                                             *)
  pc, op, part,(* the step of the call under way, the call, its partition    *)
  asked, btr,  (* the bytes f_read was called for, those still missing       *)
  got,         (* the bytes delivered: <<sector, offset>>                    *)
  io,          (* the sectors the step asks disk_read for                    *)
  result       (* what the last call returned                                *)

call == <<pc, op, part, asked, btr>>
vars == <<card, fs, Fsid, win, winsect, dp, file, call, got, io, result>>

NotMounted == [fs_type |-> "none"]     \* fs_type is 0
Garbage == Dword                       \* what no sector holds
DiskErr == Invalid                     \* get_fat: the disk failed
NoFile == [open |-> FALSE, id |-> 0, sclust |-> 0, objsize |-> 0, fptr |-> 0,
           clust |-> 0, sect |-> 0, buf |-> Garbage, err |-> "FR_OK"]

Errors == {"FR_DISK_ERR", "FR_INT_ERR"}

(***************************************************************************)
(* The card.  mbr: sector 0 has the boot signature; br: the four partition *)
(* starts in it; vbr: the sectors that are FAT boot records, bpb: theirs;  *)
(* fat: the entry of a cluster; dir: the entries of the root directory's   *)
(* sectors, [kind, sclust, size] with kind end, other, file or dir, where  *)
(* file and dir have the name looked for.                                  *)
(***************************************************************************)
Other == [kind |-> "other", sclust |-> 0, size |-> 0]
EntryAt(s, i) == IF s \in DOMAIN card.dir THEN card.dir[s][i + 1] ELSE Other

-----------------------------------------------------------------------------
Init ==
  /\ card \in Cards
  /\ fs = NotMounted /\ Fsid = 0
  /\ win = Garbage /\ winsect = Invalid
  /\ dp = [sect |-> 0, clust |-> 0, dptr |-> 0]
  /\ file = NoFile
  /\ pc = "idle" /\ op = "none" /\ part = 0 /\ asked = 0 /\ btr = 0
  /\ got = <<>> /\ io = <<>> /\ result = "none"

Goes(to) == pc' = to /\ UNCHANGED <<op, part, asked, btr, result>>
Returns(res) == pc' = "idle" /\ op' = "none" /\ result' = res /\ part' = 0 /\ asked' = 0 /\ btr' = 0

\* disk_read of n sectors from s on.
DiskOk(s, n) == io' = <<s, n>>
DiskFails(s, n) == io' = <<s, n>>
NoDisk == io' = <<>>
NewCall == got' = <<>> /\ NoDisk

FailedWindowKept(s) == winsect' = s /\ win' = Garbage        \* mutant
FailedWindow(s) == winsect' = Invalid /\ win' = Garbage

\* move_window(s).
WindowHolds(s) ==
  \/ winsect = s /\ UNCHANGED <<win, winsect>> /\ NoDisk
  \/ winsect # s /\ DiskOk(s, 1) /\ winsect' = s /\ win' = s
WindowFails(s) == winsect # s /\ DiskFails(s, 1) /\ FailedWindow(s)

\* get_fat(clst) returns value, one of FatValues(clst).
FatValues(clst) == IF IsCluster(fs, clst) THEN {card.fat[clst], DiskErr} ELSE {1}
GetFat(clst, value) ==
  \/ ~IsCluster(fs, clst) /\ value = 1 /\ UNCHANGED <<win, winsect>> /\ NoDisk
  \/ /\ IsCluster(fs, clst)
     /\ LET sects == FatSectors(fs, clst) IN
        \/ Len(sects) = 1 /\ WindowHolds(sects[1]) /\ value = card.fat[clst]
        \/ Len(sects) = 1 /\ WindowFails(sects[1]) /\ value = DiskErr
        \/ /\ Len(sects) = 2 /\ winsect' = sects[2] /\ win' = sects[2] /\ value = card.fat[clst]
           /\ IF winsect = sects[1] THEN DiskOk(sects[2], 1) ELSE DiskOk(sects[1], 2)
        \/ /\ Len(sects) = 2 /\ value = DiskErr
           /\ \E s \in {sects[1], sects[2]} : (s = sects[1] => winsect # s)
                                              /\ FailedWindow(s) /\ DiskFails(s, 1)

-----------------------------------------------------------------------------
(***************************************************************************)
(* f_mount and find_volume.                                                *)
(***************************************************************************)
f_mount ==
  /\ pc = "idle" /\ Fsid < MaxMounts
  /\ fs' = NotMounted
  /\ pc' = "boot" /\ op' = "mount"
  /\ UNCHANGED <<card, Fsid, win, winsect, dp, file, part, asked, btr, result>> /\ NewCall

\* After find_volume f_mount returns and f_open looks the path up.  A call that
\* fails leaves f_open's file object invalid.
Found == IF op = "mount" THEN Returns("FR_OK") ELSE Goes("sdi")
Fails(res) == Returns(res) /\ file' = IF op = "open" THEN NoFile ELSE file

\* check_fs reads whatever the window says it holds.
Loads(s) == DiskOk(s, 1) /\ winsect' = s /\ win' = s
LoadFails(s) == DiskFails(s, 1) /\ FailedWindow(s)

\* The BPB of the boot record at s, and FSINFO behind it.
Analyze(s) ==
  IF Accepted(card.bpb[s])
  THEN /\ fs' = Volume(card.bpb[s], s)
       /\ Fsid' = Fsid + 1
       /\ Found /\ UNCHANGED file
       /\ IF FatType(card.bpb[s]) = "FAT32" /\ card.bpb[s].FSInfo
          THEN Loads(s + 1) \/ LoadFails(s + 1) ELSE Loads(s)
  ELSE Loads(s) /\ Fails("FR_NO_FILESYSTEM") /\ UNCHANGED <<fs, Fsid>>

Boot ==
  /\ pc = "boot"
  /\ \/ 0 \in card.vbr /\ Analyze(0)
     \/ /\ 0 \notin card.vbr /\ Loads(0)
        /\ IF card.mbr THEN pc' = "part" /\ part' = 1 /\ UNCHANGED <<op, asked, btr, result, file>>
                       ELSE Fails("FR_NO_FILESYSTEM")
        /\ UNCHANGED <<fs, Fsid>>
     \/ LoadFails(0) /\ Fails("FR_DISK_ERR") /\ UNCHANGED <<fs, Fsid>>
     \/ NoDisk /\ Fails("FR_NOT_READY") /\ UNCHANGED <<fs, Fsid, win, winsect>>
  /\ UNCHANGED <<card, dp, got>>

\* Not a FAT boot record there: the next partition, or what the last one gave.
NextPart(res) ==
  IF part < 4 THEN part' = part + 1 /\ UNCHANGED <<pc, op, asked, btr, result, file>>
              ELSE Fails(res)

Partition ==
  /\ pc = "part"
  /\ LET bsect == card.br[part] IN
     \/ bsect = 0 /\ NextPart("FR_NO_FILESYSTEM") /\ UNCHANGED <<fs, Fsid, win, winsect>> /\ NoDisk
     \/ bsect # 0 /\ bsect \in card.vbr /\ Analyze(bsect)
     \/ /\ bsect # 0 /\ bsect \notin card.vbr
        /\ Loads(bsect) /\ NextPart("FR_NO_FILESYSTEM") /\ UNCHANGED <<fs, Fsid>>
     \/ bsect # 0 /\ LoadFails(bsect) /\ NextPart("FR_DISK_ERR") /\ UNCHANGED <<fs, Fsid>>
  /\ UNCHANGED <<card, dp, got>>

-----------------------------------------------------------------------------
(***************************************************************************)
(* f_open: find_volume, then follow_path to an entry of the root directory.*)
(***************************************************************************)
Mounted == fs # NotMounted

f_open ==
  /\ pc = "idle" /\ (Mounted \/ Fsid < MaxMounts)
  /\ op' = "open" /\ pc' = IF Mounted THEN "sdi" ELSE "boot"
  /\ UNCHANGED <<card, fs, Fsid, win, winsect, dp, file, part, asked, btr, result>> /\ NewCall

\* dir_sdi(0).  Cluster 0 is the static table of FAT12 and FAT16.
RootCluster == IF fs.fs_type = "FAT32" THEN fs.dirbase ELSE 0
RootSector == IF RootCluster = 0 THEN IF fs.n_rootdir = 0 THEN 0 ELSE fs.dirbase
              ELSE clust2sect(fs, RootCluster)

dir_sdi ==
  /\ pc = "sdi"
  /\ \/ RootSector = 0 /\ Fails("FR_INT_ERR") /\ UNCHANGED dp
     \/ /\ RootSector # 0 /\ Goes("find") /\ UNCHANGED file
        /\ dp' = [sect |-> RootSector, clust |-> RootCluster, dptr |-> 0]
  /\ UNCHANGED <<card, fs, Fsid, win, winsect, got>> /\ NoDisk

\* The entry is found: the file object is set up.
Opens(e) ==
  /\ file' = [NoFile EXCEPT !.open = TRUE, !.id = Fsid, !.sclust = e.sclust, !.objsize = e.size]
  /\ Returns("FR_OK")

\* A turn of the loop of dir_find.
dir_find ==
  /\ pc = "find"
  /\ \/ WindowFails(dp.sect) /\ Fails("FR_DISK_ERR")
     \/ /\ WindowHolds(dp.sect)
        /\ LET e == EntryAt(dp.sect, dp.dptr % EntriesPerSector) IN
           \/ e.kind = "end" /\ Fails("FR_NO_FILE")
           \/ e.kind = "other" /\ Goes("next") /\ UNCHANGED file
           \/ e.kind = "dir" /\ Fails("FR_NO_FILE")
           \/ e.kind = "file" /\ Opens(e)
  /\ UNCHANGED <<card, fs, Fsid, dp, got>>

\* dir_next.
DirGoesOnAlways(ofs) == TRUE                                 \* mutant
DirGoesOn(ofs) == dp.sect # 0 /\ ofs < MAX_DIR

SameCluster(ofs) == dp.clust = 0 \/ (ofs \div EntriesPerSector) % fs.csize # 0

DirCluster(clst) ==
  \/ clst <= 1 /\ Fails("FR_INT_ERR") /\ UNCHANGED dp
  \/ clst = DiskErr /\ Fails("FR_DISK_ERR") /\ UNCHANGED dp
  \/ clst # DiskErr /\ clst >= fs.n_fatent /\ Fails("FR_NO_FILE") /\ UNCHANGED dp
  \/ /\ IsCluster(fs, clst) /\ Goes("find") /\ UNCHANGED file
     /\ dp' = [sect |-> clust2sect(fs, clst), clust |-> clst, dptr |-> (dp.dptr + 1) % DwordEntries]

dir_next ==
  /\ pc = "next"
  /\ LET ofs == (dp.dptr + 1) % DwordEntries
         newSector == ofs % EntriesPerSector = 0
     IN \/ /\ ~DirGoesOn(ofs)
           /\ Fails("FR_NO_FILE") /\ UNCHANGED <<dp, win, winsect>> /\ NoDisk
        \/ /\ DirGoesOn(ofs) /\ newSector /\ dp.clust = 0 /\ ofs >= fs.n_rootdir
           /\ Fails("FR_NO_FILE") /\ UNCHANGED <<dp, win, winsect>> /\ NoDisk
        \/ /\ DirGoesOn(ofs) /\ newSector /\ ~SameCluster(ofs)
           /\ \E clst \in FatValues(dp.clust) : GetFat(dp.clust, clst) /\ DirCluster(clst)
        \/ /\ DirGoesOn(ofs)
           /\ newSector => SameCluster(ofs) /\ (dp.clust = 0 => ofs < fs.n_rootdir)
           /\ dp' = [dp EXCEPT !.dptr = ofs, !.sect = IF newSector THEN @ + 1 ELSE @]
           /\ Goes("find") /\ UNCHANGED <<file, win, winsect>> /\ NoDisk
  /\ UNCHANGED <<card, fs, Fsid, got>>

-----------------------------------------------------------------------------
(***************************************************************************)
(* f_read.                                                                 *)
(***************************************************************************)
\* validate: a file opened before the volume was mounted anew is refused.
Valid == file.open /\ Mounted /\ file.id = Fsid

AtMost(a, b) == IF a < b THEN a ELSE b

f_read(n) ==
  /\ pc = "idle"
  /\ IF ~Valid \/ file.err # "FR_OK"
     THEN /\ result' = IF Valid THEN file.err ELSE "FR_INVALID_OBJECT"
          /\ UNCHANGED <<pc, op, part, asked, btr>>
     ELSE /\ pc' = "read" /\ op' = "read"
          /\ asked' = n /\ btr' = AtMost(n, file.objsize - file.fptr)
          /\ UNCHANGED <<part, result>>
  /\ UNCHANGED <<card, fs, Fsid, win, winsect, dp, file>> /\ NewCall

AbortForgets(res) == Returns(res) /\ UNCHANGED file          \* mutant
Abort(res) == Returns(res) /\ file' = [file EXCEPT !.err = res]

Csect == (file.fptr \div SS) % fs.csize

Cluster(clst) ==
  \/ clst < 2 /\ Abort("FR_INT_ERR")
  \/ clst = DiskErr /\ Abort("FR_DISK_ERR")
  \/ clst >= 2 /\ clst # DiskErr /\ Goes("sector") /\ file' = [file EXCEPT !.clust = clst]

\* The head of the loop, and the cluster the next byte is in.
NextCluster ==
  /\ pc = "read" /\ btr > 0 /\ file.fptr % SS = 0
  /\ \/ Csect # 0 /\ Goes("sector") /\ UNCHANGED <<file, win, winsect>> /\ NoDisk
     \/ Csect = 0 /\ file.fptr = 0 /\ Cluster(file.sclust) /\ UNCHANGED <<win, winsect>> /\ NoDisk
     \/ /\ Csect = 0 /\ file.fptr # 0
        /\ \E clst \in FatValues(file.clust) : GetFat(file.clust, clst) /\ Cluster(clst)
  /\ UNCHANGED <<card, fs, Fsid, dp, got>>

\* The end of the loop's body: n bytes b have been put into the buffer.
Moves(n, b) ==
  /\ got' = got \o b
  /\ btr' = btr - n
  /\ pc' = "read" /\ UNCHANGED <<op, part, asked, result>>

Bytes(s, from, n) == [i \in 1 .. n |-> <<s, from + i - 1>>]

ClippedNot(cc) == cc                                         \* mutant
Clipped(cc) == AtMost(cc, fs.csize - Csect)

Sector == clust2sect(fs, file.clust) + Csect

\* Whole sectors are read directly into the caller's buffer.
ReadSectors ==
  /\ pc = "sector" /\ clust2sect(fs, file.clust) # 0 /\ btr \div SS > 0
  /\ LET cc == Clipped(btr \div SS) IN
     \/ DiskFails(Sector, cc) /\ Abort("FR_DISK_ERR") /\ UNCHANGED got
     \/ /\ DiskOk(Sector, cc)
        /\ Moves(SS * cc, [i \in 1 .. SS * cc |-> <<Sector + (i - 1) \div SS, (i - 1) % SS>>])
        /\ file' = [file EXCEPT !.fptr = @ + SS * cc]
  /\ UNCHANGED <<card, fs, Fsid, win, winsect, dp>>

\* Part of a sector: it is loaded into the file's buffer, unless it is there.
SectorLoaded ==
  \/ file.sect = Sector /\ UNCHANGED file /\ NoDisk /\ Goes("copy")
  \/ /\ file.sect # Sector /\ DiskOk(Sector, 1) /\ Goes("copy")
     /\ file' = [file EXCEPT !.sect = Sector, !.buf = Sector]
SectorFails ==
  /\ file.sect # Sector /\ DiskFails(Sector, 1)
  /\ Returns("FR_DISK_ERR")
  /\ file' = [file EXCEPT !.err = "FR_DISK_ERR", !.buf = Garbage]

LoadSector ==
  /\ pc = "sector" /\ clust2sect(fs, file.clust) # 0 /\ btr \div SS = 0
  /\ SectorLoaded \/ SectorFails
  /\ UNCHANGED <<card, fs, Fsid, win, winsect, dp, got>>

NoSector ==
  /\ pc = "sector" /\ clust2sect(fs, file.clust) = 0
  /\ Abort("FR_INT_ERR")
  /\ UNCHANGED <<card, fs, Fsid, win, winsect, dp, got>> /\ NoDisk

\* Bytes of the sector in the file's buffer.
CopyFrom(n) ==
  /\ Moves(n, Bytes(file.buf, file.fptr % SS, n))
  /\ file' = [file EXCEPT !.fptr = @ + n]

Copy ==
  /\ pc = "copy" \/ (pc = "read" /\ btr > 0 /\ file.fptr % SS # 0)
  /\ CopyFrom(AtMost(SS - (file.fptr % SS), btr))
  /\ UNCHANGED <<card, fs, Fsid, win, winsect, dp>> /\ NoDisk

ReadDone ==
  /\ pc = "read" /\ btr = 0
  /\ Returns("FR_OK")
  /\ UNCHANGED <<card, fs, Fsid, win, winsect, dp, file, got>> /\ NoDisk

\* f_close, of a file nothing has been written to.
f_close ==
  /\ pc = "idle"
  /\ IF Valid THEN result' = "FR_OK" /\ file' = [file EXCEPT !.open = FALSE]
              ELSE result' = "FR_INVALID_OBJECT" /\ UNCHANGED file
  /\ UNCHANGED <<card, fs, Fsid, win, winsect, dp, call>> /\ NewCall

-----------------------------------------------------------------------------
Caller == f_mount \/ f_open \/ f_close \/ \E n \in ReadSizes : f_read(n)
FatFs == \/ Boot \/ Partition \/ dir_sdi \/ dir_find \/ dir_next
         \/ NextCluster \/ ReadSectors \/ LoadSector \/ NoSector \/ Copy \/ ReadDone

Next == Caller \/ FatFs
Spec == Init /\ [][Next]_vars
FairSpec == Spec /\ WF_vars(FatFs)

-----------------------------------------------------------------------------
(***************************************************************************)
(* Properties.                                                             *)
(***************************************************************************)
\* As many clusters as the file's size calls for, and what the FAT chains from
\* its first cluster on, in their order.
Most == (file.objsize + SS * fs.csize - 1) \div (SS * fs.csize)
Link(c) == IF IsCluster(fs, c) THEN card.fat[c] ELSE 1
Linked[k \in 0 .. Most] == IF k = 0 THEN file.sclust ELSE Link(Linked[k - 1])

\* The clusters of the file: up to the first number that leads to no sector.
HasData(c) == c >= 2 /\ c # DiskErr /\ clust2sect(fs, c) # 0
Clustered(k) == \A j \in 0 .. k - 1 : HasData(Linked[j])
ChainLength ==
  CHOOSE k \in 0 .. Most : Clustered(k) /\ (k = Most \/ ~HasData(Linked[k]))

\* The file's bytes, as many as its chain leads to.
Content ==
  LET size == ChainLength * fs.csize
      sects == [i \in 0 .. size - 1 |->
                  clust2sect(fs, Linked[i \div fs.csize]) + (i % fs.csize)]
  IN [i \in 1 .. AtMost(file.objsize, size * SS) |-> <<sects[(i - 1) \div SS], (i - 1) % SS>>]

Reading == op = "read"

Stream == INSTANCE FileStream WITH
  Sizes   <- ReadSizes,
  content <- IF Valid THEN Content ELSE <<>>,
  whole   <- Valid => Len(Content) = file.objsize,
  stream  <- IF ~Valid THEN "closed" ELSE IF file.err = "FR_OK" THEN "open" ELSE "broken",
  pos     <- IF ~Valid THEN 0 ELSE IF Reading THEN file.fptr - Len(got) ELSE file.fptr,
  wanted  <- IF Reading THEN asked ELSE 0,
  data    <- IF Reading THEN <<>> ELSE got

\* f_read delivers the bytes of the file, in order and each once, whatever the
\* sizes asked for, and nothing more once it has failed.
ReadsTheFile == Stream!Spec

\* The sector cache of the volume and that of the file hold what the code takes
\* them to hold: a load that failed leaves no stale number behind that a later
\* call would trust.
CachesHold ==
  /\ winsect # Invalid => win = winsect
  /\ Valid /\ file.err = "FR_OK" /\ file.sect # 0 => file.buf = file.sect

\* Where the sectors of the step under way belong: to the first FAT, to the
\* static root directory, or to the clusters, each in front of the next.
Behind(v) == IF v.fs_type = "FAT32" THEN v.database ELSE v.dirbase     \* the FATs
InClusters == pc = "sector" \/ (pc = "find" /\ dp.clust # 0)
Region ==
  IF InClusters THEN [from |-> fs.database, to |-> fs.volend]
  ELSE IF pc = "find" THEN [from |-> fs.dirbase, to |-> fs.database]
  ELSE [from |-> fs.fatbase, to |-> AtMost(fs.fatbase + fs.fsize, Behind(fs))]

ReadsInside == io'[1] >= Region.from /\ io'[1] + io'[2] <= Region.to
Searches == io' # <<>> /\ pc \in {"find", "next", "read", "sector"}

\* A file and a directory's clusters are only read inside the volume, behind
\* what find_volume takes for its start, whatever the boot record, the FAT and
\* the directory say.  If the boot record's sums are exact, the FAT is only read
\* where the BPB puts it, in front of directory and clusters, and the static root
\* directory in front of the clusters: find_volume refuses the FAT that is too
\* small for them.
ReadsInRegion == [][Searches /\ (InClusters \/ fs.exact) => ReadsInside]_vars

\* Not so for every boot record find_volume accepts: the size of the FATs and
\* the size needed are products that wrap.
AllReadsInRegion == [][Searches => ReadsInside]_vars

\* Every call returns, on a FAT with cycles too.
CallsEnd == pc # "idle" ~> pc = "idle"
=============================================================================
