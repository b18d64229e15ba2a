--------------------------------- MODULE Fat ---------------------------------
(***************************************************************************)
(* The FAT file system (src/kernel/src/fatfs/ff.cpp) on a FAT16 volume,    *)
(* which is what the kernel makes of its own drive, and on a FAT32 one:    *)
(* the one-sector window every table access goes through, the cluster      *)
(* chains, the directories, the file objects with their own sector buffer, *)
(* and the calls the kernel makes.  Every call is one action: the library  *)
(* is not re-entrant, and the kernel calls it with interrupts off, or at   *)
(* boot, when the keyboard has no process to type for and no timer runs.   *)
(* Inside a call the disk may fail at any transfer, and the power may go   *)
(* at any transfer.                                                        *)
(*                                                                         *)
(* The functions of the library are operators from a machine m to a        *)
(* machine: m carries the disk, the FATFS object, the file object at work, *)
(* the transfers so far (io, the most sectors of one) and the result (res, *)
(* val) of the last function.                                              *)
(*                                                                         *)
(* A sector is SS cells; a cell holds a FAT entry, a directory entry or a  *)
(* byte of file data, so a FAT entry is never split over two sectors, as   *)
(* those of FAT12 are.  There is one FAT, as f_mkfs makes them by default. *)
(* Every name fits one directory entry: there are no long names, and no    *)
(* collisions of the short names generated for them.                       *)
(***************************************************************************)
EXTENDS Integers, Sequences, FiniteSets

CONSTANTS
    n_fatent,    \* FAT entries: the clusters are 2 .. n_fatent - 1
    SS,          \* cells in a sector
    csize,       \* sectors in a cluster
    n_root,      \* entries of the static root directory of a FAT16 volume
    MAX_DIR,     \* entries a directory may have (0x200000 bytes in the code)
    Names,       \* file and directory names, positive numbers
    OldByte,     \* what the clusters hold that were never written
    Fils,        \* file objects
    Paths,       \* paths of files
    Dirs,        \* paths of directories that are made
    Doomed,      \* paths of files and directories that are removed
    Lengths,     \* lengths a caller reads and writes
    Offsets,     \* offsets a caller seeks to
    Modes,       \* access modes a caller opens with
    Volumes,     \* what the drive may hold at power-on
    MaxCalls,    \* bound on the calls made
    MaxMishaps   \* bound on the calls in which the disk or the power fails

ASSUME LayoutAssumption ==
    /\ n_fatent \in Nat /\ n_fatent > 2
    /\ SS \in Nat /\ SS >= 2
    /\ csize \in Nat \ {0}
    /\ n_root \in Nat \ {0} /\ n_root % SS = 0
    /\ MAX_DIR \in Nat \ {0} /\ MAX_DIR % (csize * SS) = 0
    /\ Names \subseteq 1 .. 99

EOC == 2^28 - 1           \* end of chain
Bad == 2^30               \* 0xFFFFFFFF: a disk error, or an unknown counter
DDEM == 229               \* first byte of a deleted entry
DOT == 100                \* first byte of the "." and ".." entries
DOTDOT == 101
AM_DIR == 16
AM_ARC == 32
FSI == 1                  \* the signatures of an FSInfo sector

FS_FAT16 == 2
FS_FAT32 == 3

volbase == 1              \* the volume is the first partition; sector 0 has the table
fsize == (n_fatent + SS - 1) \div SS
Sectors == 0 .. volbase + 2 + fsize + n_root \div SS + csize * (n_fatent - 2) - 1
Clusters == 2 .. n_fatent - 1

Cell(v) == <<v, 0, 0, 0>>
Dirent(name, attr, clust, size) == <<name, attr, clust, size>>
Zero == Cell(0)
\* the place of the x-th entry of a table in its sector
Slot(x) == (x % SS) + 1
ZeroSector == [i \in 1 .. SS |-> Zero]

\* What the parameters of a volume boot record, its reserved sectors and root
\* entries, make of the volume.  Only FAT32 has no static root directory: there
\* dirbase is the root's first cluster, elsewhere its first sector.
layout(vbr) ==
    LET nrsv   == vbr[1][1]
        n_rootdir == vbr[1][2]
        fat32  == n_rootdir = 0
        fat    == volbase + nrsv
    IN  [fs_type   |-> IF fat32 THEN FS_FAT32 ELSE FS_FAT16,
         n_rootdir |-> n_rootdir,
         fatbase   |-> fat,
         dirbase   |-> IF fat32 THEN 2 ELSE fat + fsize,
         database  |-> fat + fsize + n_rootdir \div SS]

\* the first cluster of a directory, 0 for the static root
TableClust(vol, sclust) ==
    IF sclust = 0 /\ vol.fs_type = FS_FAT32 THEN vol.dirbase ELSE sclust

-----------------------------------------------------------------------------
(* The disk under the library.  fault.at is the transfer that fails (0: none), fault.ever
   whether all later ones fail too, fault.part how many sectors of a failing
   write reach the disk all the same. *)

Fails(m) ==
    /\ m.fault.at # 0
    /\ m.io + 1 = m.fault.at \/ (m.fault.ever /\ m.io + 1 > m.fault.at)

Ok(m) == [m EXCEPT !.res = "FR_OK"]
Err(m, r) == [m EXCEPT !.res = r]

disk_read(m) ==
    [m EXCEPT !.io = @ + 1, !.res = IF Fails(m) THEN "FR_DISK_ERR" ELSE "FR_OK"]

RECURSIVE put_sectors(_, _, _, _)
put_sectors(d, buf, sect, n) ==
    IF n = 0 THEN d
    ELSE put_sectors([d EXCEPT ![sect] = SubSeq(buf, 1, SS)],
                     SubSeq(buf, SS + 1, Len(buf)), sect + 1, n - 1)

disk_write(m, buf, sect) ==
    LET cc == Len(buf) \div SS
        n  == IF ~Fails(m) THEN cc
              ELSE IF m.fault.part < cc THEN m.fault.part ELSE cc - 1
    IN  [m EXCEPT !.io = @ + 1,
                  !.most = IF cc > @ THEN cc ELSE @,
                  !.res = IF Fails(m) THEN "FR_DISK_ERR" ELSE "FR_OK",
                  !.disk = put_sectors(@, buf, sect, n)]

-----------------------------------------------------------------------------
(* Sequencing: F goes on with the machine a function has returned. *)

With(m, F(_)) == F(m)
\* ... unless it failed
Then(m, F(_)) == IF m.res = "FR_OK" THEN F(m) ELSE m
\* ... or found no cluster (create_chain)
Chained(m, F(_)) ==
    CASE m.val = 0 -> Err(m, "FR_DENIED")
      [] m.val = 1 -> Err(m, "FR_INT_ERR")
      [] m.val = Bad -> Err(m, "FR_DISK_ERR")
      [] OTHER -> F(m)

-----------------------------------------------------------------------------
(* The window. *)

sync_window(m) ==
    IF ~m.fs.wflag THEN Ok(m)
    ELSE Then(disk_write(m, m.fs.win, m.fs.winsect), LAMBDA w : [w EXCEPT !.fs.wflag = FALSE])

move_window(m, sect) ==
    IF sect = m.fs.winsect THEN Ok(m)
    ELSE Then(sync_window(m), LAMBDA s :
         With(disk_read(s), LAMBDA r :
            IF r.res # "FR_OK" THEN [r EXCEPT !.fs.winsect = Bad]
            ELSE [r EXCEPT !.fs.win = r.disk[sect], !.fs.winsect = sect]))

\* the FSInfo sector, signed
FSInfo(free, last) == [ZeroSector EXCEPT ![1] = <<free, FSI, 0, 0>>, ![2] = Cell(last)]

sync_fs(m) ==
    Then(sync_window(m), LAMBDA s :
        LET info == FSInfo(s.fs.free_clst, s.fs.last_clst)
        IN  IF s.fs.vol.fs_type # FS_FAT32 \/ s.fs.fsi_flag # 1 THEN s
            ELSE Ok([disk_write(s, info, volbase + 1) EXCEPT
                        !.fs.win = info, !.fs.winsect = volbase + 1, !.fs.fsi_flag = 0]))

-----------------------------------------------------------------------------
(* The FAT. *)

clst2sect(vol, clst) ==
    IF clst \in Clusters THEN vol.database + csize * (clst - 2) ELSE 0

\* val: 1 for an impossible cluster, Bad for a disk error, the entry otherwise
get_fat(m, clst) ==
    IF clst \notin Clusters THEN [m EXCEPT !.val = 1]
    ELSE With(move_window(m, m.fs.vol.fatbase + clst \div SS), LAMBDA w :
            [w EXCEPT !.val = IF w.res = "FR_OK" THEN w.fs.win[Slot(clst)][1] ELSE Bad])

put_fat(m, clst, val) ==
    IF clst \notin Clusters THEN Err(m, "FR_INT_ERR")
    ELSE Then(move_window(m, m.fs.vol.fatbase + clst \div SS), LAMBDA w :
            [w EXCEPT !.fs.win[Slot(clst)] = Cell(val), !.fs.wflag = TRUE])

RECURSIVE free_links(_, _)
free_links(m, clst) ==
    LET Count(p) == IF p.fs.free_clst < n_fatent - 2
                    THEN [p EXCEPT !.fs.free_clst = @ + 1,
                                   !.fs.fsi_flag = IF @ = 0 THEN 1 ELSE @]
                    ELSE p
    IN  With(get_fat(m, clst), LAMBDA g :
            CASE g.val = 0 -> Ok(g)
              [] g.val = 1 -> Err(g, "FR_INT_ERR")
              [] g.val = Bad -> Err(g, "FR_DISK_ERR")
              [] OTHER -> Then(put_fat(g, clst, 0), LAMBDA p :
                              IF g.val < n_fatent THEN free_links(Count(p), g.val)
                              ELSE Ok(Count(p))))

\* mutant: a chain of one cluster is given back uncounted
remove_chain_uncounted(m, clst, pclst) ==
    IF clst \notin Clusters THEN Err(m, "FR_INT_ERR")
    ELSE Then(IF pclst = 0 THEN Ok(m) ELSE put_fat(m, pclst, EOC), LAMBDA p :
         With(get_fat(p, clst), LAMBDA g :
            IF g.val = EOC THEN put_fat(g, clst, 0) ELSE free_links(p, clst)))

remove_chain(m, clst, pclst) ==
    IF clst \notin Clusters THEN Err(m, "FR_INT_ERR")
    ELSE Then(IF pclst = 0 THEN Ok(m) ELSE put_fat(m, pclst, EOC), LAMBDA p : free_links(p, clst))

\* the search for a free cluster after ncl that gives up back at scl;
\* val is the free cluster, 0 when there is none, 1 or Bad on an error
RECURSIVE find_free(_, _, _)
find_free_short(m, scl, ncl) ==   \* mutant: the last cluster is never looked at
    LET n == IF ncl + 1 >= n_fatent - 1 THEN 2 ELSE ncl + 1
    IN  IF ncl + 1 >= n_fatent - 1 /\ n > scl THEN [m EXCEPT !.val = 0]
        ELSE With(get_fat(m, n), LAMBDA g :
                CASE g.val = 0 -> [g EXCEPT !.val = n]
                  [] g.val \in {1, Bad} -> g
                  [] OTHER -> IF n = scl THEN [g EXCEPT !.val = 0] ELSE find_free(g, scl, n))
find_free(m, scl, ncl) ==
    LET n == IF ncl + 1 >= n_fatent THEN 2 ELSE ncl + 1
    IN  IF ncl + 1 >= n_fatent /\ n > scl THEN [m EXCEPT !.val = 0]
        ELSE With(get_fat(m, n), LAMBDA g :
                CASE g.val = 0 -> [g EXCEPT !.val = n]
                  [] g.val \in {1, Bad} -> g
                  [] OTHER -> IF n = scl THEN [g EXCEPT !.val = 0] ELSE find_free(g, scl, n))

\* the new cluster ncl is marked, linked after clst and counted
take_cluster(m, clst, ncl) ==
    With(Then(put_fat(m, ncl, EOC), LAMBDA p : IF clst = 0 THEN p ELSE put_fat(p, clst, ncl)),
         LAMBDA q :
            IF q.res = "FR_OK"
            THEN [q EXCEPT !.fs.last_clst = ncl,
                           !.fs.free_clst = IF @ <= n_fatent - 2 THEN @ - 1 ELSE @,
                           !.fs.fsi_flag = IF @ = 0 THEN 1 ELSE @,
                           !.val = ncl]
            ELSE [q EXCEPT !.val = IF q.res = "FR_DISK_ERR" THEN Bad ELSE 1])

\* val: 0 no free cluster, 1 internal error, Bad disk error, or the cluster
create_chain(m, clst) ==
    LET last  == m.fs.last_clst
        start == IF last = 0 \/ last >= n_fatent THEN 1 ELSE last
        next  == IF clst + 1 >= n_fatent THEN 2 ELSE clst + 1
        from  == IF last \in Clusters THEN last ELSE clst
        Take(x) == IF x.val \in Clusters THEN take_cluster(x, clst, x.val) ELSE x
    IN  IF clst = 0
        THEN IF m.fs.free_clst = 0 THEN [m EXCEPT !.val = 0] ELSE Take(find_free(m, start, start))
        ELSE With(get_fat(m, clst), LAMBDA s :
                CASE s.val < 2 -> [s EXCEPT !.val = 1]
                  [] s.val = Bad \/ s.val \in Clusters -> s
                  [] OTHER -> IF s.fs.free_clst = 0 THEN [s EXCEPT !.val = 0]
                              ELSE With(get_fat(s, next), LAMBDA t :
                                      CASE t.val \in {1, Bad} -> t
                                        [] t.val = 0 -> take_cluster(t, clst, next)
                                        [] OTHER -> Take(find_free(t, from, from))))

-----------------------------------------------------------------------------
(* Directories.  A DIR object d is [sclust, dptr, clust, sect, attr, none]: the first
   cluster of the directory (0: the root), the entry it is at, that entry's
   cluster and sector (0: past the end), the attribute of the entry, and
   whether the path was empty (NS_NONAME).  The functions return it in m.dp. *)

Dir(sclust) ==
    [sclust |-> sclust, dptr |-> 0, clust |-> 0, sect |-> 0, attr |-> 0, none |-> FALSE]

Entry(m, d) == m.fs.win[Slot(d.dptr)]

RECURSIVE zero_sectors(_, _, _)
zero_sectors(m, sect, n) ==
    IF n = 0 THEN Ok(m)
    ELSE Then(disk_write(m, m.fs.win, sect), LAMBDA w : zero_sectors(w, sect + 1, n - 1))

dir_clear(m, clst) ==
    Then(sync_window(m), LAMBDA s :
        LET sect == clst2sect(s.fs.vol, clst)
        IN  zero_sectors([s EXCEPT !.fs.winsect = sect, !.fs.win = ZeroSector], sect, csize))

RECURSIVE dir_follow(_, _, _, _)
dir_follow(m, d, clst, ofs) ==
    IF ofs < csize * SS
    THEN [Ok(m) EXCEPT !.dp = [d EXCEPT !.clust = clst,
                                        !.sect = clst2sect(m.fs.vol, clst) + ofs \div SS]]
    ELSE With(get_fat(m, clst), LAMBDA g :
            CASE g.val = Bad -> Err(g, "FR_DISK_ERR")
              [] g.val \in Clusters -> dir_follow(g, d, g.val, ofs - csize * SS)
              [] OTHER -> Err(g, "FR_INT_ERR"))

dir_sdi(m, d, ofs) ==
    LET vol  == m.fs.vol
        clst == TableClust(vol, d.sclust)
        e    == [d EXCEPT !.dptr = ofs]
    IN  CASE ofs >= MAX_DIR \/ (clst = 0 /\ ofs >= vol.n_rootdir) -> Err(m, "FR_INT_ERR")
          [] OTHER ->
             CASE clst = 0 -> [Ok(m) EXCEPT !.dp = [e EXCEPT !.clust = 0,
                                                            !.sect = vol.dirbase + ofs \div SS]]
               [] clst \in Clusters -> dir_follow(m, e, clst, ofs)
               [] OTHER -> Err(m, "FR_INT_ERR")

dir_next(m, d, stretch) ==
    LET ofs == d.dptr + 1
        Enter(x, clst) ==
            [Ok(x) EXCEPT !.dp = [d EXCEPT !.clust = clst, !.sect = clst2sect(x.fs.vol, clst),
                                           !.dptr = ofs]]
        End(x) == [Err(x, "FR_NO_FILE") EXCEPT !.dp = [d EXCEPT !.sect = 0]]
    IN  IF ofs >= MAX_DIR \/ d.sect = 0 THEN End(m)
        ELSE IF ofs % SS # 0 THEN [Ok(m) EXCEPT !.dp = [d EXCEPT !.dptr = ofs]]
        ELSE IF d.clust = 0 /\ ofs >= m.fs.vol.n_rootdir THEN End(m)
        ELSE IF d.clust = 0 \/ ofs % (SS * csize) # 0
        THEN [Ok(m) EXCEPT !.dp = [d EXCEPT !.dptr = ofs, !.sect = @ + 1]]
        ELSE With(get_fat(m, d.clust), LAMBDA g :
                CASE g.val <= 1 -> Err(g, "FR_INT_ERR")
                  [] g.val = Bad -> Err(g, "FR_DISK_ERR")
                  [] g.val \in Clusters -> Enter(g, g.val)
                  [] OTHER ->
                        IF ~stretch THEN End(g)
                        ELSE Chained(create_chain(g, d.clust), LAMBDA c :
                             Then(dir_clear(c, c.val), LAMBDA z : Enter(z, c.val))))

RECURSIVE alloc_from(_, _)
alloc_from(m, d) ==
    Then(move_window(m, d.sect), LAMBDA w :
        IF Entry(w, d)[1] \in {DDEM, 0} THEN [w EXCEPT !.dp = d]
        ELSE With(dir_next(w, d, TRUE), LAMBDA n :
                CASE n.res = "FR_OK" -> alloc_from(n, n.dp)
                  [] n.res = "FR_NO_FILE" -> Err(n, "FR_DENIED")
                  [] OTHER -> n))

dir_alloc(m, d) == Then(dir_sdi(m, d, 0), LAMBDA s : alloc_from(s, s.dp))

RECURSIVE find_from(_, _, _)
find_from(m, d, name) ==
    With(move_window(m, d.sect), LAMBDA w :
        LET e == Entry(w, d)
            f == [d EXCEPT !.attr = e[2]]
        IN  IF w.res # "FR_OK" THEN [w EXCEPT !.dp = d]
            ELSE IF e[1] = 0 THEN [Err(w, "FR_NO_FILE") EXCEPT !.dp = d]
            ELSE IF e[1] = name THEN [w EXCEPT !.dp = f]
            ELSE Then(dir_next(w, f, FALSE), LAMBDA n : find_from(n, n.dp, name)))

dir_find(m, d, name) == Then(dir_sdi(m, d, 0), LAMBDA s : find_from(s, s.dp, name))

RECURSIVE dir_read(_, _)
dir_read(m, d) ==
    LET Stop(x, r) == [Err(x, r) EXCEPT !.dp = [d EXCEPT !.sect = 0]]
    IN  IF d.sect = 0 THEN Stop(m, "FR_NO_FILE")
        ELSE With(move_window(m, d.sect), LAMBDA w :
                LET e == Entry(w, d)
                    f == [d EXCEPT !.attr = e[2]]
                IN  IF w.res # "FR_OK" THEN Stop(w, w.res)
                    ELSE IF e[1] = 0 THEN Stop(w, "FR_NO_FILE")
                    ELSE IF e[1] \notin {DDEM, DOT, DOTDOT} THEN [w EXCEPT !.dp = f]
                    ELSE With(dir_next(w, f, FALSE), LAMBDA n :
                            IF n.res = "FR_OK" THEN dir_read(n, n.dp) ELSE Stop(n, n.res)))

dir_register(m, d, name) ==
    Then(dir_alloc(m, d), LAMBDA a :
    Then(move_window(a, a.dp.sect), LAMBDA w :
        [w EXCEPT !.fs.win[Slot(a.dp.dptr)] = Dirent(name, 0, 0, 0), !.fs.wflag = TRUE]))

dir_remove(m, d) ==
    Then(move_window(m, d.sect), LAMBDA w :
        [w EXCEPT !.fs.win[Slot(d.dptr)][1] = DDEM, !.fs.wflag = TRUE])

RECURSIVE follow_names(_, _, _)
follow_names(m, d, path) ==
    With(dir_find(m, d, path[1]), LAMBDA f :
        IF f.res = "FR_NO_FILE" THEN Err(f, IF Len(path) = 1 THEN "FR_NO_FILE" ELSE "FR_NO_PATH")
        ELSE IF f.res # "FR_OK" \/ Len(path) = 1 THEN f
        ELSE IF f.dp.attr # AM_DIR THEN Err(f, "FR_NO_PATH")
        ELSE follow_names(f, Dir(Entry(f, f.dp)[3]), Tail(path)))

\* a path starts at the root; the empty path is the root itself
follow_path(m, path) ==
    IF path = <<>> THEN [dir_sdi(m, Dir(0), 0) EXCEPT !.dp.none = TRUE]
    ELSE follow_names(m, Dir(0), path)

-----------------------------------------------------------------------------
(* Mounting. *)

NoVolume == [fs_type |-> 0, n_rootdir |-> 0, fatbase |-> 0, dirbase |-> 0, database |-> 0]

Unmounted ==
    [vol |-> NoVolume, win |-> ZeroSector, winsect |-> Bad, wflag |-> FALSE,
     free_clst |-> Bad, last_clst |-> Bad, fsi_flag |-> 128]

\* the partition table leads to the boot record; a partition that cannot be
\* read holds no file system
find_volume(m) ==
    Then(move_window(m, 0), LAMBDA b :
    With(move_window(b, volbase), LAMBDA v :
        IF v.res = "FR_OK" THEN v ELSE Err(v, "FR_NO_FILESYSTEM")))

\* Only a FAT32 volume has an FSInfo sector.  Where there is none, or it is not
\* signed or not readable, the counts stay unknown.
mount_volume(m) ==
    IF m.fs.vol.fs_type # 0 THEN Ok(m)
    ELSE Then(find_volume([m EXCEPT !.fs = Unmounted]), LAMBDA b :
         With([b EXCEPT !.fs.vol = layout(b.fs.win)], LAMBDA v :
            IF v.fs.vol.fs_type # FS_FAT32 THEN v
            ELSE With(move_window(v, volbase + 1), LAMBDA i :
                    CASE i.res # "FR_OK" -> Ok(i)
                      [] i.fs.win[1][2] # FSI -> [i EXCEPT !.fs.fsi_flag = 0]
                      [] OTHER -> [i EXCEPT !.fs.fsi_flag = 0, !.fs.free_clst = i.fs.win[1][1],
                                            !.fs.last_clst = i.fs.win[2][1]])))

-----------------------------------------------------------------------------
(* File objects.  A call on the file object m.fp returns it in m.fp. *)

Closed ==
    [open |-> FALSE, flag |-> {}, err |-> "FR_OK", sclust |-> 0, objsize |-> 0, fptr |-> 0,
     clust |-> 0, sect |-> 0, buf |-> ZeroSector, dir_sect |-> 0, dir_ptr |-> 0]

\* ABORT: the file object refuses every later read, write and seek
Abort(m, r) == [Err(m, r) EXCEPT !.fp.err = r]
\* ... as it does when a transfer fails
OrAbort(m, F(_)) == IF m.res = "FR_OK" THEN F(m) ELSE Abort(m, "FR_DISK_ERR")

validate(m) == IF m.fp.open /\ m.fs.vol.fs_type # 0 THEN Ok(m) ELSE Err(m, "FR_INVALID_OBJECT")

\* the file object may be used at all, and for the access
usable(m, access) ==
    Then(validate(m), LAMBDA v :
        IF m.fp.err # "FR_OK" THEN Err(m, m.fp.err)
        ELSE IF access \notin m.fp.flag THEN Err(m, "FR_DENIED")
        ELSE v)

\* write the dirty sector buffer back
flush_buf(m) ==
    IF "DIRTY" \notin m.fp.flag THEN Ok(m)
    ELSE Then(disk_write(m, m.fp.buf, m.fp.sect), LAMBDA w : [w EXCEPT !.fp.flag = @ \ {"DIRTY"}])

\* mutant: the chain is freed first, and the entry keeps it when that fails
overwrite_late(m, d) ==
    LET cl == Entry(m, d)[3]
        E(x) == [x EXCEPT !.fs.win[Slot(d.dptr)] = Dirent(@[1], AM_ARC, 0, 0), !.fs.wflag = TRUE]
    IN  IF cl = 0 THEN Ok(E(m))
        ELSE Then(remove_chain(m, cl, 0), LAMBDA r :
             Then(move_window(r, m.fs.winsect), LAMBDA w : [E(w) EXCEPT !.fs.last_clst = cl - 1]))

\* the entry is reset before the chain it named is freed
overwrite(m, d) ==
    LET cl == Entry(m, d)[3]
        e  == [m EXCEPT !.fs.win[Slot(d.dptr)] = Dirent(@[1], AM_ARC, 0, 0), !.fs.wflag = TRUE]
    IN  IF cl = 0 THEN Ok(e)
        ELSE Then(remove_chain(e, cl, 0), LAMBDA r :
                [move_window(r, m.fs.winsect) EXCEPT !.fs.last_clst = cl - 1])

\* FA_OPEN_APPEND: follow the chain to the cluster of the end of the file
RECURSIVE seek_end(_, _, _)
seek_end(m, clst, ofs) ==
    LET a    == [Ok(m) EXCEPT !.fp.clust = clst]
        sect == clst2sect(m.fs.vol, clst) + ofs \div SS
    IN  IF ofs > csize * SS
        THEN With(get_fat(m, clst), LAMBDA g :
                CASE g.val <= 1 -> Err(g, "FR_INT_ERR")
                  [] g.val = Bad -> Err(g, "FR_DISK_ERR")
                  [] OTHER -> seek_end(g, g.val, ofs - csize * SS))
        ELSE IF ofs % SS = 0 THEN a
        ELSE IF clst \notin Clusters THEN Err(a, "FR_INT_ERR")
        ELSE Then(disk_read([a EXCEPT !.fp.sect = sect]), LAMBDA r :
                [r EXCEPT !.fp.buf = r.disk[sect]])

f_open(m, path, mode) ==
    LET creates == mode \cap {"CREATE_ALWAYS", "OPEN_ALWAYS", "CREATE_NEW"} # {}
        Named(f) == IF f.res = "FR_OK" /\ f.dp.none THEN Err(f, "FR_INVALID_NAME") ELSE f
        Have(f) ==   \* the entry that was looked for, or a new one
            IF creates /\ f.res = "FR_NO_FILE" THEN dir_register(f, f.dp, path[Len(path)])
            ELSE IF f.res # "FR_OK" THEN f
            ELSE IF f.dp.attr = AM_DIR THEN Err(f, IF creates THEN "FR_DENIED" ELSE "FR_NO_FILE")
            ELSE IF "CREATE_NEW" \in mode THEN Err(f, "FR_EXIST") ELSE f
        Attach(e, d, fresh) ==
            LET o == [e EXCEPT !.fp = [Closed EXCEPT
                        !.open = TRUE,
                        !.flag = (mode \cap {"READ", "WRITE"}) \cup (IF fresh THEN {"MODIFIED"} ELSE {}),
                        !.dir_sect = e.fs.winsect, !.dir_ptr = Slot(d.dptr),
                        !.sclust = Entry(e, d)[3], !.objsize = Entry(e, d)[4]]]
            IN  IF "SEEKEND" \in mode /\ o.fp.objsize > 0
                THEN seek_end([o EXCEPT !.fp.fptr = o.fp.objsize], o.fp.sclust, o.fp.objsize) ELSE o
    IN  With(Then(mount_volume(m), LAMBDA v :
             With(Named(follow_path(v, path)), LAMBDA f :
                LET fresh == creates /\ (f.res # "FR_OK" \/ "CREATE_ALWAYS" \in mode)
                IN  Then(Have(f), LAMBDA h :
                    Then(IF fresh THEN overwrite(h, h.dp) ELSE h, LAMBDA e :
                        Attach(e, h.dp, fresh))))),
             LAMBDA done : IF done.res = "FR_OK" THEN done ELSE [done EXCEPT !.fp = Closed])

-----------------------------------------------------------------------------
(* Reading and writing.  m.data is what was read so far; m.n is the number of bytes
   written so far. *)

\* the sectors of the cluster that one transfer of at most n bytes covers
direct(m, n) ==
    LET csect == (m.fp.fptr \div SS) % csize
        cc    == n \div SS
    IN  IF csect + cc > csize THEN csize - csect ELSE cc

RECURSIVE read_loop(_, _)
read_loop(m, btr) ==
    LET fp    == m.fp
        csect == (fp.fptr \div SS) % csize
        cc    == direct(m, btr)
        Copy(x) == LET left == SS - (x.fp.fptr % SS)
                       n    == IF left > btr THEN btr ELSE left
                       from == (x.fp.fptr % SS) + 1
                   IN  read_loop([x EXCEPT !.data = @ \o SubSeq(x.fp.buf, from, from + n - 1),
                                           !.fp.fptr = @ + n], btr - n)
        \* whole sectors go straight to the caller, the dirty buffer over them
        Burst(r, sect) ==
            LET Sect(s) == IF "DIRTY" \in fp.flag /\ fp.sect = s THEN fp.buf ELSE r.disk[s]
                bytes   == [i \in 1 .. cc * SS |-> Sect(sect + (i - 1) \div SS)[((i - 1) % SS) + 1]]
            IN  read_loop([r EXCEPT !.data = @ \o bytes, !.fp.fptr = @ + cc * SS], btr - cc * SS)
        From(c, sect) ==
            IF cc > 0 THEN OrAbort(disk_read(c), LAMBDA r : Burst(r, sect))
            ELSE IF fp.sect = sect THEN Copy(Ok(c))
            ELSE OrAbort(flush_buf(c), LAMBDA b :
                 OrAbort(disk_read(b), LAMBDA l :
                    Copy([l EXCEPT !.fp.sect = sect, !.fp.buf = l.disk[sect]])))
    IN  IF btr = 0 THEN Ok(m)
        ELSE IF fp.fptr % SS # 0 THEN Copy(m)
        ELSE With(IF csect # 0 THEN [m EXCEPT !.val = fp.clust]
                  ELSE IF fp.fptr = 0 THEN [m EXCEPT !.val = fp.sclust]
                  ELSE get_fat(m, fp.clust), LAMBDA g :
                CASE g.val < 2 -> Abort(g, "FR_INT_ERR")
                  [] g.val = Bad -> Abort(g, "FR_DISK_ERR")
                  [] g.val \in Clusters ->
                        From([g EXCEPT !.fp.clust = g.val], clst2sect(g.fs.vol, g.val) + csect)
                  [] OTHER -> Abort([g EXCEPT !.fp.clust = g.val], "FR_INT_ERR"))

f_read(m, btr) ==
    Then(usable([m EXCEPT !.data = <<>>], "READ"), LAMBDA u :
        LET remain == m.fp.objsize - m.fp.fptr
        IN  read_loop(u, IF btr > remain THEN remain ELSE btr))

RECURSIVE write_loop(_, _)
write_loop(m, wbuff) ==
    LET fp    == m.fp
        btw   == Len(wbuff)
        csect == (fp.fptr \div SS) % csize
        cc    == direct(m, btw)
        Advance(x, n) ==
            write_loop([x EXCEPT !.n = @ + n, !.fp.fptr = @ + n,
                                 !.fp.objsize = IF x.fp.fptr + n > @ THEN x.fp.fptr + n ELSE @],
                       SubSeq(wbuff, n + 1, btw))
        Copy(x) ==
            LET at   == x.fp.fptr % SS
                n    == IF SS - at > btw THEN btw ELSE SS - at
            IN  Advance([x EXCEPT !.fp.flag = @ \cup {"DIRTY"},
                                  !.fp.buf = SubSeq(@, 1, at) \o SubSeq(wbuff, 1, n)
                                                \o SubSeq(@, at + n + 1, SS)], n)
        \* whole sectors come straight from the caller, and refresh the buffer
        Burst(w, sect) ==
            LET k == fp.sect - sect
            IN  Advance(IF k \in 0 .. cc - 1
                        THEN [w EXCEPT !.fp.buf = SubSeq(wbuff, k * SS + 1, (k + 1) * SS),
                                       !.fp.flag = @ \ {"DIRTY"}]
                        ELSE w, cc * SS)
        Into(b, sect) ==
            IF cc > 0
            THEN OrAbort(disk_write(b, SubSeq(wbuff, 1, cc * SS), sect), LAMBDA w : Burst(w, sect))
            ELSE IF fp.sect # sect /\ fp.fptr < fp.objsize
            THEN OrAbort(disk_read(b), LAMBDA l :
                    Copy([l EXCEPT !.fp.sect = sect, !.fp.buf = l.disk[sect]]))
            ELSE Copy([b EXCEPT !.fp.sect = sect])
        Done(x) == [Ok(x) EXCEPT !.fp.flag = @ \cup {"MODIFIED"}]
    IN  IF btw = 0 THEN Done(m)
        ELSE IF fp.fptr % SS # 0 THEN Copy(m)
        ELSE With(IF csect # 0 THEN [m EXCEPT !.val = fp.clust]
                  ELSE IF fp.fptr = 0 /\ fp.sclust # 0 THEN [m EXCEPT !.val = fp.sclust]
                  ELSE create_chain(m, IF fp.fptr = 0 THEN 0 ELSE fp.clust), LAMBDA g :
                CASE g.val = 0 -> Done(g)
                  [] g.val = 1 -> Abort(g, "FR_INT_ERR")
                  [] g.val = Bad -> Abort(g, "FR_DISK_ERR")
                  [] OTHER ->
                        OrAbort(flush_buf([g EXCEPT !.fp.clust = g.val,
                                                    !.fp.sclust = IF @ = 0 THEN g.val ELSE @]),
                            LAMBDA b : IF g.val \notin Clusters THEN Abort(b, "FR_INT_ERR")
                                       ELSE Into(b, clst2sect(b.fs.vol, g.val) + csect)))

f_write(m, buff) ==
    Then(usable([m EXCEPT !.n = 0], "WRITE"), LAMBDA u : write_loop(u, buff))

f_sync_bufferless(m) ==   \* mutant: the sector buffer stays where it is
    Then(validate(m), LAMBDA v :
        IF "MODIFIED" \notin m.fp.flag THEN v
        ELSE Then(move_window(v, m.fp.dir_sect), LAMBDA w :
                [sync_fs([w EXCEPT !.fs.win[m.fp.dir_ptr] = Dirent(@[1], AM_ARC, m.fp.sclust, m.fp.objsize),
                                   !.fs.wflag = TRUE])
                    EXCEPT !.fp.flag = @ \ {"MODIFIED"}]))

f_sync(m) ==
    Then(validate(m), LAMBDA v :
        IF "MODIFIED" \notin m.fp.flag THEN v
        ELSE Then(flush_buf(v), LAMBDA b :
             Then(move_window(b, m.fp.dir_sect), LAMBDA w :
                [sync_fs([w EXCEPT !.fs.win[m.fp.dir_ptr] = Dirent(@[1], AM_ARC, m.fp.sclust, m.fp.objsize),
                                   !.fs.wflag = TRUE])
                    EXCEPT !.fp.flag = @ \ {"MODIFIED"}])))

f_close(m) == Then(f_sync(m), LAMBDA s : [s EXCEPT !.fp = Closed])

-----------------------------------------------------------------------------
(* Seeking. *)

\* the cluster following loop: ofs bytes on from fptr, which is in clst
RECURSIVE seek_on(_, _, _)
seek_on(m, clst, ofs) ==
    LET bcs    == csize * SS
        writes == "WRITE" \in m.fp.flag
        a      == [m EXCEPT !.fp.fptr = @ + bcs]
        Arrive(x, c, n) ==
            LET y == [Ok(x) EXCEPT !.fp.fptr = @ + n]
            IN  IF n % SS = 0 THEN [y EXCEPT !.val = 0]
                ELSE IF c \notin Clusters THEN Abort(y, "FR_INT_ERR")
                ELSE [y EXCEPT !.val = clst2sect(x.fs.vol, c) + n \div SS]
    IN  IF ofs <= bcs THEN Arrive(m, clst, ofs)
        ELSE With(IF writes THEN create_chain(a, clst) ELSE get_fat(a, clst), LAMBDA g :
                CASE writes /\ g.val = 0 -> Arrive(g, 0, 0)
                  [] g.val = Bad -> Abort(g, "FR_DISK_ERR")
                  [] g.val \in Clusters -> seek_on([g EXCEPT !.fp.clust = g.val], g.val, ofs - bcs)
                  [] OTHER -> Abort(g, "FR_INT_ERR"))

f_lseek(m, offset) ==
    LET fp    == m.fp
        ofs   == IF offset > fp.objsize /\ "WRITE" \notin fp.flag THEN fp.objsize ELSE offset
        bcs   == csize * SS
        base  == ((fp.fptr - 1) \div bcs) * bcs
        top   == [Ok(m) EXCEPT !.fp.fptr = 0, !.val = 0]
        First(c) == [c EXCEPT !.fp.sclust = c.val, !.fp.clust = c.val]
        Grow(x) == IF x.fp.fptr > x.fp.objsize
                   THEN [x EXCEPT !.fp.objsize = x.fp.fptr, !.fp.flag = @ \cup {"MODIFIED"}]
                   ELSE x
        Follow ==
            IF ofs = 0 THEN top
            ELSE IF fp.fptr > 0 /\ (ofs - 1) \div bcs >= (fp.fptr - 1) \div bcs
            THEN seek_on([top EXCEPT !.fp.fptr = base], fp.clust, ofs - base)
            ELSE With(IF fp.sclust = 0 THEN create_chain(top, 0) ELSE [top EXCEPT !.val = fp.sclust],
                      LAMBDA c :
                        CASE c.val = 1 -> Abort(c, "FR_INT_ERR")
                          [] c.val = Bad -> Abort(c, "FR_DISK_ERR")
                          [] c.val = 0 -> Ok(First(c))
                          [] OTHER -> seek_on(First(c), c.val, ofs))
        Load(x) ==   \* the sector of the new position, when it is inside one
            IF x.fp.fptr % SS = 0 \/ x.val = x.fp.sect THEN Ok(x)
            ELSE OrAbort(flush_buf(x), LAMBDA b :
                 OrAbort(disk_read(b), LAMBDA r :
                    [r EXCEPT !.fp.sect = r.val, !.fp.buf = r.disk[r.val]]))
    IN  Then(validate(m), LAMBDA v :
            IF fp.err # "FR_OK" THEN Err(v, fp.err)
            ELSE Then(Follow, LAMBDA at : Load(Grow(at))))

-----------------------------------------------------------------------------
(* Removing files and making directories. *)

f_unlink(m, path) ==
    LET Empty(f, dclst) ==
            Then(dir_sdi(f, Dir(dclst), 0), LAMBDA s :
            With(dir_read(s, s.dp), LAMBDA sub :
                CASE sub.res = "FR_OK" -> Err(sub, "FR_DENIED")
                  [] sub.res = "FR_NO_FILE" -> Ok(sub)
                  [] OTHER -> sub))
    IN  Then(mount_volume(m), LAMBDA v :
        Then(follow_path(v, path), LAMBDA f :
            LET dclst == Entry(f, f.dp)[3]
            IN  Then(IF f.dp.attr = AM_DIR THEN Empty(f, dclst) ELSE f, LAMBDA may :
                Then(dir_remove(may, f.dp), LAMBDA d :
                Then(IF dclst = 0 THEN d ELSE remove_chain(d, dclst, 0), LAMBDA r :
                    sync_fs(r))))))

f_mkdir(m, path) ==
    LET Dots(z, clst, parent) ==
            [z EXCEPT !.fs.win[1] = Dirent(DOT, AM_DIR, clst, 0),
                      !.fs.win[2] = Dirent(DOTDOT, AM_DIR, parent, 0),
                      !.fs.wflag = TRUE]
        Name(r, clst) ==
            [r EXCEPT !.fs.win[Slot(r.dp.dptr)] = Dirent(@[1], AM_DIR, clst, 0), !.fs.wflag = TRUE]
    IN  Then(mount_volume(m), LAMBDA v :
        With(follow_path(v, path), LAMBDA f :
            CASE f.res = "FR_OK" -> Err(f, "FR_EXIST")
              [] f.res = "FR_NO_FILE" ->
                    Chained(create_chain(f, 0), LAMBDA c :
                    With(Then(dir_clear(c, c.val), LAMBDA z :
                            dir_register(Dots(z, c.val, f.dp.sclust), f.dp, path[Len(path)])),
                         LAMBDA r : IF r.res = "FR_OK" THEN sync_fs(Name(r, c.val))
                                    ELSE Err(remove_chain(r, c.val, 0), r.res)))
              [] OTHER -> f))

-----------------------------------------------------------------------------
(* The system: callers use the file objects, one call at a time. *)

VARIABLES
    disk,      \* the sectors of the drive
    fs,        \* the FATFS object
    fil,       \* the file objects
    ret,       \* the last call: what was asked and what it answered
    durable,   \* history: the files whose content a power failure must not change
    seen,      \* derived: the files, as the library would read them (Look)
    calls,     \* calls made
    faults,    \* calls in which the disk failed
    crashes    \* calls in which the power failed

vars == <<disk, fs, fil, ret, durable, seen, calls, faults, crashes>>

NoFault == [at |-> 0, ever |-> FALSE, part |-> 0]

Machine(fp, fault) ==
    [disk |-> disk, fs |-> fs, fp |-> fp, fault |-> fault, io |-> 0, most |-> 1, res |-> "FR_OK",
     val |-> 0, dp |-> Dir(0), data |-> <<>>, n |-> 0]

Answer(op, arg, m) ==
    [op |-> op, arg |-> arg, res |-> m.res, data |-> m.data, n |-> m.n]

\* What f_mkfs leaves: the boot record, for FAT32 the FSInfo sector, the FAT, an
\* empty root directory, static or in cluster 2; data clusters hold old bytes.
Formatted(fs_type) ==
    LET vbr == [ZeroSector EXCEPT ![1] = IF fs_type = FS_FAT32 THEN <<2, 0, 0, 0>>
                                         ELSE <<1, n_root, 0, 0>>]
        vol == layout(vbr)
        fat == vol.fatbase
        marked == 0 .. (IF fs_type = FS_FAT32 THEN 2 ELSE 1)
        cleared == fat + fsize .. vol.database - 1 + (IF fs_type = FS_FAT32 THEN csize ELSE 0)
    IN  [s \in Sectors |->
            CASE s = volbase -> vbr
              [] s = volbase + 1 /\ fs_type = FS_FAT32 -> FSInfo(n_fatent - 3, 2)
              [] s \in fat .. fat + fsize - 1 ->
                    [i \in 1 .. SS |-> IF (s - fat) * SS + i - 1 \in marked THEN Cell(EOC) ELSE Zero]
              [] s = 0 \/ s \in cleared -> ZeroSector
              [] OTHER -> [i \in 1 .. SS |-> Cell(OldByte)]]

\* The call Op on the file object fp: it runs to its end, whatever transfer fails;
\* whole is the run in which none does
OutcomesOf(whole, fp, Op(_), fates) ==
    {[m |-> whole, failed |-> FALSE]}
    \cup {[m |-> Op(Machine(fp, [at |-> at, ever |-> ever, part |-> part])), failed |-> TRUE] :
            at \in 1 .. whole.io, ever \in fates, part \in 0 .. whole.most - 1}

Outcomes(fp, Op(_), fates) == OutcomesOf(Op(Machine(fp, NoFault)), fp, Op, fates)

Ends(op, arg, fp, Op(_), Return(_)) ==
    \E o \in Outcomes(fp, Op, IF faults + crashes < MaxMishaps THEN BOOLEAN ELSE {}) :
        /\ faults' = IF o.failed THEN faults + 1 ELSE faults
        /\ disk' = o.m.disk
        /\ fs' = o.m.fs
        /\ ret' = Answer(op, arg, o.m)
        /\ Return(o.m)
        /\ UNCHANGED crashes

\* ... or the power goes at one of its transfers, and memory with it; the call
\* was about to change the files of at_risk
Dies(fp, Op(_), at_risk) ==
    /\ faults + crashes < MaxMishaps
    /\ \E o \in Outcomes(fp, Op, {TRUE}) :
        /\ o.failed
        /\ crashes' = crashes + 1
        /\ disk' = o.m.disk
        /\ fs' = Unmounted
        /\ fil' = [f \in Fils |-> Closed]
        /\ ret' = [op |-> "crash", arg |-> <<at_risk>>, res |-> "FR_OK", data |-> <<>>, n |-> 0]
        /\ durable' = Paths
        /\ UNCHANGED faults

-----------------------------------------------------------------------------
(* What the volume holds, as the library would read it: the window stands for its
   sector, and an open file object for the entry and the sector it has not written. *)

View(v, s) == IF s = v.fs.winsect THEN v.fs.win ELSE v.disk[s]
Vol(v) == layout(v.disk[volbase])
FatEntry(v, c) == View(v, Vol(v).fatbase + c \div SS)[Slot(c)][1]
FreeClusters(v) == {c \in Clusters : FatEntry(v, c) = 0}

\* the clusters from c on; <<>> for a file without clusters.  A chain that
\* leaves the clusters or comes back to itself ends in Bad.
RECURSIVE ChainFrom(_, _, _)
ChainFrom(v, c, past) ==
    CASE c = EOC -> <<>>
      [] c \in Clusters \ past -> <<c>> \o ChainFrom(v, FatEntry(v, c), past \cup {c})
      [] OTHER -> <<Bad>>

Chain(v, c) == IF c = 0 THEN <<>> ELSE ChainFrom(v, c, {})

\* the sectors of a directory
Table(v, sclust) ==
    LET vol   == Vol(v)
        chain == Chain(v, TableClust(vol, sclust))
    IN  IF TableClust(vol, sclust) = 0
        THEN [i \in 1 .. vol.n_rootdir \div SS |-> vol.dirbase + i - 1]
        ELSE [i \in 1 .. Len(chain) * csize |->
                clst2sect(vol, chain[(i - 1) \div csize + 1]) + ((i - 1) % csize)]

\* the entries of a directory, [sect, slot, cell] each, up to the end mark
RECURSIVE UpToEnd(_, _, _)
UpToEnd(v, table, k) ==
    LET sect == table[k \div SS + 1]
        e    == [sect |-> sect, slot |-> Slot(k), cell |-> View(v, sect)[Slot(k)]]
    IN  IF k = Len(table) * SS \/ e.cell[1] = 0 THEN {}
        ELSE {e} \cup UpToEnd(v, table, k + 1)

Entries(v, sclust) ==
    {e \in UpToEnd(v, Table(v, sclust), 0) : e.cell[1] \notin {DDEM, DOT, DOTDOT}}

\* the entries of the files a path names: at most one
RECURSIVE Find(_, _, _)
Find(v, sclust, path) ==
    LET here == {e \in Entries(v, sclust) : e.cell[1] = path[1]}
    IN  IF Len(path) = 1 THEN {e \in here : e.cell[2] # AM_DIR}
        ELSE UNION {Find(v, e.cell[3], Tail(path)) : e \in {h \in here : h.cell[2] = AM_DIR}}

Holders(v, e) == {f \in Fils : v.fil[f].open /\ v.fil[f].dir_sect = e.sect /\ v.fil[f].dir_ptr = e.slot}

\* the file object that speaks for an entry, or one made from it
Object(v, e) ==
    LET hs == Holders(v, e)
    IN  IF hs # {} THEN v.fil[CHOOSE f \in hs : TRUE]
        ELSE [Closed EXCEPT !.sclust = e.cell[3], !.objsize = e.cell[4]]

\* a byte beyond the clusters of the file is Bad
Content(v, obj) ==
    LET chain == Chain(v, obj.sclust)
        size  == csize * SS
        Sect(s) == IF "DIRTY" \in obj.flag /\ obj.sect = s THEN obj.buf ELSE v.disk[s]
    IN  [i \in 1 .. obj.objsize |->
            LET k == (i - 1) \div size + 1
                r == (i - 1) % size
            IN  IF k > Len(chain) \/ chain[k] = Bad THEN Bad
                ELSE Sect(clst2sect(Vol(v), chain[k]) + r \div SS)[Slot(r)][1]]

Look(v) ==
    LET found == [p \in Paths |-> Find(v, 0, p)]
    IN  [files |-> {p \in Paths : found[p] # {}},
         data  |-> [p \in Paths |-> IF found[p] = {} THEN <<>>
                                    ELSE Content(v, Object(v, CHOOSE e \in found[p] : TRUE))],
         fd    |-> [f \in Fils |->
                      [on |-> {p \in Paths : \E e \in found[p] : f \in Holders(v, e)},
                       pos |-> v.fil[f].fptr, unsaved |-> "MODIFIED" \in v.fil[f].flag,
                       failed |-> v.fil[f].err # "FR_OK"]]]

Volume == [disk |-> disk, fs |-> fs, fil |-> fil]
PathOf(f) == seen.fd[f].on
OpenOn(path) == {f \in Fils : path \in PathOf(f)}

-----------------------------------------------------------------------------
(* The calls. *)

Init ==
    /\ disk \in Volumes
    /\ fs = Unmounted
    /\ fil = [f \in Fils |-> Closed]
    /\ ret = [op |-> "none", arg |-> <<>>, res |-> "FR_OK", data |-> <<>>, n |-> 0]
    /\ durable = Paths
    /\ seen = Look(Volume)
    /\ calls = 0 /\ faults = 0 /\ crashes = 0

Keep(f, m) == fil' = [fil EXCEPT ![f] = m.fp]

\* A file is opened by one file object at a time, or by readers only: with
\* FF_FS_LOCK 0 the library leaves that to its callers (ffconf.h).
Shareable(path, mode) ==
    \A g \in OpenOn(path) : mode = {"READ"} /\ fil[g].flag = {"READ"}

Open(f, path, mode) ==
    LET Op(m) == f_open(m, path, mode)
    IN  /\ ~fil[f].open
        /\ Shareable(path, mode)
        /\ \/ Ends("open", <<path, mode>>, Closed, Op,
                   LAMBDA m : /\ Keep(f, m)
                              /\ durable' = IF mode = {"READ"} THEN durable ELSE durable \ {path})
           \/ Dies(Closed, Op, IF mode = {"READ"} THEN {} ELSE {path})

Read(f, n) ==
    LET Op(m) == f_read(m, n)
    IN  /\ fil[f].open
        /\ \/ Ends("read", <<f, n>>, fil[f], Op, LAMBDA m : Keep(f, m) /\ UNCHANGED durable)
           \/ Dies(fil[f], Op, {})

Write(f, bytes) ==
    LET Op(m) == f_write(m, [i \in 1 .. Len(bytes) |-> Cell(bytes[i])])
    IN  /\ fil[f].open
        /\ \/ Ends("write", <<f, bytes>>, fil[f], Op,
                   LAMBDA m : Keep(f, m) /\ durable' = durable \ PathOf(f))
           \/ Dies(fil[f], Op, PathOf(f))

Lseek(f, ofs) ==
    LET Op(m) == f_lseek(m, ofs)
    IN  /\ fil[f].open
        /\ \/ Ends("lseek", <<f, ofs>>, fil[f], Op,
                   LAMBDA m : /\ Keep(f, m)
                              /\ durable' = IF m.fp.objsize = fil[f].objsize THEN durable
                                            ELSE durable \ PathOf(f))
           \/ Dies(fil[f], Op, {})

Saved(f, m) ==
    durable' = IF m.res = "FR_OK" /\ "MODIFIED" \in fil[f].flag THEN durable \cup PathOf(f)
               ELSE durable

Sync(f) ==
    LET Op(m) == f_sync(m)
    IN  /\ fil[f].open
        /\ \/ Ends("sync", <<f>>, fil[f], Op, LAMBDA m : Keep(f, m) /\ Saved(f, m))
           \/ Dies(fil[f], Op, {})

Close(f) ==
    LET Op(m) == f_close(m)
    IN  /\ fil[f].open
        /\ \/ Ends("close", <<f>>, fil[f], Op, LAMBDA m : Keep(f, m) /\ Saved(f, m))
           \/ Dies(fil[f], Op, {})

Unlink(path) ==
    LET Op(m) == f_unlink(m, path)
    IN  /\ OpenOn(path) = {}
        /\ \/ Ends("unlink", <<path>>, Closed, Op,
                   LAMBDA m : /\ UNCHANGED fil
                              /\ durable' = IF m.res = "FR_OK" THEN durable \cup ({path} \cap Paths)
                                            ELSE durable \ {path})
           \/ Dies(Closed, Op, {path})

Mkdir(path) ==
    LET Op(m) == f_mkdir(m, path)
    IN  \/ Ends("mkdir", <<path>>, Closed, Op, LAMBDA m : UNCHANGED <<fil, durable>>)
        \/ Dies(Closed, Op, {})

\* no two calls write the same byte
FreshByte == OldByte + 1 + calls

Next ==
    /\ calls < MaxCalls
    /\ calls' = calls + 1
    /\ \/ \E f \in Fils :
            \/ \E p \in Paths, mode \in Modes : Open(f, p, mode)
            \/ \E n \in Lengths : Read(f, n)
            \/ \E n \in Lengths : Write(f, [i \in 1 .. n |-> FreshByte])
            \/ \E o \in Offsets : Lseek(f, o)
            \/ Sync(f)
            \/ Close(f)
       \/ \E p \in Doomed : Unlink(p)
       \/ \E p \in Dirs : Mkdir(p)
    /\ seen' = Look([disk |-> disk', fs |-> fs', fil |-> fil'])

Spec == Init /\ [][Next]_vars

-----------------------------------------------------------------------------
(* Properties *)

\* The library's answers carry cells; a caller sees their bytes.
Shown == [ret EXCEPT !.data = [i \in DOMAIN ret.data |-> ret.data[i][1]]]

Store == INSTANCE FileStore WITH files <- seen.files, data <- seen.data, fd <- seen.fd, ret <- Shown

\* The library implements the file store: a read gives what was written, a call
\* touches no file but its own even when the disk fails in it, and a power
\* failure at any transfer leaves every saved file as it was.
FatIsFileStore == Store!Spec

\* the chains in use: of the directory sclust, of its files as their objects
\* have them, and of everything below
RECURSIVE ChainsUnder(_, _)
ChainsUnder(v, sclust) ==
    LET es == Entries(v, sclust)
    IN  {Chain(v, TableClust(Vol(v), sclust))}
        \cup {Chain(v, Object(v, e).sclust) : e \in {x \in es : x.cell[2] # AM_DIR}}
        \cup UNION {ChainsUnder(v, e.cell[3]) : e \in {x \in es : x.cell[2] = AM_DIR}}

ClustersOf(chain) == {chain[i] : i \in 1 .. Len(chain)}

\* No cluster belongs to two files or directories, and every chain runs through
\* allocated clusters to an end mark: whatever transfer failed in whatever call,
\* and after a power failure at any transfer.
ChainsApart ==
    LET chains == ChainsUnder(Volume, 0)
    IN  /\ \A c \in chains : Bad \notin ClustersOf(c)
        /\ \A c, d \in chains : c # d => ClustersOf(c) \cap ClustersOf(d) = {}

\* The free-cluster count, where the volume keeps one, never hides space: it
\* counts at least the free clusters until a power failure makes the saved count
\* stale.  While nothing has failed a FAT32 volume that is mounted has an exact
\* count, and on both kinds of volume no allocated cluster is out of every chain.
NoSpaceLost ==
    fs.vol.fs_type # 0 /\ crashes = 0 =>
        /\ fs.free_clst # Bad => fs.free_clst >= Cardinality(FreeClusters(Volume))
        /\ faults = 0 =>
              /\ fs.vol.fs_type = FS_FAT32 => fs.free_clst = Cardinality(FreeClusters(Volume))
              /\ Clusters \ FreeClusters(Volume) =
                    UNION {ClustersOf(c) : c \in ChainsUnder(Volume, 0)}

\* the directory for the last name of path has all the entries it can ever have
RECURSIVE AtLimit(_, _, _)
AtLimit(v, sclust, path) ==
    LET used == {e \in UpToEnd(v, Table(v, sclust), 0) : e.cell[1] # DDEM}
    IN  IF Len(path) = 1
        THEN Cardinality(used) = IF TableClust(Vol(v), sclust) = 0 THEN Vol(v).n_rootdir ELSE MAX_DIR
        ELSE \E e \in used : e.cell[1] = path[1] /\ AtLimit(v, e.cell[3], Tail(path))

\* A write that is cut short means that no cluster is free.  A name that is
\* refused for want of space means that too (a directory refused for want of an
\* entry gives its own cluster back), or that the directory for it has as many
\* entries as a static root, or any directory, may have.  On FAT32 this holds
\* until a power failure makes the saved count stale, on FAT16, where there is no
\* saved count, for ever.
FullMeansFull ==
    [][LET v    == [disk |-> disk', fs |-> fs', fil |-> fil']
           free == Cardinality(FreeClusters(v))
           Refused(op) == ret'.op = op /\ ret'.res = "FR_DENIED"
       IN  crashes' = 0 \/ Vol(v).fs_type = FS_FAT16 =>
             /\ ret'.op = "write" /\ ret'.res = "FR_OK" /\ ret'.n < Len(ret'.arg[2]) => free = 0
             /\ Refused("open") => free = 0 \/ AtLimit(v, 0, ret'.arg[1])
             /\ Refused("mkdir") => free <= 1 \/ AtLimit(v, 0, ret'.arg[1])]_vars

=============================================================================
