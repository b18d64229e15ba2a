------------------------------- MODULE MCFat -------------------------------
EXTENDS Fat, TLC

MCPaths == {<<1>>, <<3, 1>>}
MCDirs == {<<5>>, <<3, 5>>}
MCDoomed == {<<1>>, <<3>>, <<5>>}
MCModes == {{"READ"}, {"READ", "WRITE", "OPEN_ALWAYS", "SEEKEND"}, {"READ", "WRITE", "CREATE_ALWAYS"}}

On(d) ==
    [disk |-> d, fs |-> Unmounted, fp |-> Closed, fault |-> NoFault, io |-> 0, most |-> 1, res |-> "FR_OK",
     val |-> 0, dp |-> Dir(0), data |-> <<>>, n |-> 0]
Written(m, path, bytes) ==
    f_close(f_write(f_open(m, path, {"WRITE", "CREATE_ALWAYS"}), [i \in 1 .. bytes |-> Cell(10 + i)]))
\* the machines after the files <<path, length>> were made
RECURSIVE Made(_, _)
Made(ms, files) ==
    IF files = <<>> THEN ms
    ELSE Made({Written(m, files[1][1], files[1][2]) : m \in ms}, Tail(files))

\* A file of three bytes, a directory and two more files, so that the root has no
\* entry left in its four.
Rooted(fs_type, bytes) ==
    Made({f_mkdir(m, <<3>>) : m \in Made({On(Formatted(fs_type))}, <<<<<<1>>, 3>>>>)},
         <<<<<<2>>, bytes>>, <<<<4>>, 0>>>>)

\* FAT32: the root can grow, and its directory is one entry from MAX_DIR.
\* FAT16: the root cannot, and its directory has no entry left in its one cluster.
Named(names) == [i \in DOMAIN names |-> <<<<3, names[i]>>, 0>>]
MCVolumes ==
    {m.disk : m \in Made(Rooted(FS_FAT32, 0), Named(<<2, 4, 6, 7, 8>>))
                    \cup Made(Rooted(FS_FAT16, 5), Named(<<2, 4>>))}

\* the last answer decides nothing that follows
State == <<disk, fs, fil, durable, calls, faults, crashes>>

Symmetry == Permutations(Fils)
=============================================================================
