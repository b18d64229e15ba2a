----------------------------- MODULE FileStore -----------------------------
(***************************************************************************)
(* What the file system promises its callers, whatever transfer of the     *)
(* disk fails and whenever the power goes: a file is a sequence of bytes,  *)
(* a call on one file leaves every other file alone, and what was saved    *)
(* survives.                                                               *)
(***************************************************************************)
EXTENDS Integers, Sequences

CONSTANTS
    Paths,   \* the paths of files
    Fils     \* file objects

VARIABLES
    files,     \* the paths that name a file
    data,      \* the content of every file, <<>> for no file
    durable,   \* the paths whose file a power failure leaves as it is
    fd,        \* per file object: the path it is open on, if any, the position,
               \* whether the file has changes to save, whether the object failed
    ret        \* the last call and its answer

vars == <<files, data, durable, fd, ret>>

\* every file but those of ps is as before, durable or not
Others(ps) ==
    \A p \in Paths \ ps :
        /\ p \in files' <=> p \in files
        /\ data'[p] = data[p]
        /\ p \in durable' <=> p \in durable

Same == files' = files /\ data' = data
OtherFds(f) == \A g \in Fils \ {f} : fd'[g] = fd[g]
Failed == ret'.res # "FR_OK"

\* s with t written at position n
Written(s, n, t) ==
    LET end == n + Len(t)
    IN  [i \in 1 .. (IF end > Len(s) THEN end ELSE Len(s)) |->
            IF i \in n + 1 .. end THEN t[i - n] ELSE s[i]]

Open ==
    \E f \in Fils, p \in Paths :
        /\ ret'.op = "open" /\ ret'.arg[1] = p
        /\ fd[f].on = {}
        /\ OtherFds(f)
        /\ Others({p})
        /\ \/ /\ Failed
              /\ fd'[f].on = {}
              /\ \/ Same
                 \/ data'[p] = <<>> /\ p \notin durable'
           \/ /\ ~Failed
              /\ p \in files'
              /\ fd'[f].on = {p}
              /\ \/ Same /\ p \in files /\ (p \in durable => ~fd'[f].unsaved)
                 \/ data'[p] = <<>> /\ p \notin durable' /\ fd'[f].unsaved
              /\ fd'[f].pos \in {0, Len(data'[p])}

Read ==
    \E f \in Fils :
        /\ ret'.op = "read" /\ ret'.arg[1] = f
        /\ Same /\ durable' = durable /\ OtherFds(f)
        /\ \/ Failed /\ fd'[f].on = fd[f].on
           \/ /\ ~Failed
              /\ LET p    == CHOOSE q \in fd[f].on : TRUE
                     left == Len(data[p]) - fd[f].pos
                     n    == IF ret'.arg[2] > left THEN left ELSE ret'.arg[2]
                 IN  /\ ret'.data = SubSeq(data[p], fd[f].pos + 1, fd[f].pos + n)
                     /\ fd' = [fd EXCEPT ![f].pos = @ + n]

Write ==
    \E f \in Fils :
        /\ ret'.op = "write" /\ ret'.arg[1] = f
        /\ Others(fd[f].on) /\ OtherFds(f) /\ files' = files
        /\ durable' \cap fd[f].on = {}
        /\ fd'[f].on = fd[f].on
        /\ \/ /\ Failed
              /\ \A p \in fd[f].on : \A i \in 1 .. Len(data[p]) :
                    i \notin fd[f].pos + 1 .. fd[f].pos + Len(ret'.arg[2]) =>
                       i \in DOMAIN data'[p] /\ data'[p][i] = data[p][i]
           \/ /\ ~Failed
              /\ LET p == CHOOSE q \in fd[f].on : TRUE
                 IN  /\ ret'.n <= Len(ret'.arg[2])
                     /\ data'[p] = Written(data[p], fd[f].pos, SubSeq(ret'.arg[2], 1, ret'.n))
                     /\ fd'[f].pos = fd[f].pos + ret'.n

\* seeking past the end extends the file with unspecified bytes
Lseek ==
    \E f \in Fils :
        /\ ret'.op = "lseek" /\ ret'.arg[1] = f
        /\ Others(fd[f].on) /\ OtherFds(f) /\ files' = files
        /\ fd'[f].on = fd[f].on
        /\ \A p \in fd[f].on :
              /\ Len(data'[p]) >= Len(data[p])
              /\ SubSeq(data'[p], 1, Len(data[p])) = data[p]
              /\ Failed \/ fd'[f].pos \in 0 .. Len(data'[p])
              /\ ~Failed /\ ret'.arg[2] <= Len(data[p]) => fd'[f].pos = ret'.arg[2]

\* saving makes the file durable; it changes nothing a reader would see,
\* unless the file object had failed before
Save ==
    \E f \in Fils :
        /\ ret'.op \in {"sync", "close"} /\ ret'.arg[1] = f
        /\ Others(fd[f].on) /\ OtherFds(f) /\ files' = files
        /\ \/ data' = data
           \/ fd[f].failed
        /\ ~Failed /\ fd[f].unsaved => fd[f].on \subseteq durable'
        /\ ret'.op = "close" => Failed \/ fd'[f].on = {}

Unlink ==
    /\ ret'.op = "unlink"
    /\ fd' = fd
    /\ \E p \in {ret'.arg[1]} :
          /\ Others({p})
          /\ \/ Failed /\ (Same \/ p \notin files')
             \/ ~Failed /\ p \notin files'

Mkdir == ret'.op = "mkdir" /\ Same /\ UNCHANGED <<durable, fd>>

\* the power goes in a call on the files of ret.arg[1]: of these, and of files that
\* were not durable, anything may be left
Crash ==
    /\ ret'.op = "crash"
    /\ \A p \in durable \ ret'.arg[1] : (p \in files' <=> p \in files) /\ data'[p] = data[p]
    /\ durable' = Paths
    /\ \A f \in Fils : fd'[f].on = {}

Init == durable = Paths /\ \A f \in Fils : fd[f].on = {}

Next == Open \/ Read \/ Write \/ Lseek \/ Save \/ Unlink \/ Mkdir \/ Crash

Spec == Init /\ [][Next]_vars
=============================================================================
