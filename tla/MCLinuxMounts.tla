--------------------------- MODULE MCLinuxMounts ---------------------------
EXTENDS Mounts, TLC

CONSTANTS f1, f2, f3, root, data, usb, t1, t2

Filesystems == {f1, f2, f3}
Directories == {root, data, usb}
WithSpace == {usb}
BsdDirectories == {root, data, usb}
Threads == {t1, t2}

\* Two fields that tell of the filesystem, and a target that is copied in two pieces.
Fields == <<"fs", "fs", "on", "on">>

\* Filesystems are told apart only by what is mounted where, and threads not at all.
Symmetry == Permutations(Filesystems) \cup Permutations(Threads)
=============================================================================
