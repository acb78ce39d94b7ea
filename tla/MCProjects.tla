----------------------------- MODULE MCProjects -----------------------------
(***************************************************************************)
(* Instances of Projects for TLC.  One project is enough for every         *)
(* property: locks, rows and folders of different projects never meet.     *)
(***************************************************************************)
EXTENDS Projects

CONSTANTS blog, other, t1, t2

OneProject == {blog}
OneName == {blog}
TwoNames == {blog, other}
TwoThreads == {t1, t2}

AllOps == {"up", "down", "delete", "clone", "write", "unlink", "upload",
           "create", "adopt"}
AllFaults == {"raise", "crash", "reboot", "agent", "docker"}
NoFaults == {}
=============================================================================
