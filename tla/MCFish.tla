------------------------------ MODULE MCFish ------------------------------
(* Instances of Fish for TLC. *)
EXTENDS Fish

EachServer(x) == [s \in Servers |-> x]
Transfers == [s \in Servers |-> IF s = "perl" THEN {"get", "put", "mimetype", "stat", "pwd"}
                                ELSE Names \ {"rename", "copy", "mkdir", "mimetype"}]
Anything  == [s \in Servers |-> IF s = "perl" THEN {Absent, Dir, << >>, <<4, 5, 6>>} ELSE {Absent, <<4, 5, 6>>}]
OnNames   == EachServer({"put", "listDir", "mkdir", "rename", "symlink", "chmod", "copy", "del", "rmdir"})
Small     == EachServer({Absent, Dir, <<4>>})
OnlyExec  == EachServer({"exec"})
OnlyFiles == EachServer({Absent, <<4, 5, 6>>})
SomeData  == {<< >>, <<1, 2, 3>>}
=============================================================================
