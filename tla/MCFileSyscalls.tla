--------------------------- MODULE MCFileSyscalls ---------------------------
(***************************************************************************)
(* Instances of FileSyscalls for TLC: processes that open an application,  *)
(* a file that is not there, a path through a file, and directories.       *)
(***************************************************************************)
EXTENDS FileSyscalls, TLC

CONSTANTS p1, p2

TwoProcesses == {p1, p2}
Symmetry == Permutations(TwoProcesses)
OneProcess == {p1}
File(name, size) == [name |-> name, size |-> size, regular |-> TRUE]
Directory(name) == [name |-> name, size |-> 0, regular |-> FALSE]
TwoApps == <<File("app", 3), File("lib", 4)>>
ShortApp == <<File("app", 1), File("lib", 3)>>
WithDirectory == <<File("app", 3), Directory("dir"), File("lib", 4)>>
MCArchives == {TwoApps, ShortApp, WithDirectory}
OneArchive == {TwoApps}
ShortArchive == {ShortApp}
App == Tmp("app")
New == Tmp("new")
Under == Abs(<<"tmp", "app", "x">>)
MCPaths == {New, App, Under, Abs(<<"tmp">>), Abs(<<"dev", "ms0">>)}
RootPaths == {App, Abs(<<"new">>)}
MCFlags == {{"O_CREAT"}, {"O_DIRECTORY"}}
OpenFlags == {{}, {"O_CREAT"}, {"O_DIRECTORY"}}
=============================================================================
