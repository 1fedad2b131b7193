------------------------------- MODULE MCConfig -------------------------------
(***************************************************************************)
(* Files, calibrations and a CalibList for Config.                         *)
(***************************************************************************)
EXTENDS Config

File(loads, ntmode, team, calibs, cameras) ==
    [loads |-> loads, ntmode |-> ntmode, team |-> team, calibs |-> calibs, cameras |-> cameras]
Entry(calib, type, size) == [calib |-> calib, type |-> type, size |-> size, layout |-> "object"]
Documented(e) == [e EXCEPT !.layout = "array"]

\* Two calibrations that can be read, one that breaks off.
TwoAndAHalf ==
    [left  |-> [cells |-> 2, dist |-> TRUE],
     right |-> [cells |-> 2, dist |-> TRUE],
     half  |-> [cells |-> 1, dist |-> FALSE]]

\* Two types, the second with two sizes.
TwoTypes == << <<"wide", <<<<"vga", "wideVga">>>> >>,
               <<"tele", <<<<"vga", "teleVga">>, <<"hd", "teleHd">>>> >> >>

\* One has eight distortion coefficients instead of five, one a matrix of another size.
OneFitting ==
    [b \in Buffers |-> [matrix |-> b # "teleVga", distort |-> b # "teleHd"]]

\* The last two are one entry with its type in an object and in an array.
Entries ==
    {<<Entry("left", Absent, "vga"), Entry("right", Absent, "hd")>>,
     <<Entry("half", Absent, "vga"), Entry(Absent, "tele", "hd")>>,
     <<Entry("lost", Absent, "vga")>>,
     <<Entry("left", "wide", "hd"), Entry(Absent, "wide", "vga")>>,
     <<Entry("left", "tele", "vga"), Documented(Entry("left", "tele", "vga"))>>}

\* A file that cannot be loaded, every way to set up the network, and files
\* with cameras, one of them without a team number or calibrations.
MixedFiles ==
    {File(FALSE, Absent, FALSE, FALSE, <<>>)} \cup
    {File(TRUE, m, FALSE, TRUE, <<>>) : m \in {Absent, "unreadable", "server", "host"}} \cup
    {File(TRUE, "client", TRUE, TRUE, e) : e \in Entries} \cup
    {File(TRUE, "client", FALSE, FALSE, <<Entry("left", Absent, "vga")>>)}

\* The layout of docs/Calibration.md: two cameras, each with its calibration.
DocumentedFile ==
    {File(TRUE, "client", TRUE, TRUE, <<Entry("left", Absent, "vga"), Entry("right", Absent, "hd")>>)}
=============================================================================
