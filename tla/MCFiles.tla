------------------------------- MODULE MCFiles -------------------------------
(***************************************************************************)
(* Boot disks of both file systems, with names that shadow others and a    *)
(* file that reaches the third level of its map, beside a disk without the *)
(* signature.                                                              *)
(***************************************************************************)
EXTENDS Files, TLC

Rec(name, obj) == [name |-> name, obj |-> obj]
File(len, holes) == [length |-> len, holes |-> holes]

Ext ==
  [fs |-> "ext2fs", boot |-> TRUE,
   dirs |-> ("root" :> << <<Rec("bootx", "f2"), Rec("cfg", "f1")>>, <<Rec("boot", "d1")>> >>
             @@ "d1" :> << <<Rec("cfg", "f2")>> >>),
   files |-> ("f1" :> File(27, {}) @@ "f2" :> File(6, {1}))]

Iso ==
  [fs |-> "isofs", boot |-> TRUE,
   dirs |-> ("root" :> << <<Rec("boot", "d1"), Rec("bootx", "f2"), Rec("cfg", "f1")>> >>
             @@ "d1" :> << <<Rec("cfg", "f2")>> >>),
   files |-> ("f1" :> File(9, {}) @@ "f2" :> File(0, {}))]

LargeIso ==
  [Iso EXCEPT !.dirs["root"] = << <<Rec("boot", "d1")>>, <<Rec("cfg", "f1")>> >>]

Other == [fs |-> "ext2fs", boot |-> FALSE, dirs |-> "root" :> << <<>> >>, files |-> <<>>]

MCDisks == {"sda" :> Ext, "sda" :> Other @@ "sdb" :> Iso}
MCLargeDisks == {"sda" :> LargeIso}

MCCdevs == {"tty0"}
MCFsOrder == <<"ext2fs", "isofs", "ramfs">>

MCPaths == {<<"root", "cfg">>, <<"root", "boot", "cfg">>, <<"root", "bootx">>,
            <<"root", "boot", "..", "cfg">>, <<"dev", "sda">>, <<"..">>,
            <<"root", "cfg", "no">>, <<"root", ".", "no">>}

MCNames == {"boot", "bootx", "cfg", "no", "dev", "root", "sda", "sdb", "tty0"}
MCPrefixes == {<<n, n>> : n \in MCNames} \cup {<<"boot", "bootx">>}

MCSizes == {0, 5, 26}
MCSeeks == {1, 25}
MCOffsets == {0, 1, 2, 26, 62}
==============================================================================
