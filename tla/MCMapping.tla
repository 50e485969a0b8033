------------------------------ MODULE MCMapping ------------------------------
(***************************************************************************)
(* Instances of Mapping.  The tables are the ones production configures    *)
(* (scripts/tests/mapping.log.prod), cut to five parties: Tencent 2, a     *)
(* medium without a self URL 3, Admaster 4, a medium with one 5, Miaozhen  *)
(* 6; one unit of time is the shorter cycle, 15 days.                      *)
(***************************************************************************)
EXTENDS Mapping, TLC

Record(uid, weights, cycles, self) ==
    [open |-> 1, uid |-> uid, weight |-> weights, expires |-> cycles,
     url |-> DOMAIN cycles, self |-> self]

MediumWeight == 4 :> 100 @@ 12 :> 100 @@ 7 :> 90
MediumCycle  == 4 :> 1 @@ 12 :> 1 @@ 7 :> 2

Production ==
    2 :> Record("tuid", 4 :> 100 @@ 7 :> 90, 4 :> 1 @@ 7 :> 2, TRUE) @@
    3 :> Record("qiyi_uid", MediumWeight, MediumCycle, FALSE) @@
    4 :> Record("", 12 :> 100, 12 :> 1, TRUE) @@
    5 :> Record("suid", MediumWeight, MediumCycle, TRUE) @@
    6 :> Record("mid", 12 :> 100, 12 :> 1, FALSE)

\* A worker that has loaded an edited configuration: weights and cycles differ, the
\* medium 5 is closed, Tencent also maps with its own DMP.
Edited ==
    [Production EXCEPT ![3].weight = 4 :> 10 @@ 12 :> 20, ![3].expires = 4 :> 2 @@ 12 :> 0 @@ 7 :> 1,
                       ![5].open = 0] @@ 9 :> Record("rmid", MediumWeight, MediumCycle, FALSE)
\* Tencent as a medium with pid 12, the URL of pid 12 missing at the medium 3.
NoUrlTable ==
    [Production EXCEPT ![3].url = {4, 7},
                       ![2] = Record("tuid", MediumWeight, MediumCycle, TRUE)]

\* A worker whose load broke off before Mapping_6 and after Mapping_5.
PartialTable == [s \in {2, 3, 5} |-> Production[s]]

\* The same, broken off before Mapping_2 was there at all.
SingleTable == 5 :> Production[5]

OneTable      == {Production}
TwoTables     == {Production, Edited}
BrokenTables  == {NoUrlTable, PartialTable}
AllTables     == {Production, Edited, NoUrlTable, PartialTable, SingleTable}

Pixel(page, letter, num, name, id) ==
    [page |-> page, letter |-> letter, num |-> num,
     exts |-> IF page \in {"ad", "bd"} THEN 0 ELSE 1, s |-> NoSource, ids |-> name :> id]

Pixel3 == Pixel("r", "a", 0, "qiyi_uid", 3)
Pixel5 == Pixel("r", "s", 0, "suid", 5)
Pixel2 == Pixel("r", "", 2, "tuid", 2)
Pixel4 == Pixel("ad", "", 0, "aid", 4)
Pixel6 == Pixel("m", "m", 0, "mid", 6)
Pixel1 == Pixel("bd", "", 0, "uid", 1)

AllPixels == {Pixel1, Pixel2, Pixel3, Pixel4, Pixel5, Pixel6}
OnePixel  == {Pixel3}

MCPids    == {4, 7, 12}
AllKept   == {"a", "amz", "t"}
Keeps     == {AllKept}
AllOrNone == {AllKept, {}}
KeepsIds  == {{"a", "amz"}}
Desktop   == {0}
AnyUa     == {0, 2}

TabSymmetry == Permutations(Tabs)

==============================================================================
