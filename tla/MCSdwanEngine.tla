---------------------------- MODULE MCSdwanEngine ----------------------------
\* Instances of SdwanEngine: the lab's two links and two traffic classes that
\* weigh the same readings differently.
EXTENDS SdwanEngine

\* default_lab_links(): SATCOM first, LTE as its backup.
LabLinks == <<"satcom", "lte_backup">>
LabPriority == [satcom |-> 1, lte_backup |-> 2]

TwoClasses == <<"voice", "bulk">>

\* Too slow for voice, but wide; and fast, but too narrow for bulk.
Slow    == [latency |-> 600, loss |-> 10, bw |-> 14000]
Narrow  == [latency |-> 25,  loss |-> 10, bw |-> 20]
LabReadings == {Slow, Narrow}
=============================================================================
