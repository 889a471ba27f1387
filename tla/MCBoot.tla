------------------------------- MODULE MCBoot -------------------------------
(* Small device trees: their memory nodes, their reserved-memory node, whether it    *)
(* has properties of its own, and blobs that are refused.                             *)
EXTENDS Boot

R(s, n) == [start |-> s, size |-> n]

Start(name) == <<[code |-> "node", name |-> name, value |-> NULL]>>
Prop(name, value) == <<[code |-> "property", name |-> name, value |-> value]>>
Mark(code) == <<[code |-> code, name |-> <<>>, value |-> NULL]>>
Head0(value) == <<[code |-> "header", name |-> <<>>, value |-> value]>>

Memory(r) == Start(<<"memory", "@">>) \o Prop(<<"device_type">>, "memory") \o Prop(<<"reg">>, r)
               \o Mark("end")
Reserved(r) == Start(<<"area", "@">>) \o Prop(<<"reg">>, r) \o Mark("end")
Each(Op(_), list) == FoldLeft(LAMBDA acc, r : acc \o Op(r), <<>>, list)
Cells(a, s) == Prop(<<"#address-cells">>, a) \o Prop(<<"#size-cells">>, s)

Tree(own, mem, res) ==
    Head0("ok") \o Start(<<>>) \o Cells(2, 2) \o Mark("nop")
      \o Each(Memory, mem)
      \o Start(<<"reserved-memory">>) \o own \o Each(Reserved, res) \o Mark("end")
      \o Mark("end") \o Mark("done")

\* One or two memory nodes; up to two reserved regions that share nothing.
MemoryLists == { <<R(8, 12)>>, <<R(4, 8), R(16, 7)>> }
Candidates == {R(s, n) : s \in {0, 4, 7, 10, 13, 18}, n \in {2, 3, 14}}
Apart(a, b) == a.start + a.size <= b.start \/ b.start + b.size <= a.start
ReservedLists ==
    {<<>>} \union {<<a>> : a \in Candidates} \union
    {<<l[1], l[2]>> : l \in {l \in Candidates \X Candidates : Apart(l[1], l[2])}}

\* A node without "reg", more nodes than entries, no reserved-memory, wrong cells, too deep, unbalanced, broken.
Odd == {
    Head0("INCORRECT_DTB_MAGIC_HEADER"), Head0("INCORRECT_DTB_VERSION"),
    Head0("ok") \o Start(<<>>) \o Cells(2, 2) \o Start(<<"memory", "@">>) \o Mark("end")
      \o Memory(R(8, 12)) \o Start(<<"reserved-memory">>) \o Mark("end") \o Mark("end"),
    Head0("ok") \o Start(<<>>) \o Cells(2, 2) \o Memory(R(8, 5)) \o Start(<<"memory", "@">>)
      \o Mark("end") \o Memory(R(16, 7)) \o Start(<<"reserved-memory">>) \o Mark("end") \o Mark("end"),
    Tree(<<>>, <<R(0, 2), R(4, 2), R(8, 2), R(16, 8)>>, <<>>),
    Head0("ok") \o Start(<<>>) \o Cells(2, 2) \o Memory(R(8, 12)) \o Mark("end"),
    Head0("ok") \o Start(<<>>) \o Cells(1, 2) \o Mark("end"),
    Head0("ok") \o Start(<<>>) \o Cells(2, 1) \o Mark("end"),
    Head0("ok") \o Start(<<>>) \o Mark("end"),
    Head0("ok") \o Start(<<>>) \o Start(<<"a">>) \o Start(<<"b">>) \o Start(<<"c">>),
    Head0("ok") \o Start(<<>>) \o Mark("end") \o Mark("end"),
    Head0("ok") \o Start(<<>>) \o Mark("unknown") }

MCDocuments ==
    {Tree(<<>>, mem, res) : mem \in MemoryLists, res \in ReservedLists}
      \union {Tree(Cells(2, 2), mem, <<R(10, 3)>>) : mem \in MemoryLists} \union Odd
=============================================================================
