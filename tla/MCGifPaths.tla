----------------------------- MODULE MCGifPaths -----------------------------
(***************************************************************************)
(* Instance of GifPaths for TLC: packets and images of one and two         *)
(* quadwords, images split between a DIRECT or DIRECTHL and what follows.  *)
(***************************************************************************)
EXTENDS GifPaths

Item(op, n) == [op |-> op, n |-> n]
Code1(op, n) == <<Item(op, n)>>
Image(n) == <<Item("Image", n)>> \o ImageRest(n)
Registers == <<Item("Packed", 1), Item("Reg", 0)>>

MCGifPackets == {Registers, Image(1)}
NoPackets == {}
MCKickPackets == {Registers}
Whole(op) == {Code1(op, 2) \o Registers, Code1(op, 2) \o Image(1)}
Split(op) == {[items |-> Code1(op, 1) \o <<Item("Image", 1)>>, owed |-> 1],
              [items |-> Code1(op, 2) \o SubSeq(Image(3), 1, 2), owed |-> 2]}
MCStreams ==
    {[items |-> s, owed |-> 0] :
        s \in {Code1("MskPath3", 1), Code1("MskPath3", 0),
               Code1("MskPath3", 0) \o Code1("DirectHl", 2) \o Registers,
               Code1("Base", 8) \o Code1("Offset", 1020) \o Code1("Mscal", 0),
               Code1("Mscal", 0), Code1("Offset", 4), Code1("Base", 4)}
              \cup Whole("Direct") \cup Whole("DirectHl")}
    \cup Split("Direct") \cup Split("DirectHl")
=============================================================================
