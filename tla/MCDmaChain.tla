----------------------------- MODULE MCDmaChain -----------------------------
(***************************************************************************)
(* Instance of DmaChain for TLC.  Memories: three quadwords, each of which *)
(* is any of several tags; and the layout of an image chain to the GIF,    *)
(* with each of its parts right or wrong.                                  *)
(***************************************************************************)
EXTENDS DmaChain

T(id, irq, qwc, addr) == [id |-> id, irq |-> irq, qwc |-> qwc, addr |-> addr, gif |-> "Packed",
                       nloop |-> 0]
G(kind, n) == [T("Cnt", FALSE, 0, 0) EXCEPT !.gif = kind, !.nloop = n]

FirstTags == {T("Call", FALSE, 0, 2), T("Call", TRUE, 0, 1), T("Ref", TRUE, 1, 2),
              T("Next", FALSE, 1, 1), T("End", FALSE, 1, 0)}
OtherTags == {T("Cnt", TRUE, 0, 0), T("Call", FALSE, 0, 2), T("Call", TRUE, 1, 0),
              T("Ret", FALSE, 0, 0), T("Ret", TRUE, 1, 0), T("End", FALSE, 0, 0),
              T("Refe", TRUE, 1, 1)}
ShortMemories == {<<t, u, v>> : t \in FirstTags, u \in OtherTags, v \in OtherTags}
ImageMemories ==
    {<<t0, G(setup, 4), T("Cnt", FALSE, 1, 0), G("Image", n), t4, t5, t0>> :
        t0 \in {T("Cnt", FALSE, 1, 0), T("Cnt", TRUE, 1, 0)}, setup \in {"Setup", "none"},
        n \in {1, 2},
        t4 \in {T("End", FALSE, 1, 0), T("End", FALSE, 2, 0), T("Ref", FALSE, 1, 6),
                T("Ref", FALSE, 1, 7)},
        t5 \in {T("End", FALSE, 0, 0), T("Refe", FALSE, 0, 0), T("End", TRUE, 0, 0)}}
MCMemories == {[a \in 0 .. Len(m) - 1 |-> m[a + 1]] : m \in ShortMemories \cup ImageMemories}
MCStarts == {0}

MCBlocks == {[c |-> "GIF", n |-> 1, how |-> "store64"], [c |-> "VIF1", n |-> 1, how |-> "send"],
             [c |-> "GIF", n |-> 0, how |-> "store32"]}
MCChains == {[c |-> "GIF", tie |-> TRUE, how |-> "store32"],
             [c |-> "GIF", tie |-> FALSE, how |-> "store32"],
             [c |-> "VIF1", tie |-> TRUE, how |-> "send"]}
MCStatWrites == {<<{"GIF"}, Channels>>, <<{"VIF1"}, {"GIF"}>>}
=============================================================================
