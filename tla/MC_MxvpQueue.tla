---------------------------- MODULE MC_MxvpQueue ----------------------------
(* A queue of twenty-one words and elements as long as real commands, with *)
(* at most one DMA descriptor, and replies: of four, seven, eight and ten  *)
(* words.  They wrap at many places, and the longest is one that an empty  *)
(* queue may refuse.                                                       *)
EXTENDS MxvpQueue

C == INSTANCE MxvpCommand

MC_Commands ==
    {C!AllocExeBuffer(0, 64), C!AllocDmaRead(1), C!AllocDmaWrite(1),
     C!AllocMultiDmaRead(0, 1), C!AllocMultiDmaWrite(0, 1),
     C!AllocMemFill(0, 63, 7), C!AllocFence}

MC_Lengths == {C!WordsOf(n) : n \in {c.length : c \in MC_Commands} \union {C!ReplyHeader}}
=============================================================================
