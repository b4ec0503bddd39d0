----------------------------- MODULE MxvpCommand -----------------------------
(***************************************************************************)
(* The commands for the VPU (vpu/mxvp/mxvp_cmd.c): packed structures whose *)
(* length, in their first word, is what the queues go by.  A builder gives *)
(* NULL when there is no memory; here is what it gives otherwise, all else *)
(* being 0.  Addresses and sizes are numbers of bytes.                     *)
(***************************************************************************)
EXTENDS Integers

u16 == 2
u32 == 4
u64 == 8

(* struct mxvp_cmd and struct mxvp_reply: length, id, version, reserved,   *)
(* and a command or a status, before the payload.                          *)
CmdHeader   == u32 + u32 + u16 + u16 + u32
ReplyHeader == u32 + u32 + u16 + u16 + u32

(* The payloads.                                                           *)
ExecBuffer == u64 + u32
DmaDesc    == u64 + u64 + u32
Dma(ndesc) == u32 + ndesc * DmaDesc
MultiDma   == u64 + u32
MemFill    == u64 + u32 + u32

RoundUp(n, to) == ((n + to - 1) \div to) * to

HDR_VERSION == 1

(* MXVP_CMD_EXE_BUFFER and so on.                                          *)
MXVP_CMD ==
    [EXE_BUFFER |-> 1, DMA_READ |-> 2, DMA_WRITE |-> 3, MULTI_DMA_READ |-> 4,
     MULTI_DMA_WRITE |-> 5, MEM_FILL |-> 6, FENCE |-> 7]

Command(op, size, payload) ==
    [length |-> RoundUp(CmdHeader + size, u32), version |-> HDR_VERSION,
     command |-> MXVP_CMD[op], payload |-> payload]

AllocExeBuffer(address, size) ==
    Command("EXE_BUFFER", ExecBuffer, [addr |-> address, size |-> size])

(* The caller fills in the descriptors.                                    *)
AllocDmaRead(ndesc)  == Command("DMA_READ", Dma(ndesc), [ndesc |-> ndesc])
AllocDmaWrite(ndesc) == Command("DMA_WRITE", Dma(ndesc), [ndesc |-> ndesc])

(* The descriptors are in VPU memory, and the size is theirs.              *)
MultiDmaCommon(op, address, ndesc) ==
    Command(op, MultiDma, [addr |-> address, size |-> ndesc * DmaDesc])

AllocMultiDmaRead(address, ndesc)  == MultiDmaCommon("MULTI_DMA_READ", address, ndesc)
AllocMultiDmaWrite(address, ndesc) == MultiDmaCommon("MULTI_DMA_WRITE", address, ndesc)

(* Whole words are filled.                                                 *)
AllocMemFill(address, size, pattern) ==
    Command("MEM_FILL", MemFill,
            [addr |-> address, size |-> RoundUp(size, u32), pattern |-> pattern])

AllocFence == Command("FENCE", 0, <<>>)

(* The words of a command or reply in a queue.                             *)
WordsOf(length) == RoundUp(length, u32) \div u32
=============================================================================
