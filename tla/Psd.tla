-------------------------------- MODULE Psd --------------------------------
(***************************************************************************)
(* The PSD handler (PsdHandler.cpp): a header, three blocks that are       *)
(* passed over, and the channels one after the other, plain or in packets  *)
(* of run lengths.                                                         *)
(***************************************************************************)
EXTENDS ImageCall

PSD_HEADER_SIZE == 26

(* supported: version 1, eight bits, a mode the handler knows; gray is     *)
(* whether that is the greyscale mode.                                     *)
Header(isPsd, supported, gray, channelCount, width, height) ==
  [isPsd |-> isPsd, supported |-> supported, gray |-> gray, channelCount |-> channelCount,
   width |-> width, height |-> height]

Headers ==
  [isPsd : BOOLEAN, supported : BOOLEAN, gray : BOOLEAN, channelCount : Nat, width : Nat,
   height : Nat]

GetFormat(header) ==
  CASE header.channelCount = 1 -> PIXEL_FORMAT_R8_UNORM
    [] header.channelCount = 2 -> PIXEL_FORMAT_R8G8_UNORM
    [] header.channelCount = 3 -> PIXEL_FORMAT_B8G8R8X8_UNORM
    [] OTHER                   -> PIXEL_FORMAT_B8G8R8A8_UNORM

h           == call.header
channelSize == h.width * h.height

(* Numbers are stored with their high byte first.                          *)
SwitchEndian(bytes) ==
  Recursion([p \in Nat \X Nat |-> 256 * p[2] + Larger(bytes[p[1] + 1], 0)], 0)[Len(bytes)]

(* Where the block at an offset ends.                                      *)
BlockEnd(stream, offset) ==
  Clamped(stream, offset + 4 + SwitchEndian(BytesAt(stream, offset, 4)))

(* Whether the number behind the three blocks of a file says that the      *)
(* channels are in packets.                                                *)
HasPackets(stream) ==
  \E first \in {BlockEnd(stream, PSD_HEADER_SIZE)} :
    \E second \in {BlockEnd(stream, first)} :
      \E third \in {BlockEnd(stream, second)} : SwitchEndian(BytesAt(stream, third, 2)) = 1

-----------------------------------------------------------------------------
(* Reading                                                                 *)

ReadImage(wants) ==
  /\ file.codec = "psd"
  /\ Begin("ReadPsd", "Header", wants)
  /\ UNCHANGED <<file, bitmap, pixels, metadata>>

DoReadHeader ==
  /\ At("ReadPsd", "Header")
  /\ \/ ReadFails(PSD_HEADER_SIZE, "READ_FAILURE")
     \/ /\ Holds(file, 0, PSD_HEADER_SIZE)
        /\ LET header == file.at[0].value
           IN  \/ ~ header.isPsd /\ Return("INVALID_HEADER")
               \/ /\ header.isPsd /\ (~ header.supported \/ header.channelCount > 4)
                  /\ Return("HEADER_NOT_SUPPORTED")
               \/ /\ header.isPsd /\ header.supported /\ header.channelCount <= 4
                  /\ call' = [call EXCEPT !.step = "Blocks", !.header = header,
                                          !.position = PSD_HEADER_SIZE]
  /\ UNCHANGED <<file, bitmap, pixels, metadata>>

(* SkipBlock, three times.  What it and its Seek return is not looked at:  *)
(* a block whose length could not be read is not passed over, nor the rest *)
(* of one that could not be sought.                                        *)
SkipBlock ==
  /\ At("ReadPsd", "Blocks")
  /\ LET next == [call EXCEPT !.row = @ + 1, !.step = IF call.row = 2 THEN "Compression" ELSE "Blocks"]
     IN  \/ /\ ~ Holds(file, call.position, 4)
            /\ call' = [next EXCEPT !.position = file.size]
         \/ /\ Holds(file, call.position, 4)
            /\ call' = [next EXCEPT !.position = BlockEnd(file, @)]
         \/ /\ Holds(file, call.position, 4) /\ StreamFails
            /\ \E n \in {0, 4} : call' = [next EXCEPT !.position = @ + n, !.faults = TRUE]
  /\ UNCHANGED <<file, bitmap, pixels, metadata>>

ReadCompression ==
  LET compression == SwitchEndian(BytesAt(file, call.position, 2))
  IN  /\ At("ReadPsd", "Compression")
      /\ \/ ReadFails(2, "READ_FAILURE") /\ UNCHANGED metadata
         \/ /\ Holds(file, call.position, 2) /\ compression > 1
            /\ Return("HEADER_NOT_SUPPORTED") /\ UNCHANGED metadata
         \/ /\ Holds(file, call.position, 2) /\ compression <= 1
            /\ call' = [call EXCEPT !.step = "Create", !.position = @ + 2, !.row = 0,
                                    !.palette = <<compression>>]
            /\ metadata' = IF call.wants THEN [metadata EXCEPT !.cutout = "default"] ELSE metadata
      /\ UNCHANGED <<file, bitmap, pixels>>

CreateBitmap ==
  /\ At("ReadPsd", "Create")
  /\ Create(GetFormat(h), h.width, h.height,
            IF call.palette = <<1>> THEN "Counts" ELSE "Channels")
  /\ UNCHANGED <<file, metadata>>

(* Where in a pixel a channel goes: red, green, blue and alpha of four     *)
(* channels are bytes 2, 1, 0 and 3.                                       *)
Component(few, channel) == IF few THEN channel ELSE <<2, 1, 0, 3>>[channel + 1]

(* The buffer with some bytes put to every step-th place.                  *)
PutEvery(data, start, step, values) ==
  [i \in DOMAIN data |->
     LET n == i - 1 - start
     IN  IF n >= 0 /\ n % step = 0 /\ n \div step < Len(values) THEN values[(n \div step) + 1]
         ELSE data[i]]

EndOf(start, step, values) == start + (Len(values) - 1) * step + 1

(* A channel is done.                                                      *)
NextChannel(next) == [next EXCEPT !.row = @ + 1, !.index = 0]

(* The buffer for the channels is written to, if there is one or not.      *)
NoBuffer == call.row = 0 /\ MemoryFails /\ Crash

(* One pass of ReadUncompressedData.                                       *)
ReadChannel ==
  LET few    == h.channelCount < 3
      step   == IF h.channelCount = 3 THEN 4 ELSE h.channelCount
      start  == Component(few, call.row)
      values == BytesAt(file, call.position, channelSize)
  IN  /\ At("ReadPsd", "Channels") /\ call.row < h.channelCount
      /\ \/ Holds(file, call.position, 1) /\ NoBuffer
         \/ PixelsFallShort(channelSize) /\ UNCHANGED metadata
         \/ /\ Holds(file, call.position, channelSize)
            /\ pixels' = PutEvery(pixels, start, step, values)
            /\ call' = NextChannel([call EXCEPT !.position = @ + channelSize,
                         !.beyond = @ \/ EndOf(start, step, values) > bitmap.data])
            /\ UNCHANGED <<bitmap, metadata>>
      /\ UNCHANGED file

(* ReadRleData passes over the lengths of the rows, or does not notice     *)
(* that it cannot, and reads the rest to a buffer; one that could not be   *)
(* allocated has no packets.                                               *)
SkipCounts ==
  LET next == [call EXCEPT !.step = "Packets"]
  IN  /\ At("ReadPsd", "Counts")
      /\ \/ StreamFails /\ FailOnFault("READ_FAILURE")
         \/ MemoryFails /\ h.channelCount > 0 /\ FailOnFault("INVALID_DATA")
         \/ /\ \/ call' = [next EXCEPT
                          !.position = Clamped(file, @ + h.height * h.channelCount * 2)]
               \/ StreamFails /\ call' = [next EXCEPT !.faults = TRUE]
            /\ UNCHANGED <<bitmap, pixels>>
      /\ UNCHANGED <<file, metadata>>

(* The packet the decoder stands at: count - 127 literal bytes, or one     *)
(* that stands for 257 - count.                                            *)
Control   == ByteAt(file, call.position)
IsLiteral == Control < 128
IsNothing == Control = 128

PacketCount ==
  CASE IsLiteral -> Control + 1
    [] IsNothing -> 0
    [] OTHER     -> 257 - Control

PacketSize ==
  CASE IsLiteral -> 1 + PacketCount
    [] IsNothing -> 1
    [] OTHER     -> 2

(* What ReadRleData tests: of a literal packet only that it begins in the  *)
(* file, not that it ends there.                                           *)
PacketIsValid ==
  /\ call.position < file.size
  /\ call.index + PacketCount <= channelSize
  /\ IsLiteral \/ IsNothing \/ call.position + 1 < file.size

PacketValues ==
  [k \in 1 .. PacketCount |-> ByteAt(file, call.position + IF IsLiteral THEN k ELSE 1)]

(* The component of a channel.  The table of the greyscale mode has one    *)
(* entry: the offset of a second channel is whatever lies behind it.       *)
RleComponents ==
  CASE h.gray /\ call.row = 0 -> {0}
    [] h.gray /\ call.row > 0 -> 0 .. 3
    [] ~ h.gray               -> {Component(FALSE, call.row)}

(* One pass of the inner loop.                                             *)
DecodePacket ==
  LET step == IF h.gray THEN 1 ELSE 4
      next == [call EXCEPT !.index = @ + PacketCount, !.position = @ + PacketSize]
  IN  /\ At("ReadPsd", "Packets") /\ call.row < h.channelCount
      /\ \/ ~ PacketIsValid /\ Fail("INVALID_DATA")
         \/ /\ PacketIsValid
            /\ \E component \in RleComponents :
                 LET start == component + call.index * step
                 IN  /\ pixels' = PutEvery(pixels, start, step, PacketValues)
                     /\ call' = LET marked == [next EXCEPT !.beyond =
                                      @ \/ EndOf(start, step, PacketValues) > bitmap.data]
                                IN  IF next.index < channelSize THEN marked
                                    ELSE NextChannel(marked)
            /\ UNCHANGED bitmap
      /\ UNCHANGED <<file, metadata>>

(* All channels are done: the alpha of a picture of three.                 *)
FillAlpha ==
  /\ At("ReadPsd", "Channels") \/ At("ReadPsd", "Packets")
  /\ call.row = h.channelCount
  /\ pixels' = IF h.channelCount = 3 THEN Opaque(Shown).data ELSE pixels
  /\ Return("OK")
  /\ UNCHANGED <<file, bitmap, metadata>>

-----------------------------------------------------------------------------
(* Writing                                                                 *)

CanSave ==
  /\ bitmap.type = "2D" /\ bitmap.arraySize = 1
  /\ bitmap.format \in {PIXEL_FORMAT_R8_UNORM, PIXEL_FORMAT_R8G8_UNORM,
                        PIXEL_FORMAT_B8G8R8X8_UNORM, PIXEL_FORMAT_B8G8R8A8_UNORM}

Save(wants) ==
  \/ ~ IsValid(bitmap) /\ Refuse("SavePsd", "INVALID_BITMAP", wants)
  \/ IsValid(bitmap) /\ ~ CanSave /\ Refuse("SavePsd", "SAVE_NOT_SUPPORTED", wants)
  \/ /\ IsValid(bitmap) /\ CanSave
     /\ Begin("SavePsd", "Header", wants)
     /\ file' = NewFile("psd", Opaque(Shown), <<>>)
     /\ UNCHANGED <<bitmap, pixels, metadata>>

SavedChannels ==
  IF bitmap.format = PIXEL_FORMAT_B8G8R8X8_UNORM THEN 3 ELSE GetBytesPerPixel(bitmap.format)

(* The writes in front of the channels: three empty blocks, and no         *)
(* compression.                                                            *)
Preamble ==
  << Piece("psdHeader", PSD_HEADER_SIZE,
           Header(TRUE, TRUE, SavedChannels <= 2, SavedChannels, bitmap.width, bitmap.height)),
     Bytes(<<0, 0, 0, 0>>), Bytes(<<0, 0, 0, 0>>), Bytes(<<0, 0, 0, 0>>), Bytes(<<0, 0>>) >>

SavePreamble ==
  /\ At("SavePsd", "Header")
  /\ \/ WriteFails(Preamble[call.index + 1], "WRITE_FAILURE")
     \/ /\ file' = Appended(file, Preamble[call.index + 1])
        /\ call' = [call EXCEPT !.index = @ + 1,
                                !.step = IF call.index = 4 THEN "Channels" ELSE "Header"]
  /\ UNCHANGED <<bitmap, pixels, metadata>>

SavedChannel(channel) ==
  Bytes([i \in 1 .. bitmap.width * bitmap.height |->
           pixels[(i - 1) * GetBytesPerPixel(bitmap.format)
                    + Component(SavedChannels < 3, channel) + 1]])

SaveChannel ==
  /\ At("SavePsd", "Channels")
  /\ \/ NoBuffer /\ UNCHANGED file
     \/ /\ WriteFails(SavedChannel(call.row), "WRITE_FAILURE")
        /\ UNCHANGED <<bitmap, pixels, metadata>>
     \/ /\ file' = Appended(file, SavedChannel(call.row))
        /\ call' = [call EXCEPT !.row = @ + 1,
                      !.step = IF call.row + 1 = SavedChannels THEN "Close" ELSE "Channels"]
        /\ UNCHANGED <<bitmap, pixels, metadata>>

-----------------------------------------------------------------------------

Start == \E wants \in BOOLEAN : ReadImage(wants) \/ Save(wants)

Step ==
  \/ DoReadHeader \/ SkipBlock \/ ReadCompression \/ CreateBitmap \/ ReadChannel
  \/ SkipCounts \/ DecodePacket \/ FillAlpha
  \/ SavePreamble \/ SaveChannel \/ Close("SavePsd")
=============================================================================
