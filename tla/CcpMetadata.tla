---------------------------- MODULE CcpMetadata ----------------------------
(***************************************************************************)
(* The chunk of metadata behind the pixels of a TGA or a DDS file          *)
(* (CcpMetadata.cpp): a header, a table of where in the chunk the keys and *)
(* values are, and their characters.  Metadata are a sequence of pairs of  *)
(* a key and a value.                                                      *)
(***************************************************************************)
EXTENDS ImageStream, Recursion

CONSTANTS
  Strings,   \* keys and values
  Length     \* [Strings -> Nat]: their numbers of characters

ASSUME LengthAssumption == Length \in [Strings -> Nat]

HEADER_SIZE == 20
ENTRY_SIZE  == 16

(* The strings one after the other, the value of a pair behind its key,    *)
(* each with a zero at its end; counted from zero.                         *)
Text(metadata, i) == metadata[(i \div 2) + 1][(i % 2) + 1]
TextSize(metadata, i) == Length[Text(metadata, i)] + 1

TextOffset(metadata, i) ==
  ENTRY_SIZE * Len(metadata) + Total([j \in Nat |-> TextSize(metadata, j)], i)

ChunkSize(metadata) == TextOffset(metadata, 2 * Len(metadata))

(* What is in the chunk where: a string at its offset.                     *)
Characters(metadata) ==
  [o \in {TextOffset(metadata, i) : i \in 0 .. 2 * Len(metadata) - 1} |->
     LET i == CHOOSE i \in 0 .. 2 * Len(metadata) - 1 : TextOffset(metadata, i) = o
     IN  Text(metadata, i)]

Entries(metadata) ==
  [i \in DOMAIN metadata |->
     [key |-> TextOffset(metadata, 2 * i - 2), value |-> TextOffset(metadata, 2 * i - 1)]]

(* SaveCcpMetadata's three writes.                                         *)
Chunk(metadata) ==
  << Piece("metadataHeader", HEADER_SIZE,
           [count |-> Len(metadata), size |-> ChunkSize(metadata)]),
     Piece("metadataEntries", ENTRY_SIZE * Len(metadata), Entries(metadata)),
     Piece("metadataStrings", ChunkSize(metadata) - ENTRY_SIZE * Len(metadata),
           Characters(metadata)) >>

(* Of LoadCcpMetadata: the chunk at a position, when it can be read.       *)
HeaderCanBeRead(stream, position) == Holds(stream, position, HEADER_SIZE)
HeaderIsValid(stream, position)   == IsAt(stream, position, "metadataHeader")

ChunkCanBeRead(stream, position) ==
  Holds(stream, position + HEADER_SIZE, stream.at[position].value.size)

(* Its three ways out: of what is no chunk it says so, a whole chunk is    *)
(* taken over, and one that cannot be read to its end is an error.  Of a   *)
(* chunk without metadata nothing but the header is read.                  *)
IsNoChunk(stream, position) ==
  HeaderCanBeRead(stream, position) /\ ~ HeaderIsValid(stream, position)

ChunkIsWhole(stream, position) ==
  /\ HeaderCanBeRead(stream, position) /\ HeaderIsValid(stream, position)
  /\ stream.at[position].value.count = 0 \/ ChunkCanBeRead(stream, position)

ChunkFallsShort(stream, position) ==
  ~ IsNoChunk(stream, position) /\ ~ ChunkIsWhole(stream, position)

ChunkStrings(stream, position) ==
  LET header  == stream.at[position].value
      entries == stream.at[position + HEADER_SIZE].value
      text    == stream.at[position + HEADER_SIZE + ENTRY_SIZE * header.count].value
  IN  [i \in 1 .. header.count |-> <<text[entries[i].key], text[entries[i].value]>>]
=============================================================================
