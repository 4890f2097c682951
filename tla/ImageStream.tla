---------------------------- MODULE ImageStream ----------------------------
(***************************************************************************)
(* The ICcpStream that the readers and writers of images are given: an     *)
(* interface of the core library, modelled from how they use it and from   *)
(* the memory streams of the tests (MemoryStream.cpp).                     *)
(*                                                                         *)
(* A stream holds pieces: a structure, or a run of bytes.  It maps the     *)
(* offset at which a piece begins to the piece; size is the number of      *)
(* bytes there are, which in a file that was cut is less than the pieces   *)
(* take.                                                                   *)
(***************************************************************************)
EXTENDS Integers, Sequences

(* A byte whose value no write determined, or that lies in a structure.    *)
Unknown == -1

Byte == Unknown .. 255

Piece(kind, size, value) == [kind |-> kind, size |-> size, value |-> value]
Bytes(values) == Piece("bytes", Len(values), values)

NoContents == [at |-> <<>>, size |-> 0]

Placed(at, offset, piece) ==
  [o \in DOMAIN at \union {offset} |-> IF o = offset THEN piece ELSE at[o]]

(* Write at the end.                                                       *)
Appended(stream, piece) ==
  [stream EXCEPT !.at = Placed(@, stream.size, piece), !.size = @ + piece.size]

(* Write that falls short: n bytes of a piece, which make no piece.        *)
AppendedPart(stream, n) ==
  IF n = 0 THEN stream ELSE Appended(stream, Piece("part", n, <<>>))

(* Seek stays between the beginning and the end.                           *)
Clamped(stream, position) ==
  CASE position < 0           -> 0
    [] position > stream.size -> stream.size
    [] OTHER                  -> position

(* Whether Read gets n bytes.                                              *)
Holds(stream, position, n) == position + n <= stream.size

(* The structure of a kind that begins at a position.                      *)
IsAt(stream, position, kind) ==
  position \in DOMAIN stream.at /\ stream.at[position].kind = kind

(* The piece a byte belongs to.                                            *)
StartsBefore(stream, position) ==
  {o \in DOMAIN stream.at : o <= position /\ position < o + stream.at[o].size}

(* What was written there, whether it is still there or not.               *)
ByteWritten(stream, position) ==
  IF StartsBefore(stream, position) = {} THEN Unknown
  ELSE LET o == CHOOSE o \in StartsBefore(stream, position) : TRUE
       IN  IF stream.at[o].kind = "bytes" THEN stream.at[o].value[position - o + 1]
           ELSE Unknown

ByteAt(stream, position) ==
  IF position >= stream.size THEN Unknown ELSE ByteWritten(stream, position)

BytesAt(stream, position, n) == [i \in 1 .. n |-> ByteAt(stream, position + i - 1)]
=============================================================================
