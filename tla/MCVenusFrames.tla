---------------------------- MODULE MCVenusFrames ----------------------------
(***************************************************************************)
(* VenusFrames on streams put together from pieces of frames.              *)
(***************************************************************************)
EXTENDS VenusFrames

Frame(packet) ==
  <<160, 161, 0, Len(packet)>> \o packet \o <<chexxor(packet), 13, 10>>

(* Frames with a false start in the ID or the body, a frame whose body ends*)
(* like a frame, one with a bad checksum, one with a bad trailer, a header *)
(* too long for the buffer, one whose rest was lost, noise.                *)
Pieces == {
  Frame(<<168>>), Frame(<<160, 161>>), Frame(<<168, 13, 10>>),
  <<160, 161, 0, 1, 168, 7, 13, 10>>, <<160, 161, 0, 1, 168, 168, 13, 13>>,
  <<160, 161, 0, 9>>, <<160, 161, 0, 8, 168>>, <<7>>, <<160>> }

MCStreams == {a \o b \o c : a, b, c \in Pieces}

(* Datagrams that cut a frame, one that fills buf, and one too long for it.*)
MCChunks == 0 .. 5 \cup {BufSize, BufSize + 1}

(* The same with a frame of length 0. *)
EmptyStreams == {Frame(<<>>) \o Frame(<<168>>)}
=============================================================================
