---------------------------- MODULE PacketCodec ----------------------------
(***************************************************************************)
(* The bytes of a packet, on its way from a client through the relay to a  *)
(* server, and of the answers back: what PacketBuffer writes and reads,    *)
(* where, and when it throws.  Nothing catches out_of_range, so the        *)
(* program in which it is thrown ends.                                     *)
(*                                                                         *)
(* A buffer is the set of the cells written to it; the bytes between them  *)
(* are the zeros of the constructor.  A field is an int, a string or cards.*)
(* Reading where no cell begins gives zero if no cell is there, and garbage*)
(* otherwise.                                                              *)
(***************************************************************************)
EXTENDS Integers, Sequences, SequencesExt

CONSTANTS
  BufSize,  \* DATA_BUF_SIZE
  KeyLen,   \* the length of a UID- key
  Hand,     \* MAX_CARDS_ON_HAND
  Lengths   \* bound: the lengths of the strings that people type

ASSUME CodecAssumption ==
  BufSize \in Nat /\ KeyLen \in Nat \ {0} /\ Hand \in Nat /\ Lengths \subseteq Nat

VARIABLES
  packet,   \* the request: its type, and the lengths of its fields
  place,    \* who has it: "client", "relay", "server", then "back", "shown", "done"
  answer,   \* the packet a server answers with
  frame,    \* the bytes under way, as a PacketBuffer
  written,  \* history: the fields the last reader should have found, type first
  read,     \* history: the fields it found
  threw     \* the program an exception ended, or "none"

vars == <<packet, place, answer, frame, written, read, threw>>

(***************************************************************************)
(* PacketBuffer.                                                           *)
(***************************************************************************)
Int4(v) == [what |-> "int", n |-> v]
Text(name, len) == IF len = 0 THEN [what |-> "empty", n |-> 0] ELSE [what |-> name, n |-> len]
Cards(n) == [what |-> "cards", n |-> n]
Garbage == [what |-> "garbage", n |-> 0]

New == [cells |-> {}, off |-> 0, ok |-> TRUE]

Width(f) ==
  IF f.what = "int" THEN 4 ELSE IF f.what = "cards" THEN 4 * (f.n + 1) ELSE 4 + f.n

\* memcpy to the write offset, over what may be there.
Apart(c, from, size) == c.at + c.size <= from \/ from + size <= c.at
Put(b, size, value) ==
  [b EXCEPT !.off = @ + size,
            !.cells = IF size = 0 THEN @
                      ELSE {c \in @ : Apart(c, b.off, size)}
                             \cup {[at |-> b.off, size |-> size, value |-> value]}]

\* writeInt, writeString and writeCards: a size before what has one.
Write(b, f) ==
  IF ~b.ok \/ b.off + Width(f) > BufSize THEN [b EXCEPT !.ok = FALSE]
  ELSE IF f.what = "int" THEN Put(b, 4, f)
  ELSE Put(Put(b, 4, Int4(f.n)), Width(f) - 4, f)
WriteAll(b, fields) == FoldLeft(Write, b, fields)

\* writeBuffer: the written part of another buffer.
WriteBuffer(b, pb) ==
  IF ~b.ok \/ ~pb.ok \/ b.off + pb.off > BufSize THEN [b EXCEPT !.ok = FALSE]
  ELSE [b EXCEPT !.off = @ + pb.off,
                 !.cells = {c \in @ : Apart(c, b.off, pb.off)}
                             \cup {[c EXCEPT !.at = @ + b.off] : c \in pb.cells}]

\* setWriteOffset(size) also stores the size at the start.
SetWriteOffset(b, size) ==
  [b EXCEPT !.off = size,
            !.cells = {c \in @ : Apart(c, 0, 4)} \cup {[at |-> 0, size |-> 4, value |-> Int4(size)]}]

\* What size bytes at offset at hold.
At(b, at, size) ==
  IF \E c \in b.cells : c.at = at /\ c.size = size
  THEN (CHOOSE c \in b.cells : c.at = at /\ c.size = size).value
  ELSE IF \A c \in b.cells : Apart(c, at, size) THEN Int4(0) ELSE Garbage

\* readInt, readString, readCards of the game server and of the client, which
\* checks for a full hand at once.  r is a reader: where it is, what it found.
Fail(r) == [r EXCEPT !.ok = FALSE]
Read_Behind(b, r, kind) == [r EXCEPT !.at = @ + 4, !.found = Append(@, At(b, r.at, 4))]
Read(b, r, kind) ==
  LET first == At(b, r.at, 4)
      size == IF kind = "int" THEN 0 ELSE IF kind = "string" THEN first.n ELSE 4 * first.n
      value == IF kind = "int" \/ first = Garbage THEN first
               ELSE IF size > 0 THEN At(b, r.at + 4, size)
               ELSE IF kind = "string" THEN Text("", 0) ELSE Cards(0)
  IN IF \/ ~r.ok
        \/ r.at + 4 + size > BufSize
        \/ kind = "discarded" /\ b.off + 4 * (first.n + 1) > BufSize
        \/ kind = "hand" /\ r.at + 4 * (Hand + 1) > BufSize
     THEN Fail(r)
     ELSE [r EXCEPT !.at = @ + 4 + size, !.found = Append(@, value)]
ReadAll(b, kinds) ==
  FoldLeft(LAMBDA r, kind : Read(b, r, kind), [at |-> 4, found |-> <<>>, ok |-> TRUE], kinds)

\* serializePacket: a header of size and type.  The relay's own overload for a
\* ServerPacketType leaves the header out of the size.
Serialize_NoHeader(code, pb) == WriteBuffer(WriteAll(New, <<Int4(pb.off), Int4(code)>>), pb)
Serialize(code, pb) == WriteBuffer(WriteAll(New, <<Int4(pb.off + 8), Int4(code)>>), pb)
SerializeInRelay(code, pb) == WriteBuffer(WriteAll(New, <<Int4(pb.off), Int4(code)>>), pb)
SizeOf(b) == At(b, 0, 4).n

(***************************************************************************)
(* The packets: the fields that are written, and how they are read.        *)
(***************************************************************************)
Requests == <<"REQ_LOG_IN", "REQ_REGISTER", "REQ_HOST_ROOM", "REQ_ENTER_ROOM", "PlAYER_TURN_OVER">>
Answers ==
  <<"ACCEPT_LOG_IN", "REJECT_LOG_IN", "ACCEPT_REGISTER", "REJECT_REGISTER", "ALLOW_HOST_ROOM",
    "REJECT_HOST_ROOM", "ALLOW_ENTER_ROOM", "REJECT_ENTER_ROOM", "ALLOW_PLAY_GAME", "DEAL_CARDS",
    "PLAYER_TURN">>
Code(type) ==
  IF \E i \in DOMAIN Requests : Requests[i] = type
  THEN CHOOSE i \in DOMAIN Requests : Requests[i] = type
  ELSE 99 + CHOOSE i \in DOMAIN Answers : Answers[i] = type
IsLogin == packet.type \in {"REQ_LOG_IN", "REQ_REGISTER"}

Id == Text("id", packet.id)
Other == Text("other", packet.other)
RoomName == Text("room", packet.text)
Key == Text("key", KeyLen)

RequestFields ==
  CASE IsLogin -> <<Id, Text("password", packet.text)>>
    [] packet.type = "REQ_HOST_ROOM" -> <<Id, RoomName, Int4(1)>>
    [] packet.type = "REQ_ENTER_ROOM" -> <<Id, RoomName>>
    [] packet.type = "PlAYER_TURN_OVER" -> <<Id, RoomName, Cards(packet.cards)>>

\* What handlePacket of the login and of the game server reads.
RequestKinds ==
  CASE IsLogin -> <<"int", "string", "string", "string">>
    [] packet.type = "REQ_HOST_ROOM" -> <<"int", "string", "string", "int">>
    [] packet.type = "REQ_ENTER_ROOM" -> <<"int", "string", "string">>
    [] packet.type = "PlAYER_TURN_OVER" -> <<"int", "string", "string", "discarded">>

\* The id the relay appends is that of the connection: an account after a login.
StampedId == IF IsLogin THEN Key ELSE Id

\* The answers, by type, the first string, and the fields after it.  Entering
\* may start the game, which other hosts.
Answer(type, to, rest) == [type |-> type, to |-> to, rest |-> rest]
AnswersTo ==
  CASE packet.type = "REQ_LOG_IN" ->
         {Answer(t, Key, <<Id>>) : t \in {"ACCEPT_LOG_IN", "REJECT_LOG_IN"}}
    [] packet.type = "REQ_REGISTER" ->
         {Answer(t, Key, <<Id>>) : t \in {"ACCEPT_REGISTER", "REJECT_REGISTER"}}
    [] packet.type = "REQ_HOST_ROOM" ->
         {Answer(t, Id, <<>>) : t \in {"ALLOW_HOST_ROOM", "REJECT_HOST_ROOM"}}
    [] packet.type = "REQ_ENTER_ROOM" ->
         {Answer(t, Id, <<>>) : t \in {"ALLOW_ENTER_ROOM", "REJECT_ENTER_ROOM"}} \cup
         {Answer("ALLOW_PLAY_GAME", Id, <<Int4(1), Other>>),
          Answer("ALLOW_PLAY_GAME", Other, <<Int4(1), Id>>),
          Answer("PLAYER_TURN", Other, <<>>)} \cup
         {Answer("DEAL_CARDS", to, <<Cards(Hand)>>) : to \in {Id, Other}}
    [] packet.type = "PlAYER_TURN_OVER" ->
         {Answer("PLAYER_TURN", Other, <<Id, Cards(packet.cards)>>)}

\* What handlePacket of the client reads of an answer, and what it should find:
\* of the cards the others discarded only how many, and in the first turn of a
\* game, whose packet ends after the first string, nobody and none.
AnswerKinds(a) ==
  CASE a.type = "ALLOW_PLAY_GAME" -> <<"int", "string", "int", "string">>
    [] a.type = "DEAL_CARDS" -> <<"int", "string", "hand">>
    [] a.type = "PLAYER_TURN" -> <<"int", "string", "string", "int">>
    [] OTHER -> <<"int", "string">>
AnswerFields(a) ==
  CASE a.type \in {"ALLOW_PLAY_GAME", "DEAL_CARDS"} -> <<a.to>> \o a.rest
    [] a.type = "PLAYER_TURN" /\ a.rest = <<>> -> <<a.to, Text("", 0), Int4(0)>>
    [] a.type = "PLAYER_TURN" /\ a.rest # <<>> -> <<a.to, a.rest[1], Int4(a.rest[2].n)>>
    [] a.type = "ACCEPT_LOG_IN" -> a.rest
    [] OTHER -> <<a.to>>

(***************************************************************************)
(* The way of one packet.                                                  *)
(***************************************************************************)
Passes(f, to, who) ==
  \/ f.ok /\ frame' = f /\ place' = to /\ UNCHANGED threw
  \/ ~f.ok /\ threw' = who /\ place' = "done" /\ UNCHANGED frame
Finds(r, type, fields) ==
  /\ read' = r.found
  /\ written' = SubSeq(<<Int4(Code(type))>> \o fields, 1, Len(r.found))
WithOffset(f) == SetWriteOffset(f, SizeOf(f))

\* LoginManager, LobbyManager and GameManager build a request.
ClientSends ==
  /\ place = "client"
  /\ Passes(Serialize(Code(packet.type), WriteAll(New, RequestFields)), "relay", "client")
  /\ UNCHANGED <<packet, answer, written, read>>

\* handlePacket of the relay appends the id to a client's packet.
RelayForwards_AtStart ==
  /\ place = "relay"
  /\ Finds(ReadAll(frame, <<"int">>), packet.type, <<>>)
  /\ Passes(Write([frame EXCEPT !.off = 8], StampedId), "server", "relay")
  /\ UNCHANGED <<packet, answer>>
RelayForwards_Twice ==
  /\ place = "relay"
  /\ Finds(ReadAll(frame, <<"int">>), packet.type, <<>>)
  /\ Passes(LET b == WriteAll(WithOffset(frame), <<StampedId, StampedId>>)
            IN SetWriteOffset(b, b.off), "server", "relay")
  /\ UNCHANGED <<packet, answer>>
RelayForwards ==
  /\ place = "relay"
  /\ Finds(ReadAll(frame, <<"int">>), packet.type, <<>>)
  /\ Passes(LET b == Write(WithOffset(frame), StampedId)
            IN SetWriteOffset(b, b.off), "server", "relay")
  /\ UNCHANGED <<packet, answer>>

\* handlePacket of a server reads the request and builds an answer.
Body(a) == WriteBuffer(WriteAll(New, <<a.to>>), WriteAll(New, a.rest))
ServerAnswers ==
  /\ place = "server"
  /\ LET r == ReadAll(WithOffset(frame), RequestKinds)
     IN /\ Finds(r, packet.type, RequestFields \o <<StampedId>>)
        /\ \E a \in AnswersTo :
             /\ answer' = a
             /\ Passes(IF r.ok THEN Serialize(Code(a.type), Body(a)) ELSE [New EXCEPT !.ok = FALSE],
                       "back", "server")
  /\ UNCHANGED packet

\* handlePacket of the relay finds the client by the first string, and writes
\* an ACCEPT_LOG_IN of its own.
RelayReturns ==
  /\ place = "back"
  /\ LET accept == answer.type = "ACCEPT_LOG_IN"
         r == ReadAll(frame, <<"int", "string">> \o IF accept THEN <<"string">> ELSE <<>>)
     IN /\ Finds(r, answer.type, <<answer.to>> \o answer.rest)
        /\ Passes(IF ~r.ok THEN [frame EXCEPT !.ok = FALSE]
                  ELSE IF accept THEN SerializeInRelay(Code(answer.type), WriteAll(New, <<r.found[3]>>))
                  ELSE WithOffset(frame), "shown", "relay")
  /\ UNCHANGED <<packet, answer>>

\* handlePacket of the client.
ClientHandles ==
  /\ place = "shown"
  /\ LET r == ReadAll(WithOffset(frame), AnswerKinds(answer))
     IN /\ Finds(r, answer.type, AnswerFields(answer))
        /\ Passes([frame EXCEPT !.ok = r.ok], "done", "client")
  /\ UNCHANGED <<packet, answer>>

Packets ==
  [type : {"REQ_LOG_IN", "REQ_REGISTER", "REQ_HOST_ROOM"}, id : Lengths, text : Lengths,
   other : {0}, cards : {0}] \cup
  [type : {"REQ_ENTER_ROOM"}, id : Lengths, text : Lengths, other : Lengths, cards : {0}] \cup
  [type : {"PlAYER_TURN_OVER"}, id : Lengths, text : Lengths \cup {0}, other : Lengths, cards : 0 .. Hand]

Init ==
  /\ packet \in Packets
  /\ place = "client"
  /\ answer = Answer("none", Text("", 0), <<>>) /\ frame = New
  /\ written = <<>> /\ read = <<>>
  /\ threw = "none"

Next == ClientSends \/ RelayForwards \/ ServerAnswers \/ RelayReturns \/ ClientHandles
Spec == Init /\ [][Next]_vars

\* Whatever the lengths, every program that reads a packet finds the fields it
\* was written with, in spite of the id the relay appends, the size that counts
\* the header or does not, and the fields of a first turn that nobody wrote.
FieldsSurvive == read = written

\* With strings short enough no program is ended by a packet.  The tightest is
\* PlAYER_TURN_OVER: an id, a room, the id again, and the cards twice, since
\* readCards of the game server adds their size to an offset behind them.
SafeLength == (BufSize - 20 - 8 * (Hand + 1)) \div 3
ShortStringsAreSafe ==
  /\ packet.id <= SafeLength /\ packet.text <= SafeLength /\ packet.other <= SafeLength
  /\ KeyLen <= SafeLength
  => threw = "none"
=============================================================================
