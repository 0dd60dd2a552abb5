--------------------------- MODULE LiarsBarProofs ---------------------------
(***************************************************************************)
(* Proofs about LiarsBar, for any number of clients, accounts, rooms and   *)
(* cards, shared accounts and closing windows.  The first part, for any    *)
(* gap between two accepts: that everything keeps its type, that the       *)
(* relay's map agrees with the ids of its connections, and that accounts   *)
(* are registered once.  The second part, Logins, where no two clients are *)
(* accepted in one millisecond (MinGap = 1): that every packet reaches the *)
(* connection it is addressed to, that the relay outlives what its clients *)
(* ask of it, and that it finds every player who is logged in.             *)
(***************************************************************************)
EXTENDS LiarsBar, SequenceTheorems, FiniteSetTheorems, TLAPS

(***************************************************************************)
(* The data: queues, packets, hands, dealing and seats.                    *)
(***************************************************************************)

\* What Head, Tail and Append do to the type of a queue.
LEMMA QueueTypes ==
  ASSUME NEW S, NEW q \in Seq(S)
  PROVE  /\ q # <<>> => Head(q) \in S /\ Tail(q) \in Seq(S)
         /\ \A x \in S : Append(q, x) \in Seq(S)
         /\ \A s \in Seq(S) : q \o s \in Seq(S)
         /\ \A i \in DOMAIN q : q[i] \in S
BY HeadTailProperties, AppendProperties, ConcatProperties, ElementOfSeq, LenProperties

\* What remains in a queue, or is added to it, when one looks at its elements.
LEMMA QueueElements ==
  ASSUME NEW S, NEW q \in Seq(S)
  PROVE  /\ q # <<>> => \A i \in DOMAIN Tail(q) : \E j \in DOMAIN q : Tail(q)[i] = q[j]
         /\ q # <<>> => Head(q) = q[1] /\ 1 \in DOMAIN q
         /\ \A x \in S : \A i \in DOMAIN Append(q, x) :
              Append(q, x)[i] = x \/ (i \in DOMAIN q /\ Append(q, x)[i] = q[i])
<1>1. ASSUME q # <<>> PROVE \A i \in DOMAIN Tail(q) : \E j \in DOMAIN q : Tail(q)[i] = q[j]
  <2> SUFFICES ASSUME NEW i \in DOMAIN Tail(q) PROVE \E j \in DOMAIN q : Tail(q)[i] = q[j]
    OBVIOUS
  <2>1. i \in 1 .. Len(q) - 1 /\ Tail(q)[i] = q[i + 1]
    BY <1>1, HeadTailProperties, LenProperties
  <2>2. i + 1 \in DOMAIN q
    BY <2>1, LenProperties
  <2> QED BY <2>1, <2>2
<1>2. ASSUME q # <<>> PROVE Head(q) = q[1] /\ 1 \in DOMAIN q
  BY <1>2, HeadTailProperties, LenProperties, EmptySeq
<1>3. ASSUME NEW x \in S, NEW i \in DOMAIN Append(q, x)
      PROVE  Append(q, x)[i] = x \/ (i \in DOMAIN q /\ Append(q, x)[i] = q[i])
  <2>1. Append(q, x) \in Seq(S) /\ Len(Append(q, x)) = Len(q) + 1
    BY AppendProperties
  <2>2. i \in 1 .. Len(q) + 1
    BY <2>1, LenProperties
  <2>3. CASE i = Len(q) + 1
    BY <2>3, AppendProperties
  <2>4. CASE i \in 1 .. Len(q)
    BY <2>4, AppendProperties, LenProperties
  <2> QED BY <2>2, <2>3, <2>4, LenProperties
<1> QED BY <1>1, <1>2, <1>3

\* Where the elements of a queue are after a packet is taken or added.
LEMMA QueuePositions ==
  ASSUME NEW S, NEW q \in Seq(S)
  PROVE  /\ q # <<>> => /\ Head(q) = q[1] /\ 1 \in DOMAIN q
                        /\ \A i \in DOMAIN Tail(q) : i + 1 \in DOMAIN q /\ Tail(q)[i] = q[i + 1]
         /\ \A x \in S : \A i \in DOMAIN Append(q, x) :
              \/ i \in DOMAIN q /\ Append(q, x)[i] = q[i]
              \/ i = Len(q) + 1 /\ Append(q, x)[i] = x
         /\ \A i \in DOMAIN q : i \in Int /\ 1 <= i
         /\ Len(q) \in Nat
<1>1. ASSUME q # <<>>, NEW i \in DOMAIN Tail(q) PROVE i + 1 \in DOMAIN q /\ Tail(q)[i] = q[i + 1]
  <2>1. i \in 1 .. Len(q) - 1 /\ Tail(q)[i] = q[i + 1]
    BY <1>1, HeadTailProperties, LenProperties
  <2> QED BY <2>1, LenProperties
<1>2. ASSUME NEW x \in S, NEW i \in DOMAIN Append(q, x)
      PROVE  \/ i \in DOMAIN q /\ Append(q, x)[i] = q[i]
             \/ i = Len(q) + 1 /\ Append(q, x)[i] = x
  <2>1. Append(q, x) \in Seq(S) /\ Len(Append(q, x)) = Len(q) + 1
    BY AppendProperties
  <2>2. i \in 1 .. Len(q) + 1
    BY <2>1, LenProperties
  <2>3. CASE i = Len(q) + 1
    BY <2>3, AppendProperties
  <2>4. CASE i \in 1 .. Len(q)
    BY <2>4, AppendProperties, LenProperties
  <2> QED BY <2>2, <2>3, <2>4, LenProperties
<1>3. (\A i \in DOMAIN q : i \in Int /\ 1 <= i) /\ Len(q) \in Nat
  BY LenProperties
<1> QED BY <1>1, <1>2, <1>3, QueueElements

\* What stays in a queue that is taken from or added to.
LEMMA QueueStays ==
  ASSUME NEW S, NEW q \in Seq(S)
  PROVE  /\ q # <<>> => \A i \in DOMAIN q : i = 1 \/ (i - 1 \in DOMAIN Tail(q) /\ Tail(q)[i - 1] = q[i])
         /\ \A x \in S : /\ \A i \in DOMAIN q : i \in DOMAIN Append(q, x) /\ Append(q, x)[i] = q[i]
                         /\ Len(q) + 1 \in DOMAIN Append(q, x) /\ Append(q, x)[Len(q) + 1] = x
<1>1. DOMAIN q = 1 .. Len(q) /\ Len(q) \in Nat
  BY LenProperties
<1>2. ASSUME q # <<>>, NEW i \in DOMAIN q, i # 1 PROVE i - 1 \in DOMAIN Tail(q) /\ Tail(q)[i - 1] = q[i]
  <2>1. /\ Tail(q) \in Seq(S) /\ Len(Tail(q)) = Len(q) - 1
        /\ \A k \in 1 .. Len(Tail(q)) : Tail(q)[k] = q[k + 1]
    BY <1>2, HeadTailProperties
  <2>2. i - 1 \in 1 .. Len(Tail(q)) /\ (i - 1) + 1 = i
    BY <1>1, <1>2, <2>1
  <2>3. Tail(q)[i - 1] = q[(i - 1) + 1]
    BY <2>1, <2>2
  <2> QED BY <2>1, <2>2, <2>3, LenProperties
<1>3. ASSUME NEW x \in S
      PROVE  /\ \A i \in DOMAIN q : i \in DOMAIN Append(q, x) /\ Append(q, x)[i] = q[i]
             /\ Len(q) + 1 \in DOMAIN Append(q, x) /\ Append(q, x)[Len(q) + 1] = x
  <2>1. /\ Append(q, x) \in Seq(S) /\ Len(Append(q, x)) = Len(q) + 1
        /\ \A k \in 1 .. Len(q) : Append(q, x)[k] = q[k]
        /\ Append(q, x)[Len(q) + 1] = x
    BY AppendProperties
  <2>2. DOMAIN Append(q, x) = 1 .. Len(q) + 1
    BY <2>1, LenProperties
  <2> QED BY <1>1, <2>1, <2>2
<1> QED BY <1>2, <1>3

\* The set of a packet is known from its type.
LEMMA ClientPacketKinds ==
  ASSUME NEW p \in ClientPacket
  PROVE  /\ p.type \in LoginRequests \cup GameRequests
         /\ p.type \in LoginRequests => p \in LoginRequest
         /\ p.type \in GameRequests => p \in GameRequest
BY DEF ClientPacket, LoginRequest, GameRequest, LoginRequests, GameRequests, RoomRequests

LEMMA ServerPacketKinds ==
  ASSUME NEW p \in ServerPacket
  PROVE  /\ p.type \in LoginReplies \cup GameReplies
         /\ p.type \in LoginReplies => p \in LoginReply
         /\ p.type # "ACCEPT_LOG_IN" => p \in PacketToClient
         /\ p.to \in Ids
BY DEF ServerPacket, LoginReply, GamePacket, LoginReplies, GameReplies, RoomReplies, PacketToClient, Ids

LEMMA PacketToClientKinds ==
  ASSUME NEW p \in PacketToClient
  PROVE  /\ p.type = "ACCEPT_LOG_IN" => p.to \in Users
         /\ p.type = "ALLOW_PLAY_GAME" => p.others \in Seq(Users)
         /\ p.type = "DEAL_CARDS" => p.cards \in Bag
         /\ p.type = "PLAYER_TURN" => p.previous \in Users \cup {Nobody} /\ p.discarded \in Nat
BY DEF LoginReplies, GamePacket, RoomReplies, PacketToClient

LEMMA GameRequestKinds ==
  ASSUME NEW p \in GameRequest
  PROVE  /\ p.id \in Users
         /\ p.type \in RoomRequests => p.room \in RoomNames
         /\ p.type = "PlAYER_TURN_OVER" => p.room \in RoomNames \cup {Nobody} /\ p.discarded \in Nat
BY DEF GameRequest, RoomRequests

\* No two kinds of packet share a type.
LEMMA TypesDiffer ==
  /\ LoginRequests \cap GameRequests = {}
  /\ LoginReplies \cap GameReplies = {}
  /\ (LoginRequests \cup GameRequests) \cap (LoginReplies \cup GameReplies) = {}
BY DEF LoginRequests, GameRequests, RoomRequests, LoginReplies, GameReplies, RoomReplies

\* Size counts cards, and a smaller hand has no more of them.
LEMMA SizeMonotonic ==
  ASSUME NEW a \in Bag, NEW b \in Bag, \A t \in CardTypes : a[t] <= b[t]
  PROVE  Size(a) \in Nat /\ Size(b) \in Nat /\ Size(a) <= Size(b)
<1> DEFINE All == CardTypes \X (1 .. HandSize)
            In(x) == {e \in All : e[2] <= x[e[1]]}
<1>1. IsFiniteSet(All)
  <2>1. IsFiniteSet(CardTypes) /\ HandSize \in Int
    BY NetworkAssumption
  <2>2. IsFiniteSet(1 .. HandSize)
    BY <2>1, FS_Interval
  <2> HIDE DEF All
  <2> QED BY <2>1, <2>2, FS_Product DEF All
<1>2. In(a) \subseteq In(b)
  <2> SUFFICES ASSUME NEW e \in In(a) PROVE e \in In(b)
    OBVIOUS
  <2>1. PICK t \in CardTypes, n \in 1 .. HandSize : e = <<t, n>> /\ n <= a[t]
    OBVIOUS
  <2>2. a[t] \in Int /\ b[t] \in Int /\ a[t] <= b[t]
    BY DEF Bag
  <2>3. n <= b[t]
    BY <2>1, <2>2
  <2> QED BY <2>1, <2>3
<1>3. IsFiniteSet(In(b)) /\ IsFiniteSet(In(a))
  BY <1>1, FS_Subset
<1>4. Size(a) = Cardinality(In(a)) /\ Size(b) = Cardinality(In(b))
  BY DEF Size
<1> QED BY <1>2, <1>3, <1>4, FS_Subset, FS_CardinalityType

LEMMA SizeType == \A b \in Bag : Size(b) \in Nat
BY SizeMonotonic DEF Bag

\* The cards of a hand, numbered within their type, are what Size counts.
CardsIn(bag) == {e \in CardTypes \X (1 .. HandSize) : e[2] <= bag[e[1]]}

LEMMA CardsFinite ==
  ASSUME NEW bag
  PROVE  IsFiniteSet(CardsIn(bag)) /\ Size(bag) = Cardinality(CardsIn(bag)) /\ Size(bag) \in Nat
<1>1. IsFiniteSet(CardTypes \X (1 .. HandSize))
  <2>1. IsFiniteSet(CardTypes) /\ HandSize \in Int
    BY NetworkAssumption
  <2>2. IsFiniteSet(1 .. HandSize)
    BY <2>1, FS_Interval
  <2> QED BY <2>1, <2>2, FS_Product
<1>2. CardsIn(bag) \in SUBSET (CardTypes \X (1 .. HandSize))
  BY DEF CardsIn
<1>3. IsFiniteSet(CardsIn(bag)) /\ Size(bag) = Cardinality(CardsIn(bag))
  BY <1>1, <1>2, FS_Subset DEF Size, CardsIn
<1> QED BY <1>3, FS_CardinalityType

\* discardCards leaves the player a hand, with the counter in its range.
LEMMA DiscardType ==
  ASSUME NEW p \in Me, NEW chosen \in DiscardChoices, NEW q \in Discard(p, chosen)
  PROVE  q \in Me /\ q.id = p.id
<1> USE ClientAssumption, NetworkAssumption
<1>1. p.hand \in Bag /\ p.num \in Floor .. HandSize /\ p.id \in Users /\ chosen \in Bag
  BY DEF Me, DiscardChoices
<1>2. \A n \in Int : n <= HandSize => Floored(n) \in Floor .. HandSize
  BY DEF Floored
<1>3. CASE Size(chosen) = 0
  <2>1. CASE \E t \in CardTypes : p.hand[t] > 0 /\ q = [p EXCEPT !.hand[t] = @ - 1, !.num = Floored(@ - 2)]
    <3>1. PICK t \in CardTypes : p.hand[t] > 0 /\ q = [p EXCEPT !.hand[t] = @ - 1, !.num = Floored(@ - 2)]
      BY <2>1
    <3>2. q = [id |-> p.id, hand |-> [p.hand EXCEPT ![t] = @ - 1], num |-> Floored(p.num - 2)]
      BY <3>1 DEF Me
    <3>3. [p.hand EXCEPT ![t] = @ - 1] \in Bag
      BY <1>1, <3>1 DEF Bag
    <3> QED BY <1>1, <1>2, <3>2, <3>3 DEF Me
  <2>2. CASE q = [p EXCEPT !.num = Floored(@ - 1)]
    <3>1. q = [id |-> p.id, hand |-> p.hand, num |-> Floored(p.num - 1)]
      BY <2>2 DEF Me
    <3> QED BY <1>1, <1>2, <3>1 DEF Me
  <2> QED BY <1>3, <2>1, <2>2 DEF Discard
<1>4. CASE Size(chosen) # 0 /\ Size(chosen) > MaxDiscard
  BY <1>4 DEF Discard
<1>5. CASE Size(chosen) # 0 /\ ~(Size(chosen) > MaxDiscard)
  <2> DEFINE left == [t \in CardTypes |-> IF chosen[t] < p.hand[t] THEN p.hand[t] - chosen[t] ELSE 0]
  <2>1. q = [p EXCEPT !.hand = left, !.num = Floored(@ - (Size(p.hand) - Size(left)))]
    BY <1>5 DEF Discard
  <2>2. left \in Bag /\ \A t \in CardTypes : left[t] <= p.hand[t]
    BY <1>1 DEF Bag
  <2>3. Size(left) \in Nat /\ Size(p.hand) \in Nat /\ Size(left) <= Size(p.hand)
    <3> HIDE DEF left
    <3> QED BY <1>1, <2>2, SizeMonotonic
  <2>4. q = [id |-> p.id, hand |-> left, num |-> Floored(p.num - (Size(p.hand) - Size(left)))]
    BY <2>1 DEF Me
  <2> HIDE DEF left
  <2> QED BY <1>1, <1>2, <2>2, <2>3, <2>4 DEF Me
<1> QED BY <1>3, <1>4, <1>5

\* Whoever holds as many cards as are drawn does so after discarding.
LEMMA DiscardLeaves ==
  ASSUME NEW p \in Me, NEW chosen \in DiscardChoices, NEW q \in Discard(p, chosen), p.num <= Size(p.hand)
  PROVE  q.num <= Size(q.hand)
<1> USE ClientAssumption, NetworkAssumption
<1>1. p.hand \in Bag /\ p.num \in Int /\ chosen \in Bag /\ Size(p.hand) \in Nat /\ Size(NoCards) \in Nat
  BY SizeType DEF Me, DiscardChoices, Bag, NoCards
<1>2. \A n \in Int, m \in Nat : n <= m => Floored(n) <= m
  BY DEF Floored
<1>3. CASE Size(chosen) = 0
  <2>1. CASE \E t \in CardTypes : p.hand[t] > 0 /\ q = [p EXCEPT !.hand[t] = @ - 1, !.num = Floored(@ - 2)]
    <3>1. PICK t \in CardTypes : p.hand[t] > 0 /\ q = [p EXCEPT !.hand[t] = @ - 1, !.num = Floored(@ - 2)]
      BY <2>1
    <3>2. q.hand = [p.hand EXCEPT ![t] = @ - 1] /\ q.num = Floored(p.num - 2)
      BY <3>1 DEF Me
    <3>3. CardsIn(q.hand) = CardsIn(p.hand) \ {<<t, p.hand[t]>>}
      <4>1. \A s \in CardTypes : q.hand[s] = IF s = t THEN p.hand[s] - 1 ELSE p.hand[s]
        BY <1>1, <3>2 DEF Bag
      <4>2. \A s \in CardTypes : p.hand[s] \in Int
        BY <1>1 DEF Bag
      <4> QED BY <4>1, <4>2 DEF CardsIn
    <3>4. Size(q.hand) \in Nat /\ Size(p.hand) - 1 <= Size(q.hand)
      <4>1. PICK S, x : S = CardsIn(p.hand) /\ x = <<t, p.hand[t]>>
        OBVIOUS
      <4>2. IsFiniteSet(S) /\ Cardinality(S) = Size(p.hand)
        BY <4>1, CardsFinite
      <4>3. Cardinality(S \ {x}) = Size(q.hand) /\ Size(q.hand) \in Nat
        BY <3>3, <4>1, CardsFinite
      <4>4. Cardinality(S \ {x}) = IF x \in S THEN Cardinality(S) - 1 ELSE Cardinality(S)
        BY <4>2, FS_RemoveElement
      <4> QED BY <1>1, <4>2, <4>3, <4>4
    <3>5. p.num - 2 <= Size(q.hand)
      BY <1>1, <3>4
    <3> QED BY <1>1, <1>2, <3>2, <3>4, <3>5
  <2>2. CASE q = [p EXCEPT !.num = Floored(@ - 1)]
    <3>1. q.hand = p.hand /\ q.num = Floored(p.num - 1)
      BY <2>2 DEF Me
    <3>2. p.num - 1 <= Size(p.hand)
      BY <1>1
    <3> QED BY <1>1, <1>2, <3>1, <3>2
  <2> QED BY <1>3, <2>1, <2>2 DEF Discard
<1>4. CASE Size(chosen) # 0 /\ Size(chosen) > MaxDiscard
  BY <1>4 DEF Discard
<1>5. CASE Size(chosen) # 0 /\ ~(Size(chosen) > MaxDiscard)
  <2> DEFINE left == [t \in CardTypes |-> IF chosen[t] < p.hand[t] THEN p.hand[t] - chosen[t] ELSE 0]
  <2>1. q = [p EXCEPT !.hand = left, !.num = Floored(@ - (Size(p.hand) - Size(left)))]
    BY <1>5 DEF Discard
  <2> HIDE DEF left
  <2>2. q.hand = left /\ q.num = Floored(p.num - (Size(p.hand) - Size(left)))
    BY <2>1 DEF Me
  <2>3. Size(left) \in Nat
    BY CardsFinite
  <2>4. p.num - (Size(p.hand) - Size(left)) <= Size(left)
    BY <1>1, <2>3
  <2> QED BY <1>1, <1>2, <2>2, <2>3, <2>4
<1> QED BY <1>3, <1>4, <1>5

\* A sequence has one length.
LEMMA SameLength ==
  ASSUME NEW m \in Nat, NEW n \in Nat, 1 .. m = 1 .. n
  PROVE  m = n
<1>1. ~(m < n)
  <2> SUFFICES ASSUME m < n PROVE FALSE
    OBVIOUS
  <2>1. n \in 1 .. n /\ n \notin 1 .. m
    OBVIOUS
  <2> QED BY <2>1
<1>2. ~(n < m)
  <2> SUFFICES ASSUME n < m PROVE FALSE
    OBVIOUS
  <2>1. m \in 1 .. m /\ m \notin 1 .. n
    OBVIOUS
  <2> QED BY <2>1
<1> QED BY <1>1, <1>2

\* How many integers an interval holds.
LEMMA IntervalSize ==
  ASSUME NEW a \in Int, NEW n \in Nat
  PROVE  IsFiniteSet(a .. (a + n - 1)) /\ Cardinality(a .. (a + n - 1)) = n
<1>1. PICK b \in Int : b = a + n - 1
  OBVIOUS
<1>2. IsFiniteSet(a .. b)
  BY FS_Interval
<1>3. Cardinality(a .. b) = IF a > b THEN 0 ELSE b - a + 1
  BY FS_Interval
<1>4. Cardinality(a .. b) = n
  BY <1>1, <1>3
<1> QED BY <1>1, <1>2, <1>4

\* A player is dealt HandSize cards.
LEMMA SliceSize ==
  ASSUME NEW i \in Nat
  PROVE  IsFiniteSet(Slice(i)) /\ Cardinality(Slice(i)) = HandSize
<1>1. HandSize \in Nat
  BY NetworkAssumption
<1>2. PICK a \in Int : a = (i - 1) * HandSize + 1
  BY <1>1
<1>3. i * HandSize = a + HandSize - 1
  BY <1>1, <1>2
<1>4. Slice(i) = a .. (a + HandSize - 1)
  BY <1>2, <1>3 DEF Slice
<1> QED BY <1>1, <1>4, IntervalSize

\* What the dealer deals is a hand.
LEMMA HandOfType ==
  ASSUME NEW p, NEW i \in Nat
  PROVE  HandOf(p, i) \in Bag
<1> USE NetworkAssumption
<1>1. IsFiniteSet(Slice(i)) /\ Cardinality(Slice(i)) = HandSize
  BY SliceSize
<1>2. ASSUME NEW t \in CardTypes
      PROVE  Cardinality({j \in Slice(i) : Deck[p[j]] = t}) \in 0 .. HandSize
  <2> DEFINE S == {j \in Slice(i) : Deck[p[j]] = t}
  <2>1. S \subseteq Slice(i)
    OBVIOUS
  <2> HIDE DEF S
  <2>2. IsFiniteSet(S) /\ Cardinality(S) <= HandSize /\ Cardinality(S) \in Nat
    BY <1>1, <2>1, FS_Subset, FS_CardinalityType
  <2> QED BY <2>2 DEF S
<1> QED BY <1>2 DEF HandOf, Bag

\* A hand that is dealt has HandSize cards at least: the j-th of them, by its
\* type and its number among those of this type.
LEMMA FullHand ==
  ASSUME NEW p \in Shuffles, NEW i \in 1 .. MaxPlayers
  PROVE  HandSize <= Size(HandOf(p, i))
<1> USE NetworkAssumption
<1> DEFINE Same(j) == {k \in Slice(i) : k <= j /\ Deck[p[k]] = Deck[p[j]]}
           All(t) == {k \in Slice(i) : Deck[p[k]] = t}
           f == [j \in Slice(i) |-> <<Deck[p[j]], Cardinality(Same(j))>>]
<1>1. IsFiniteSet(Slice(i)) /\ Cardinality(Slice(i)) = HandSize /\ Slice(i) \subseteq DOMAIN Deck
      /\ Slice(i) \subseteq Int
  <2>1. i \in Nat /\ 1 <= i /\ MaxPlayers \in Nat /\ i <= MaxPlayers /\ HandSize \in Nat /\ Len(Deck) \in Nat
    BY GameAssumption, LenProperties
  <2>2. MaxPlayers * HandSize \in Nat /\ MaxPlayers * HandSize <= Len(Deck) /\ DOMAIN Deck = 1 .. Len(Deck)
    BY <2>1, GameAssumption, LenProperties
  <2>3. 1 <= (i - 1) * HandSize + 1 /\ (i - 1) * HandSize + 1 \in Int
        /\ i * HandSize <= MaxPlayers * HandSize /\ i * HandSize \in Int
    BY <2>1
  <2> DEFINE a == (i - 1) * HandSize + 1
             b == i * HandSize
  <2>4. Slice(i) = a .. b /\ 1 <= a /\ a \in Int /\ b \in Int /\ b <= Len(Deck)
    <3>1. b <= Len(Deck)
      BY <2>1, <2>2, <2>3
    <3> QED BY <2>3, <3>1 DEF Slice
  <2> HIDE DEF a, b
  <2>5. a .. b \subseteq 1 .. Len(Deck)
    BY <2>1, <2>4
  <2> QED BY <2>1, <2>2, <2>4, <2>5, SliceSize
<1>2. ASSUME NEW j \in Slice(i)
      PROVE  /\ Deck[p[j]] \in CardTypes
             /\ Cardinality(Same(j)) \in 1 .. HandSize /\ Cardinality(Same(j)) <= HandOf(p, i)[Deck[p[j]]]
  <2>1. Deck[p[j]] \in CardTypes
    BY <1>1, GameAssumption, ElementOfSeq, LenProperties DEF Shuffles
  <2>2. Same(j) \in SUBSET All(Deck[p[j]]) /\ All(Deck[p[j]]) \in SUBSET Slice(i)
    OBVIOUS
  <2>3. HandOf(p, i)[Deck[p[j]]] = Cardinality(All(Deck[p[j]]))
    BY <2>1 DEF HandOf
  <2>4. j \in Same(j)
    BY <1>1
  <2> DEFINE A == Same(j)
             B == All(Deck[p[j]])
  <2> HIDE DEF Same, All, A, B
  <2>5. IsFiniteSet(B) /\ Cardinality(B) <= HandSize
    BY <1>1, <2>2, FS_Subset DEF B
  <2>6. IsFiniteSet(A) /\ Cardinality(A) <= Cardinality(B)
    BY <2>2, <2>5, FS_Subset DEF A, B
  <2>7. Cardinality(A) \in Nat /\ Cardinality(B) \in Nat /\ Cardinality(A) # 0
    BY <2>4, <2>5, <2>6, FS_CardinalityType, FS_EmptySet DEF A
  <2>8. Cardinality(A) \in 1 .. HandSize
    BY <2>5, <2>6, <2>7
  <2> QED BY <2>1, <2>3, <2>6, <2>8 DEF A, B
<1>3. ASSUME NEW j \in Slice(i), NEW k \in Slice(i), f[j] = f[k], j < k
      PROVE  FALSE
  <2>1. Deck[p[j]] = Deck[p[k]] /\ Cardinality(Same(j)) = Cardinality(Same(k))
    BY <1>3
  <2>2. Same(j) \subseteq Same(k) /\ k \in Same(k) /\ k \notin Same(j) /\ Same(k) \in SUBSET Slice(i)
    BY <1>1, <1>3, <2>1
  <2> HIDE DEF Same
  <2>3. IsFiniteSet(Same(k))
    BY <1>1, <2>2, FS_Subset
  <2>4. Same(j) = Same(k)
    BY <2>1, <2>2, <2>3, FS_Subset
  <2> QED BY <2>2, <2>4
<1>4. f \in Injection(Slice(i), CardsIn(HandOf(p, i)))
  <2>1. \A j \in Slice(i) : f[j] \in CardsIn(HandOf(p, i))
    <3> HIDE DEF Same
    <3> QED BY <1>2 DEF CardsIn
  <2>2. f \in [Slice(i) -> CardsIn(HandOf(p, i))]
    <3> HIDE DEF Same
    <3> QED BY <2>1
  <2>3. \A j, k \in Slice(i) : f[j] = f[k] => j = k
    <3> HIDE DEF f
    <3> QED BY <1>1, <1>3
  <2> HIDE DEF f
  <2> QED BY <2>2, <2>3 DEF Injection, IsInjective
<1> QED BY <1>1, <1>4, CardsFinite, FS_Injection

\* The other players of a room, in the order of their seats.
LEMMA OtherIdsType ==
  ASSUME NEW s \in Seq(Player), NEW i \in DOMAIN s
  PROVE  OtherIds(s, i) \in Seq(Users)
<1>1. i \in 1 .. Len(s) /\ Len(s) \in Nat
  BY LenProperties
<1> DEFINE a == SubSeq(s, 1, i - 1)
            b == SubSeq(s, i + 1, Len(s))
<1>2. a \in Seq(Player) /\ Len(a) = i - 1
  BY <1>1, SubSeqProperties
<1>3. b \in Seq(Player) /\ Len(b) = Len(s) - i
  BY <1>1, SubSeqProperties
<1>4. RemoveAt(s, i) = a \o b
  BY DEF RemoveAt
<1> HIDE DEF a, b
<1>5. RemoveAt(s, i) \in Seq(Player) /\ Len(RemoveAt(s, i)) = Len(s) - 1
  BY <1>1, <1>2, <1>3, <1>4, ConcatProperties
<1>6. \A j \in 1 .. Len(s) - 1 : RemoveAt(s, i)[j] \in Player
  <2> DEFINE rest == RemoveAt(s, i)
  <2>1. rest \in Seq(Player) /\ Len(rest) = Len(s) - 1
    BY <1>5
  <2> HIDE DEF rest
  <2>2. \A j \in 1 .. Len(rest) : rest[j] \in Player
    BY <2>1, ElementOfSeq
  <2> QED BY <2>1, <2>2 DEF rest
<1> DEFINE n == Len(s) - 1
<1>7. n \in Nat
  BY <1>1
<1>8. OtherIds(s, i) \in [1 .. n -> Users]
  BY <1>6 DEF OtherIds, Player
<1> HIDE DEF n
<1> QED BY <1>7, <1>8, SeqDef

\* They are all players but the one in seat i.
LEMMA OtherIdsAll ==
  ASSUME NEW s \in Seq(Player), NEW i \in DOMAIN s
  PROVE  /\ Len(OtherIds(s, i)) = Len(s) - 1
         /\ \A k \in DOMAIN s \ {i} : \E j \in DOMAIN OtherIds(s, i) : OtherIds(s, i)[j] = s[k].id
<1>1. i \in 1 .. Len(s) /\ Len(s) \in Nat /\ DOMAIN s = 1 .. Len(s)
  BY LenProperties
<1> DEFINE a == SubSeq(s, 1, i - 1)
           b == SubSeq(s, i + 1, Len(s))
<1>2. a \in Seq(Player) /\ Len(a) = i - 1 /\ \A j \in 1 .. i - 1 : a[j] = s[j]
  BY <1>1, SubSeqProperties
<1>3. b \in Seq(Player) /\ Len(b) = Len(s) - i /\ \A j \in 1 .. Len(s) - i : b[j] = s[i + j]
  <2>1. \A j \in 1 .. Len(s) - i : b[j] = s[i + 1 + j - 1] /\ i + 1 + j - 1 = i + j
    BY <1>1, SubSeqProperties
  <2>2. b \in Seq(Player) /\ Len(b) = Len(s) - i
    BY <1>1, SubSeqProperties
  <2> QED BY <2>1, <2>2
<1>4. RemoveAt(s, i) = a \o b
  BY DEF RemoveAt
<1> HIDE DEF a, b
<1>5. \A j \in 1 .. Len(s) - 1 : RemoveAt(s, i)[j] = IF j < i THEN s[j] ELSE s[j + 1]
  <2> SUFFICES ASSUME NEW j \in 1 .. Len(s) - 1
               PROVE  RemoveAt(s, i)[j] = IF j < i THEN s[j] ELSE s[j + 1]
    OBVIOUS
  <2>1. (a \o b)[j] = IF j <= Len(a) THEN a[j] ELSE b[j - Len(a)]
    BY <1>1, <1>2, <1>3, ConcatProperties
  <2>2. CASE j < i
    BY <1>1, <1>2, <1>4, <2>1, <2>2
  <2>3. CASE ~(j < i)
    <3>1. j - Len(a) \in 1 .. Len(s) - i /\ i + (j - Len(a)) = j + 1 /\ ~(j <= Len(a))
      BY <1>1, <1>2, <2>3
    <3> QED BY <1>3, <1>4, <2>1, <2>3, <3>1
  <2> QED BY <2>2, <2>3
<1> DEFINE o == OtherIds(s, i)
<1>6. DOMAIN o = 1 .. Len(s) - 1 /\ \A j \in 1 .. Len(s) - 1 : o[j] = IF j < i THEN s[j].id ELSE s[j + 1].id
  BY <1>5 DEF OtherIds
<1> HIDE DEF o
<1>7. Len(o) = Len(s) - 1
  <2>1. o \in Seq(Users)
    BY OtherIdsType DEF o
  <2>2. DOMAIN o = 1 .. Len(o) /\ Len(o) \in Nat
    BY <2>1, LenProperties
  <2>3. Len(s) - 1 \in Nat
    BY <1>1
  <2> DEFINE n == Len(s) - 1
  <2> HIDE DEF n
  <2>4. n \in Nat /\ DOMAIN o = 1 .. n
    BY <1>6, <2>3 DEF n
  <2>5. Len(o) = n
    BY <2>2, <2>4, SameLength
  <2> QED BY <2>5 DEF n
<1>8. ASSUME NEW k \in DOMAIN s \ {i} PROVE \E j \in DOMAIN o : o[j] = s[k].id
  <2>1. CASE k < i
    <3>1. k \in 1 .. Len(s) - 1
      BY <1>1, <2>1
    <3> QED BY <1>6, <2>1, <3>1
  <2>2. CASE i < k
    <3>1. k - 1 \in 1 .. Len(s) - 1 /\ ~(k - 1 < i) /\ (k - 1) + 1 = k
      BY <1>1, <2>2
    <3>2. k - 1 \in DOMAIN o /\ o[k - 1] = s[k].id
      BY <1>6, <3>1
    <3> QED BY <3>2
  <2> QED BY <1>1, <2>1, <2>2
<1> QED BY <1>7, <1>8 DEF o

(***************************************************************************)
(* The invariant.                                                          *)
(***************************************************************************)
Unaccepted(c) == conn[c] \in {"none", "pending"}

\* A connection has an id from the accept on; before, its client has shown no
\* page but the login page of its main thread and received nothing.
ConnectionsOK ==
  \A c \in Conns :
    /\ cid[c] = Nobody <=> Unaccepted(c)
    /\ Unaccepted(c) => io[c] = "idle" /\ r2c[c] = <<>>

\* Connections the relay will still ask for their id have one.
SendersKnown ==
  /\ \A i \in DOMAIN relayQ : relayQ[i].from # Nobody => cid[relayQ[i].from] # Nobody
  /\ \A c \in failing : cid[c] # Nobody

\* Between the two steps of ACCEPT_LOG_IN nobody gives the connection another id.
RekeyOK == rekey # Nobody => cid[rekey.c] = rekey.id

\* Only who is logged in plays a turn, and a room with players has a host.
TurnsLoggedIn == \A c \in Conns : io[c] = "turn" => me[c] \in Me
HostsKnown == \A r \in RoomNames : rooms[r].players # <<>> => rooms[r].host \in Users

\* An ACCEPT_LOG_IN on its way names an account that has a row.
AcceptsHaveRows ==
  /\ \A i \in DOMAIN l2r : l2r[i].type = "ACCEPT_LOG_IN" => db[l2r[i].id] # Nobody
  /\ \A i \in DOMAIN relayQ :
       relayQ[i].pb.type = "ACCEPT_LOG_IN" => db[relayQ[i].pb.id] # Nobody

\* What TypeOK and MapConsistent need to be inductive.
RoutingInv == ConnectionsOK /\ SendersKnown /\ RekeyOK /\ MapConsistent
PagesInv == TurnsLoggedIn /\ HostsKnown
RowsInv == AcceptsHaveRows /\ LoginsHaveRows
IInv == TypeOK /\ RoutingInv /\ PagesInv /\ RowsInv

\* What a step leaves alone keeps its part of the invariant.
LEMMA Frame ==
  /\ LinksTypeOK /\ UNCHANGED links => LinksTypeOK'
  /\ ClientTypeOK /\ UNCHANGED clientVars => ClientTypeOK'
  /\ LoginTypeOK /\ UNCHANGED db => LoginTypeOK'
  /\ RelayTypeOK /\ UNCHANGED relayVars => RelayTypeOK'
  /\ GameTypeOK /\ UNCHANGED gameVars => GameTypeOK'
  /\ RoutingInv /\ UNCHANGED <<conn, r2c, io, relayVars>> => RoutingInv'
  /\ PagesInv /\ UNCHANGED <<io, me, rooms>> => PagesInv'
  /\ RowsInv /\ UNCHANGED <<l2r, relayQ, db, cid>> => RowsInv'
<1>1. LinksTypeOK /\ UNCHANGED links => LinksTypeOK'
  BY DEF LinksTypeOK, links
<1>2. ClientTypeOK /\ UNCHANGED clientVars => ClientTypeOK'
  BY DEF ClientTypeOK, clientVars
<1>3. LoginTypeOK /\ UNCHANGED db => LoginTypeOK'
  BY DEF LoginTypeOK
<1>4. RelayTypeOK /\ UNCHANGED relayVars => RelayTypeOK'
  BY DEF RelayTypeOK, relayVars
<1>5. GameTypeOK /\ UNCHANGED gameVars => GameTypeOK'
  BY DEF GameTypeOK, gameVars
<1>6. RoutingInv /\ UNCHANGED <<conn, r2c, io, relayVars>> => RoutingInv'
  BY DEF RoutingInv, ConnectionsOK, SendersKnown, RekeyOK, MapConsistent, Unaccepted, relayVars
<1>7. PagesInv /\ UNCHANGED <<io, me, rooms>> => PagesInv'
  BY DEF PagesInv, TurnsLoggedIn, HostsKnown
<1>8. RowsInv /\ UNCHANGED <<l2r, relayQ, db, cid>> => RowsInv'
  BY DEF RowsInv, AcceptsHaveRows, LoginsHaveRows
<1> QED BY <1>1, <1>2, <1>3, <1>4, <1>5, <1>6, <1>7, <1>8

LEMMA InitIInv == Init => IInv
<1> SUFFICES ASSUME Init PROVE IInv
  OBVIOUS
<1> USE DEF Init, LinksInit, ClientInit, LoginInit, RelayInit, GameInit
<1> USE NetworkAssumption, ClientAssumption, LoginAssumption, GameAssumption, EmptySeq
<1>1. LinksTypeOK
  BY DEF LinksTypeOK, ConnStates
<1>2. ClientTypeOK
  BY DEF ClientTypeOK
<1>3. LoginTypeOK /\ RelayTypeOK
  BY DEF LoginTypeOK, RelayTypeOK
<1>4. GameTypeOK
  BY DEF GameTypeOK, Room, NewRoom
<1>5. RoutingInv
  BY DEF RoutingInv, ConnectionsOK, SendersKnown, RekeyOK, MapConsistent, Unaccepted
<1>6. PagesInv
  BY DEF PagesInv, TurnsLoggedIn, HostsKnown, NewRoom
<1>7. RowsInv
  BY DEF RowsInv, AcceptsHaveRows, LoginsHaveRows
<1> QED BY <1>1, <1>2, <1>3, <1>4, <1>5, <1>6, <1>7 DEF IInv, TypeOK

(***************************************************************************)
(* The client.                                                             *)
(***************************************************************************)

\* A step of an accepted client does not disturb the relay's bookkeeping.
LEMMA AcceptedClientStep ==
  ASSUME RoutingInv, UNCHANGED relayVars, NEW c \in Conns,
         ~Unaccepted(c), ~Unaccepted(c)',
         \A d \in Conns \ {c} : conn'[d] = conn[d] /\ io'[d] = io[d] /\ r2c'[d] = r2c[d]
  PROVE  RoutingInv'
BY DEF RoutingInv, ConnectionsOK, SendersKnown, RekeyOK, MapConsistent, Unaccepted, relayVars

\* A client that ends was accepted and stays so in the eyes of the relay.
LEMMA DieType ==
  ASSUME LinksTypeOK, NEW c \in Conns, Die(c)
  PROVE  /\ conn' \in [Conns -> ConnStates]
         /\ r2c' \in [Conns -> Seq(PacketToClient)]
         /\ ~Unaccepted(c)'
         /\ \A d \in Conns \ {c} : conn'[d] = conn[d] /\ r2c'[d] = r2c[d]
BY EmptySeq DEF LinksTypeOK, ConnStates, Die, Unaccepted

\* A page or a packet is only ever before an accepted client.
LEMMA Accepted ==
  ASSUME RoutingInv, NEW c \in Conns, io[c] # "idle" \/ r2c[c] # <<>>
  PROVE  ~Unaccepted(c)
BY DEF RoutingInv, ConnectionsOK

\* Sending keeps the type of the link.
LEMMA SendType ==
  ASSUME LinksTypeOK, NEW c \in Conns, NEW p \in ClientPacket, Send(c, p)
  PROVE  c2r' \in [Conns -> Seq(ClientPacket)]
<1>1. c2r[c] \in Seq(ClientPacket)
  BY DEF LinksTypeOK
<1>2. Append(c2r[c], p) \in Seq(ClientPacket)
  BY <1>1, QueueTypes
<1> QED BY <1>2 DEF LinksTypeOK, Send

LEMMA ConnectInv ==
  ASSUME IInv, NEW c \in Conns, ClientStep(Connect(c))
  PROVE  IInv'
<1> USE DEF IInv, TypeOK, ClientStep, Connect
<1>1. LinksTypeOK'
  BY DEF LinksTypeOK, ConnStates
<1>2. ClientTypeOK'
  BY DEF ClientTypeOK
<1>3. LoginTypeOK' /\ RelayTypeOK' /\ GameTypeOK' /\ PagesInv' /\ RowsInv'
  BY Frame DEF relayVars, gameVars
<1>4. RoutingInv'
  BY DEF RoutingInv, ConnectionsOK, SendersKnown, RekeyOK, MapConsistent, Unaccepted, relayVars, LinksTypeOK
<1> QED BY <1>1, <1>2, <1>3, <1>4

\* What the login page leaves behind.
LEMMA LoginPageLeft ==
  ASSUME IInv, NEW c \in Conns, LeaveLoginPage(c) \/ LeaveLobby(c),
         UNCHANGED <<me, room, others, notice, conn, r2c, relayVars, rooms>>
  PROVE  ClientTypeOK' /\ RoutingInv' /\ PagesInv'
<1> USE DEF IInv, TypeOK, LeaveLoginPage, LeaveLobby
<1>1. ClientTypeOK'
  BY DEF ClientTypeOK
<1>2. \A d \in Conns : io'[d] = io[d] \/ io'[d] = "idle"
  BY DEF ClientTypeOK
<1>3. RoutingInv'
  BY <1>2 DEF RoutingInv, ConnectionsOK, SendersKnown, RekeyOK, MapConsistent, Unaccepted, relayVars
<1>4. PagesInv'
  BY <1>2 DEF PagesInv, TurnsLoggedIn, HostsKnown
<1> QED BY <1>1, <1>3, <1>4

LEMMA LogInOrRegisterInv ==
  ASSUME IInv, NEW c \in Conns, ClientStep(LogInOrRegister(c))
  PROVE  IInv'
<1> USE DEF IInv, TypeOK, ClientStep, LogInOrRegister
<1>1. PICK type \in LoginRequests, u \in Owns[c], p \in Passwords :
        Send(c, [type |-> type, id |-> u, password |-> p])
  OBVIOUS
<1>2. [type |-> type, id |-> u, password |-> p] \in ClientPacket
  BY ClientAssumption DEF ClientPacket, LoginRequest
<1>3. c2r' \in [Conns -> Seq(ClientPacket)]
  BY <1>1, <1>2, SendType
<1>4. LinksTypeOK'
  BY <1>3 DEF LinksTypeOK
<1>5. LoginTypeOK' /\ RelayTypeOK' /\ GameTypeOK' /\ RowsInv'
  BY Frame DEF relayVars, gameVars
<1>6. ClientTypeOK' /\ RoutingInv' /\ PagesInv'
  BY LoginPageLeft DEF gameVars
<1> QED BY <1>4, <1>5, <1>6

LEMMA WrongInputInv ==
  ASSUME IInv, NEW c \in Conns, ClientStep(WrongInput(c))
  PROVE  IInv'
<1> USE DEF IInv, TypeOK, ClientStep, WrongInput
<1>1. LinksTypeOK' /\ LoginTypeOK' /\ RelayTypeOK' /\ GameTypeOK' /\ RowsInv'
  BY Frame DEF relayVars, gameVars, links
<1>2. ClientTypeOK' /\ RoutingInv' /\ PagesInv'
  BY LoginPageLeft DEF gameVars, links
<1> QED BY <1>1, <1>2

LEMMA HostOrJoinInv ==
  ASSUME IInv, NEW c \in Conns, ClientStep(HostOrJoin(c))
  PROVE  IInv'
<1> USE DEF IInv, TypeOK, ClientStep, HostOrJoin
<1>1. LoginTypeOK' /\ RelayTypeOK' /\ GameTypeOK' /\ RowsInv'
  BY Frame DEF relayVars, gameVars
<1>2. PICK type \in RoomRequests, r \in RoomNames :
        \/ /\ me[c] # Nobody
           /\ LeaveLobby(c)
           /\ room' = [room EXCEPT ![c] = r]
           /\ Send(c, [type |-> type, id |-> me[c].id, room |-> r])
           /\ UNCHANGED <<conn, r2c>>
        \/ /\ me[c] = Nobody
           /\ Die(c)
           /\ room' = IF type = "REQ_ENTER_ROOM" THEN [room EXCEPT ![c] = r] ELSE room
           /\ UNCHANGED <<main, io, c2r>>
  OBVIOUS
<1>3. CASE me[c] # Nobody
  <2> DEFINE p == [type |-> type, id |-> me[c].id, room |-> r]
  <2>1. me[c] \in Me
    BY <1>3 DEF ClientTypeOK
  <2>2. p \in ClientPacket
    BY <2>1 DEF ClientPacket, GameRequest, Me
  <2>3. c2r' \in [Conns -> Seq(ClientPacket)]
    BY <1>2, <1>3, <2>2, SendType
  <2>4. LinksTypeOK'
    BY <1>2, <1>3, <2>3 DEF LinksTypeOK
  <2>5. ClientTypeOK'
    <3>1. room' \in [Conns -> RoomNames \cup {Nobody}]
      BY <1>2, <1>3 DEF ClientTypeOK
    <3>2. io' \in [Conns -> {"idle", "login", "lobby", "turn"}] /\ UNCHANGED <<main, me, others, notice>>
      BY <1>2, <1>3 DEF ClientTypeOK, LeaveLobby
    <3> QED BY <3>1, <3>2 DEF ClientTypeOK
  <2>6. RoutingInv'
    <3>1. ~Unaccepted(c)
      BY Accepted
    <3> QED BY <1>2, <1>3, <3>1, AcceptedClientStep DEF LeaveLobby, Unaccepted, ClientTypeOK
  <2>7. PagesInv'
    BY <1>2, <1>3 DEF LeaveLobby, ClientTypeOK, PagesInv, TurnsLoggedIn, HostsKnown, gameVars
  <2> QED BY <1>1, <2>4, <2>5, <2>6, <2>7
<1>4. CASE me[c] = Nobody
  <2>1. /\ conn' \in [Conns -> ConnStates]
        /\ r2c' \in [Conns -> Seq(PacketToClient)]
        /\ ~Unaccepted(c)'
        /\ \A d \in Conns \ {c} : conn'[d] = conn[d] /\ r2c'[d] = r2c[d]
    BY <1>2, <1>4, DieType
  <2>2. LinksTypeOK'
    BY <1>2, <1>4, <2>1 DEF LinksTypeOK
  <2>3. ClientTypeOK'
    BY <1>2, <1>4 DEF ClientTypeOK
  <2>4. RoutingInv'
    <3>1. ~Unaccepted(c)
      BY Accepted
    <3> QED BY <1>2, <1>4, <2>1, <3>1, AcceptedClientStep
  <2>5. PagesInv'
    BY <1>2, <1>4 DEF PagesInv, TurnsLoggedIn, HostsKnown, gameVars
  <2> QED BY <1>1, <2>2, <2>3, <2>4, <2>5
<1> QED BY <1>3, <1>4

LEMMA FinishTurnInv ==
  ASSUME IInv, NEW c \in Conns, ClientStep(FinishTurn(c))
  PROVE  IInv'
<1> USE DEF IInv, TypeOK, ClientStep, FinishTurn
<1>1. LoginTypeOK' /\ RelayTypeOK' /\ GameTypeOK' /\ RowsInv'
  BY Frame DEF relayVars, gameVars
<1>2. me[c] \in Me /\ ~Unaccepted(c)
  BY Accepted DEF ClientTypeOK, PagesInv, TurnsLoggedIn
<1>3. PICK chosen \in DiscardChoices :
        \/ \E p \in Discard(me[c], chosen) :
             /\ me' = [me EXCEPT ![c] = p]
             /\ io' = [io EXCEPT ![c] = "idle"]
             /\ Send(c, [type |-> "PlAYER_TURN_OVER", id |-> me[c].id, room |-> room[c],
                         discarded |-> Size(chosen)])
             /\ ShowUI(c, p)
        \/ /\ Size(chosen) = 0 /\ me[c].hand = NoCards
           /\ Die(c)
           /\ UNCHANGED <<me, io, c2r>>
  OBVIOUS
<1>4. ASSUME NEW p \in Discard(me[c], chosen),
             me' = [me EXCEPT ![c] = p],
             io' = [io EXCEPT ![c] = "idle"],
             Send(c, [type |-> "PlAYER_TURN_OVER", id |-> me[c].id, room |-> room[c],
                      discarded |-> Size(chosen)]),
             ShowUI(c, p)
      PROVE  IInv'
  <2> DEFINE m == [type |-> "PlAYER_TURN_OVER", id |-> me[c].id, room |-> room[c],
                   discarded |-> Size(chosen)]
  <2>1. p \in Me
    BY <1>2, DiscardType
  <2>2. m \in ClientPacket
    <3>1. Size(chosen) \in Nat
      BY SizeType DEF DiscardChoices
    <3>2. me[c].id \in Users /\ room[c] \in RoomNames \cup {Nobody}
      BY <1>2 DEF Me, ClientTypeOK
    <3> QED BY <3>1, <3>2 DEF ClientPacket, GameRequest
  <2>3. c2r' \in [Conns -> Seq(ClientPacket)]
    <3> HIDE DEF m
    <3>1. Send(c, m)
      BY <1>4 DEF m
    <3> QED BY <2>2, <3>1, SendType
  <2>4. /\ conn' \in [Conns -> ConnStates]
        /\ r2c' \in [Conns -> Seq(PacketToClient)]
        /\ ~Unaccepted(c)'
        /\ \A d \in Conns \ {c} : conn'[d] = conn[d] /\ r2c'[d] = r2c[d]
    <3>1. CASE UNCHANGED <<conn, r2c>>
      BY <1>2, <3>1 DEF LinksTypeOK, Unaccepted
    <3>2. CASE Die(c)
      BY <3>2, DieType
    <3> QED BY <1>4, <3>1, <3>2 DEF ShowUI
  <2>5. LinksTypeOK'
    BY <2>3, <2>4 DEF LinksTypeOK
  <2>6. ClientTypeOK'
    BY <1>4, <2>1 DEF ClientTypeOK
  <2>7. RoutingInv'
    BY <1>2, <1>4, <2>4, AcceptedClientStep DEF ClientTypeOK
  <2>8. PagesInv'
    BY <1>4 DEF ClientTypeOK, PagesInv, TurnsLoggedIn, HostsKnown, gameVars
  <2> QED BY <1>1, <2>5, <2>6, <2>7, <2>8
<1>5. ASSUME Die(c), UNCHANGED <<me, io, c2r>>
      PROVE  IInv'
  <2>1. /\ conn' \in [Conns -> ConnStates]
        /\ r2c' \in [Conns -> Seq(PacketToClient)]
        /\ ~Unaccepted(c)'
        /\ \A d \in Conns \ {c} : conn'[d] = conn[d] /\ r2c'[d] = r2c[d]
    BY <1>5, DieType
  <2>2. LinksTypeOK'
    BY <1>5, <2>1 DEF LinksTypeOK
  <2>3. ClientTypeOK' /\ PagesInv'
    BY <1>5, Frame DEF clientVars, gameVars
  <2>4. RoutingInv'
    BY <1>2, <1>5, <2>1, AcceptedClientStep
  <2> QED BY <1>1, <2>2, <2>3, <2>4
<1> QED BY <1>3, <1>4, <1>5

LEMMA QuitInv ==
  ASSUME IInv, NEW c \in Conns, ClientStep(Quit(c))
  PROVE  IInv'
<1> USE DEF IInv, TypeOK, ClientStep, Quit
<1>1. LoginTypeOK' /\ RelayTypeOK' /\ GameTypeOK' /\ RowsInv' /\ ClientTypeOK' /\ PagesInv'
  BY Frame DEF relayVars, gameVars, clientVars
<1>2. /\ conn' \in [Conns -> ConnStates]
      /\ r2c' \in [Conns -> Seq(PacketToClient)]
      /\ ~Unaccepted(c)'
      /\ \A d \in Conns \ {c} : conn'[d] = conn[d] /\ r2c'[d] = r2c[d]
  BY DieType
<1>3. LinksTypeOK'
  BY <1>2 DEF LinksTypeOK
<1>4. ~Unaccepted(c)
  BY DEF Unaccepted
<1>5. RoutingInv'
  BY <1>2, <1>4, AcceptedClientStep DEF clientVars
<1> QED BY <1>1, <1>3, <1>5

\* A packet taken from the link, and a client that ends: both leave the links
\* typed and the relay's bookkeeping as it was.
LEMMA ReceiveStep ==
  ASSUME IInv, NEW c \in Conns, r2c[c] # <<>>, ReceivedQuietly(c), UNCHANGED relayVars,
         \A d \in Conns \ {c} : io'[d] = io[d]
  PROVE  LinksTypeOK' /\ RoutingInv'
<1> USE DEF IInv, TypeOK, ReceivedQuietly, Received
<1>1. Tail(r2c[c]) \in Seq(PacketToClient)
  BY QueueTypes DEF LinksTypeOK
<1>2. LinksTypeOK'
  BY <1>1 DEF LinksTypeOK
<1>3. ~Unaccepted(c) /\ ~Unaccepted(c)'
  BY Accepted DEF Unaccepted
<1>4. \A d \in Conns \ {c} : conn'[d] = conn[d] /\ io'[d] = io[d] /\ r2c'[d] = r2c[d]
  BY DEF LinksTypeOK
<1>5. RoutingInv'
  BY <1>3, <1>4, AcceptedClientStep
<1> QED BY <1>2, <1>5

LEMMA DieStep ==
  ASSUME IInv, NEW c \in Conns, ~Unaccepted(c), Die(c),
         UNCHANGED <<c2r, loginQ, l2r, gameQ, g2r, relayVars>>,
         \A d \in Conns \ {c} : io'[d] = io[d]
  PROVE  LinksTypeOK' /\ RoutingInv'
<1> USE DEF IInv, TypeOK
<1>1. /\ conn' \in [Conns -> ConnStates]
      /\ r2c' \in [Conns -> Seq(PacketToClient)]
      /\ ~Unaccepted(c)'
      /\ \A d \in Conns \ {c} : conn'[d] = conn[d] /\ r2c'[d] = r2c[d]
  BY DieType
<1>2. LinksTypeOK'
  BY <1>1 DEF LinksTypeOK
<1>3. RoutingInv'
  BY <1>1, AcceptedClientStep
<1> QED BY <1>2, <1>3

\* The packet a client receives.
LEMMA ReceivedPacket ==
  ASSUME IInv, NEW c \in Conns, NEW types, Receive(c, types)
  PROVE  /\ r2c[c] # <<>> /\ ~Unaccepted(c)
         /\ Head(r2c[c]) \in PacketToClient /\ Head(r2c[c]).type \in types
<1> USE DEF IInv, TypeOK, Receive
<1>1. r2c[c] # <<>> /\ Head(r2c[c]).type \in types
  OBVIOUS
<1>2. Head(r2c[c]) \in PacketToClient
  BY <1>1, QueueTypes DEF LinksTypeOK
<1>3. ~Unaccepted(c)
  BY <1>1, Accepted
<1> QED BY <1>1, <1>2, <1>3

\* The handlers that show a page or a notice and change nothing else.
LEMMA PageHandlerInv ==
  ASSUME IInv, NEW c \in Conns,
         \/ ClientStep(HandleAcceptRegister(c)) \/ ClientStep(HandleRejectLogin(c))
         \/ ClientStep(HandleRejectRoom(c)) \/ ClientStep(HandleAllowRoom(c))
  PROVE  IInv'
<1> USE DEF IInv, TypeOK
<1>1. /\ r2c[c] # <<>> /\ ReceivedQuietly(c) /\ UNCHANGED <<relayVars, db, gameVars, main, me, room, others>>
      /\ \/ UNCHANGED notice /\ \E page \in {"login", "lobby"} : io' = [io EXCEPT ![c] = page]
         \/ UNCHANGED io /\ \E n \in {"hosted", "entered"} : notice' = [notice EXCEPT ![c] = n]
  BY DEF ClientStep, HandleAcceptRegister, HandleRejectLogin, HandleRejectRoom, HandleAllowRoom,
         ShowPage, Receive
<1>2. LoginTypeOK' /\ RelayTypeOK' /\ GameTypeOK' /\ RowsInv'
  BY <1>1, Frame DEF relayVars, gameVars, ReceivedQuietly
<1>3. ClientTypeOK'
  BY <1>1 DEF ClientTypeOK
<1>4. LinksTypeOK' /\ RoutingInv'
  BY <1>1, ReceiveStep DEF ClientTypeOK
<1>5. PagesInv'
  BY <1>1 DEF ClientTypeOK, PagesInv, TurnsLoggedIn, HostsKnown, gameVars
<1> QED BY <1>2, <1>3, <1>4, <1>5

LEMMA HandleAcceptLogInInv ==
  ASSUME IInv, NEW c \in Conns, ClientStep(HandleAcceptLogIn(c))
  PROVE  IInv'
<1> USE DEF IInv, TypeOK, ClientStep, HandleAcceptLogIn, ShowPage
<1>1. LoginTypeOK' /\ RelayTypeOK' /\ GameTypeOK' /\ RowsInv'
  BY Frame DEF relayVars, gameVars, ReceivedQuietly
<1>2. Head(r2c[c]).to \in Users /\ r2c[c] # <<>>
  BY ReceivedPacket, PacketToClientKinds
<1>3. [id |-> Head(r2c[c]).to, hand |-> NoCards, num |-> HandSize] \in Me
  BY <1>2, NetworkAssumption, ClientAssumption DEF Me, NoCards, Bag
<1>4. ClientTypeOK'
  BY <1>3 DEF ClientTypeOK
<1>5. LinksTypeOK' /\ RoutingInv'
  BY <1>2, ReceiveStep DEF ClientTypeOK
<1>6. PagesInv'
  BY <1>3, NetworkAssumption DEF ClientTypeOK, PagesInv, TurnsLoggedIn, HostsKnown, gameVars
<1> QED BY <1>1, <1>4, <1>5, <1>6

LEMMA HandlePlayGameInv ==
  ASSUME IInv, NEW c \in Conns, ClientStep(HandlePlayGame(c))
  PROVE  IInv'
<1> USE DEF IInv, TypeOK, ClientStep, HandlePlayGame
<1>1. LoginTypeOK' /\ RelayTypeOK' /\ GameTypeOK' /\ RowsInv' /\ PagesInv'
  BY Frame DEF relayVars, gameVars, ReceivedQuietly
<1> DEFINE ids == Head(r2c[c]).others
           new == [i \in DOMAIN ids |-> [id |-> ids[i], num |-> HandSize]]
<1>2. ids \in Seq(Users) /\ r2c[c] # <<>>
  BY ReceivedPacket, PacketToClientKinds
<1>3. new \in Seq(OtherPlayer)
  <2> HIDE DEF ids
  <2>1. DOMAIN ids = 1 .. Len(ids) /\ Len(ids) \in Nat /\ \A i \in DOMAIN ids : ids[i] \in Users
    BY <1>2, LenProperties
  <2>2. HandSize \in Floor .. HandSize
    BY NetworkAssumption, ClientAssumption
  <2>3. new \in [1 .. Len(ids) -> OtherPlayer]
    BY <2>1, <2>2 DEF OtherPlayer
  <2> QED BY <2>1, <2>3, SeqDef
<1>4. others' = [others EXCEPT ![c] = @ \o new]
  OBVIOUS
<1> HIDE DEF new
<1>5. others[c] \o new \in Seq(OtherPlayer)
  BY <1>3, ConcatProperties DEF ClientTypeOK
<1>6. ClientTypeOK'
  BY <1>4, <1>5 DEF ClientTypeOK
<1>7. LinksTypeOK' /\ RoutingInv'
  BY <1>2, ReceiveStep
<1> QED BY <1>1, <1>6, <1>7

LEMMA HandleDealCardsInv ==
  ASSUME IInv, NEW c \in Conns, ClientStep(HandleDealCards(c))
  PROVE  IInv'
<1> USE DEF IInv, TypeOK
<1> DEFINE m == Head(r2c[c])
<1>1. /\ Receive(c, {"DEAL_CARDS"}) /\ UNCHANGED <<main, io, room, others, notice, db, relayVars, gameVars, l2r>>
      /\ \/ me[c] # Nobody /\ me' = [me EXCEPT ![c].hand = m.cards]
         \/ UNCHANGED me
      /\ ReceivedQuietly(c) \/ (Die(c) /\ UNCHANGED <<c2r, loginQ, l2r, gameQ, g2r>>)
  BY DEF ClientStep, HandleDealCards, ReceivedQuietly
<1>2. LoginTypeOK' /\ RelayTypeOK' /\ GameTypeOK' /\ RowsInv'
  BY <1>1, Frame DEF relayVars
<1>3. m.cards \in Bag /\ r2c[c] # <<>> /\ ~Unaccepted(c)
  BY <1>1, ReceivedPacket, PacketToClientKinds
<1>4. CASE UNCHANGED me
  <2>1. ClientTypeOK' /\ PagesInv'
    BY <1>1, <1>4, Frame DEF clientVars, gameVars
  <2>2. LinksTypeOK' /\ RoutingInv'
    BY <1>1, <1>3, ReceiveStep, DieStep
  <2> QED BY <1>2, <2>1, <2>2
<1>5. CASE me[c] # Nobody /\ me' = [me EXCEPT ![c].hand = m.cards]
  <2>1. me[c] \in Me
    BY <1>5 DEF ClientTypeOK
  <2>2. [me[c] EXCEPT !.hand = m.cards] \in Me
    BY <1>3, <2>1 DEF Me
  <2>3. me' = [me EXCEPT ![c] = [me[c] EXCEPT !.hand = m.cards]]
    BY <1>5
  <2>4. ClientTypeOK'
    BY <1>1, <2>2, <2>3 DEF ClientTypeOK
  <2>5. LinksTypeOK' /\ RoutingInv'
    BY <1>1, <1>3, ReceiveStep, DieStep
  <2>6. PagesInv'
    BY <1>1, <2>2, <2>3 DEF ClientTypeOK, PagesInv, TurnsLoggedIn, HostsKnown, gameVars
  <2> QED BY <1>2, <2>4, <2>5, <2>6
<1> QED BY <1>1, <1>4, <1>5

\* What is known of a player after a discard: a floored count for those who had more.
LEMMA SeesDiscardType ==
  ASSUME ClientTypeOK, NEW c \in Conns, NEW u \in Users, NEW n \in Nat, SeesDiscard(c, u, n)
  PROVE  others' \in [Conns -> Seq(OtherPlayer)]
<1> DEFINE s == others[c]
<1>1. s \in Seq(OtherPlayer)
  BY DEF ClientTypeOK
<1>2. PICK i \in Known(c, u) : others' = [others EXCEPT ![c] = Lowered(c, u, Floored(others[c][i].num - n))]
  BY DEF SeesDiscard
<1> DEFINE num == Floored(others[c][i].num - n)
<1>3. i \in DOMAIN s
  BY DEF Known
<1>4. s[i] \in OtherPlayer
  BY <1>1, <1>3, QueueTypes
<1>5. num \in Floor .. HandSize
  BY <1>4, ClientAssumption, NetworkAssumption DEF OtherPlayer, Floored
<1> HIDE DEF num
<1>6. DOMAIN s = 1 .. Len(s) /\ Len(s) \in Nat /\ \A j \in DOMAIN s : s[j] \in OtherPlayer
  BY <1>1, LenProperties, QueueTypes
<1>7. [id |-> u, num |-> num] \in OtherPlayer
  BY <1>5 DEF OtherPlayer
<1>8. Lowered(c, u, num) \in [1 .. Len(s) -> OtherPlayer]
  BY <1>6, <1>7 DEF Lowered
<1>9. Lowered(c, u, num) \in Seq(OtherPlayer)
  BY <1>6, <1>8, SeqDef
<1>10. others' = [others EXCEPT ![c] = Lowered(c, u, num)]
  BY <1>2 DEF num
<1> QED BY <1>9, <1>10 DEF ClientTypeOK

LEMMA HandlePlayerTurnInv ==
  ASSUME IInv, NEW c \in Conns, ClientStep(HandlePlayerTurn(c))
  PROVE  IInv'
<1> USE DEF IInv, TypeOK
<1> DEFINE m == Head(r2c[c])
<1>1. /\ Receive(c, {"PLAYER_TURN"}) /\ UNCHANGED <<main, me, room, notice, db, relayVars, gameVars, l2r>>
      /\ UNCHANGED others \/ (m.previous # Nobody /\ SeesDiscard(c, m.previous, m.discarded))
      /\ \/ me[c] # Nobody /\ io' = [io EXCEPT ![c] = "turn"] /\ ReceivedQuietly(c)
         \/ UNCHANGED io /\ Die(c) /\ UNCHANGED <<c2r, loginQ, l2r, gameQ, g2r>>
  BY DEF ClientStep, HandlePlayerTurn, ReceivedQuietly, ShowPage
<1>2. LoginTypeOK' /\ RelayTypeOK' /\ GameTypeOK' /\ RowsInv'
  BY <1>1, Frame DEF relayVars
<1>3. m.previous \in Users \cup {Nobody} /\ m.discarded \in Nat /\ r2c[c] # <<>> /\ ~Unaccepted(c)
  BY <1>1, ReceivedPacket, PacketToClientKinds
<1>4. others' \in [Conns -> Seq(OtherPlayer)]
  <2>1. CASE UNCHANGED others
    BY <2>1 DEF ClientTypeOK
  <2>2. CASE m.previous # Nobody /\ SeesDiscard(c, m.previous, m.discarded)
    BY <1>3, <2>2, SeesDiscardType
  <2> QED BY <1>1, <2>1, <2>2
<1>5. ClientTypeOK'
  BY <1>1, <1>4 DEF ClientTypeOK
<1>6. \A d \in Conns \ {c} : io'[d] = io[d]
  BY <1>1 DEF ClientTypeOK
<1>7. LinksTypeOK' /\ RoutingInv'
  BY <1>1, <1>3, <1>6, ReceiveStep, DieStep
<1>8. PagesInv'
  BY <1>1, <1>6 DEF ClientTypeOK, PagesInv, TurnsLoggedIn, HostsKnown, gameVars
<1> QED BY <1>2, <1>5, <1>7, <1>8

(***************************************************************************)
(* The login server.                                                       *)
(***************************************************************************)

\* An answer keeps the links typed.
LEMMA AnswerType ==
  ASSUME LinksTypeOK, NEW type \in LoginReplies, loginQ # <<>>,
         loginQ' = Tail(loginQ), Answer(type, Head(loginQ)), UNCHANGED <<conn, c2r, r2c, gameQ, g2r>>
  PROVE  LinksTypeOK'
<1>1. Head(loginQ) \in StampedRequest /\ Tail(loginQ) \in Seq(StampedRequest)
  BY QueueTypes DEF LinksTypeOK
<1> DEFINE p == [type |-> type, to |-> Head(loginQ).key, id |-> Head(loginQ).id]
<1>2. p \in LoginReply
  BY <1>1 DEF LoginReply, StampedRequest
<1>3. l2r' = Append(l2r, p)
  BY DEF Answer
<1> HIDE DEF p
<1>4. l2r' \in Seq(LoginReply)
  BY <1>2, <1>3, QueueTypes DEF LinksTypeOK
<1> QED BY <1>1, <1>4 DEF LinksTypeOK

\* An answer that accepts a login names an account with a row, and no row goes.
LEMMA AnswerRows ==
  ASSUME IInv, NEW p \in LoginReply, l2r' = Append(l2r, p),
         \A u \in Users : db[u] # Nobody => db'[u] # Nobody,
         p.type = "ACCEPT_LOG_IN" => db'[p.id] # Nobody,
         UNCHANGED relayVars
  PROVE  RowsInv'
<1> USE DEF IInv, TypeOK, RowsInv, AcceptsHaveRows, LoginsHaveRows
<1>1. l2r \in Seq(LoginReply) /\ relayQ \in Seq(RelayPacket)
  BY DEF LinksTypeOK, RelayTypeOK
<1>2. ASSUME NEW i \in DOMAIN l2r', l2r'[i].type = "ACCEPT_LOG_IN" PROVE db'[l2r'[i].id] # Nobody
  <2>1. CASE l2r'[i] = p
    BY <1>2, <2>1
  <2>2. CASE i \in DOMAIN l2r /\ l2r'[i] = l2r[i]
    <3>1. l2r[i] \in LoginReply
      BY <1>1, <2>2, QueueTypes
    <3>2. l2r[i].id \in Users
      BY <3>1 DEF LoginReply
    <3> QED BY <1>2, <2>2, <3>2
  <2> QED BY <1>1, <1>2, <2>1, <2>2, QueueElements
<1>3. ASSUME NEW i \in DOMAIN relayQ, relayQ[i].pb.type = "ACCEPT_LOG_IN" PROVE db'[relayQ[i].pb.id] # Nobody
  <2>1. relayQ[i] \in RelayPacket
    BY <1>1, QueueTypes
  <2>2. relayQ[i].pb \in ClientPacket \/ relayQ[i].pb \in ServerPacket
    BY <2>1 DEF RelayPacket
  <2>3. relayQ[i].pb.id \in Users
    BY <1>3, <2>2, ClientPacketKinds, ServerPacketKinds, TypesDiffer DEF LoginReply, LoginReplies
  <2> QED BY <1>3, <2>3
<1>4. LoginsHaveRows'
  BY DEF relayVars
<1> QED BY <1>2, <1>3, <1>4 DEF relayVars

LEMMA HandleLogInInv ==
  ASSUME IInv, LoginStep(HandleLogIn)
  PROVE  IInv'
<1> USE DEF IInv, TypeOK
<1> DEFINE m == Head(loginQ)
<1>1. /\ loginQ # <<>> /\ loginQ' = Tail(loginQ)
      /\ UNCHANGED <<db, conn, c2r, r2c, gameQ, g2r, clientVars, relayVars, gameVars>>
      /\ \/ db[m.id] = m.password /\ Answer("ACCEPT_LOG_IN", m)
         \/ Answer("REJECT_LOG_IN", m)
  BY DEF LoginStep, HandleLogIn, PopLogin, Matches
<1>2. LinksTypeOK'
  BY <1>1, AnswerType DEF LoginReplies
<1>3. ClientTypeOK' /\ LoginTypeOK' /\ RelayTypeOK' /\ GameTypeOK' /\ RoutingInv' /\ PagesInv'
  BY <1>1, Frame DEF clientVars, gameVars
<1>4. m \in StampedRequest
  BY <1>1, QueueTypes DEF LinksTypeOK
<1>5. RowsInv'
  <2>1. PICK type \in {"ACCEPT_LOG_IN", "REJECT_LOG_IN"} :
          Answer(type, m) /\ (type = "ACCEPT_LOG_IN" => db[m.id] = m.password)
    BY <1>1
  <2> DEFINE p == [type |-> type, to |-> m.key, id |-> m.id]
  <2>2. p \in LoginReply /\ l2r' = Append(l2r, p)
    BY <1>4, <2>1 DEF LoginReply, LoginReplies, StampedRequest, Answer
  <2>3. m.password # Nobody
    BY <1>4, NetworkAssumption DEF StampedRequest
  <2>4. p.type = "ACCEPT_LOG_IN" => db'[p.id] # Nobody
    BY <1>1, <2>1, <2>3
  <2> HIDE DEF p
  <2> QED BY <1>1, <2>2, <2>4, AnswerRows
<1> QED BY <1>2, <1>3, <1>5

LEMMA HandleRegisterInv ==
  ASSUME IInv, LoginStep(HandleRegister)
  PROVE  IInv'
<1> USE DEF IInv, TypeOK
<1> DEFINE m == Head(loginQ)
<1>1. /\ loginQ # <<>> /\ loginQ' = Tail(loginQ)
      /\ UNCHANGED <<conn, c2r, r2c, gameQ, g2r, clientVars, relayVars, gameVars>>
      /\ UNCHANGED db \/ (db[m.id] = Nobody /\ db' = [db EXCEPT ![m.id] = m.password])
      /\ Answer("ACCEPT_REGISTER", m) \/ Answer("REJECT_REGISTER", m)
  BY DEF LoginStep, HandleRegister, PopLogin, Taken
<1>2. LinksTypeOK'
  BY <1>1, AnswerType DEF LoginReplies
<1>3. m \in StampedRequest
  BY <1>1, QueueTypes DEF LinksTypeOK
<1>4. LoginTypeOK'
  BY <1>1, <1>3 DEF LoginTypeOK, StampedRequest
<1>5. ClientTypeOK' /\ RelayTypeOK' /\ GameTypeOK' /\ RoutingInv' /\ PagesInv'
  BY <1>1, Frame DEF clientVars, gameVars
<1>6. RowsInv'
  <2>1. PICK type \in {"ACCEPT_REGISTER", "REJECT_REGISTER"} : Answer(type, m)
    BY <1>1
  <2> DEFINE p == [type |-> type, to |-> m.key, id |-> m.id]
  <2>2. p \in LoginReply /\ l2r' = Append(l2r, p) /\ p.type # "ACCEPT_LOG_IN"
    BY <1>3, <2>1 DEF LoginReply, LoginReplies, StampedRequest, Answer
  <2>3. \A u \in Users : db[u] # Nobody => db'[u] # Nobody
    BY <1>1 DEF LoginTypeOK
  <2> HIDE DEF p
  <2> QED BY <1>1, <2>2, <2>3, AnswerRows
<1> QED BY <1>2, <1>4, <1>5, <1>6

(***************************************************************************)
(* The relay.                                                              *)
(***************************************************************************)

\* The packet the handler pops, and what stays in the queue.
LEMMA PoppedPacket ==
  ASSUME IInv, NEW types, PopRelay(types)
  PROVE  /\ relayQ' \in Seq(RelayPacket)
         /\ \A i \in DOMAIN relayQ' : \E j \in DOMAIN relayQ : relayQ'[i] = relayQ[j]
         /\ Head(relayQ) = relayQ[1] /\ 1 \in DOMAIN relayQ
         /\ Head(relayQ) \in RelayPacket
         /\ Head(relayQ).pb.type \in types
         /\ Head(relayQ).from # Nobody => cid[Head(relayQ).from] # Nobody
<1> USE DEF IInv, TypeOK
<1>1. relayQ \in Seq(RelayPacket) /\ relayQ # <<>> /\ relayQ' = Tail(relayQ) /\ Head(relayQ).pb.type \in types
  BY DEF PopRelay, RelayTypeOK
<1>2. /\ \A i \in DOMAIN relayQ' : \E j \in DOMAIN relayQ : relayQ'[i] = relayQ[j]
      /\ Head(relayQ) = relayQ[1] /\ 1 \in DOMAIN relayQ
  BY <1>1, QueueElements
<1>3. Head(relayQ) \in RelayPacket /\ relayQ' \in Seq(RelayPacket)
  BY <1>1, QueueTypes
<1>4. \A i \in DOMAIN relayQ : relayQ[i].from # Nobody => cid[relayQ[i].from] # Nobody
  BY DEF RoutingInv, SendersKnown
<1> QED BY <1>1, <1>2, <1>3, <1>4

\* A packet of the queue comes from a client or from a server, never both.
LEMMA RelayPacketKinds ==
  ASSUME NEW e \in RelayPacket
  PROVE  /\ e.pb.type \in LoginRequests => e.pb \in LoginRequest /\ e.from \in Conns
         /\ e.pb.type \in GameRequests => e.pb \in GameRequest /\ e.from \in Conns
         /\ e.pb.type \in LoginReplies \cup GameReplies => e.pb \in ServerPacket
<1>1. \/ e.pb \in ClientPacket /\ e.from \in Conns
      \/ e.pb \in ServerPacket
  BY DEF RelayPacket
<1> QED BY <1>1, ClientPacketKinds, ServerPacketKinds, TypesDiffer

\* A step that only takes packets out of the queue, or none, keeps what is said of them.
LEMMA QueueShrinks ==
  ASSUME \A i \in DOMAIN relayQ' : \E j \in DOMAIN relayQ : relayQ'[i] = relayQ[j],
         SendersKnown, RowsInv, UNCHANGED <<l2r, db>>,
         \A c \in Conns : cid[c] # Nobody => cid'[c] # Nobody,
         relayQ \in Seq(RelayPacket), Nobody \notin Conns
  PROVE  /\ \A i \in DOMAIN relayQ' : relayQ'[i].from # Nobody => cid'[relayQ'[i].from] # Nobody
         /\ AcceptsHaveRows'
<1>1. ASSUME NEW i \in DOMAIN relayQ', relayQ'[i].from # Nobody
      PROVE  cid'[relayQ'[i].from] # Nobody
  <2>1. PICK j \in DOMAIN relayQ : relayQ'[i] = relayQ[j]
    OBVIOUS
  <2>2. relayQ[j] \in RelayPacket
    BY QueueTypes
  <2>3. relayQ[j].from \in Conns
    BY <1>1, <2>1, <2>2 DEF RelayPacket
  <2> QED BY <1>1, <2>1, <2>3 DEF SendersKnown
<1>2. AcceptsHaveRows'
  BY DEF RowsInv, AcceptsHaveRows
<1> QED BY <1>1, <1>2

LEMMA ForwardInv ==
  ASSUME IInv, RelayStep(ForwardToLogin) \/ RelayStep(ForwardToGame)
  PROVE  IInv'
<1> USE DEF IInv, TypeOK
<1>1. UNCHANGED <<clientVars, db, gameVars, clients, cid, now, rekey, failing, lastError, relayUp,
                  conn, c2r, r2c, l2r, g2r>>
  BY DEF RelayStep, ForwardToLogin, ForwardToGame
<1>2. ClientTypeOK' /\ LoginTypeOK' /\ GameTypeOK' /\ PagesInv'
  BY <1>1, Frame DEF clientVars, gameVars
<1>3. PICK types : PopRelay(types)
  BY DEF RelayStep, ForwardToLogin, ForwardToGame
<1>4. /\ relayQ' \in Seq(RelayPacket)
      /\ \A i \in DOMAIN relayQ' : \E j \in DOMAIN relayQ : relayQ'[i] = relayQ[j]
  BY <1>3, PoppedPacket
<1>5. RelayTypeOK'
  BY <1>1, <1>4 DEF RelayTypeOK
<1>6. AcceptsHaveRows' /\ SendersKnown'
  BY <1>1, <1>4, QueueShrinks, NetworkAssumption DEF RoutingInv, SendersKnown, RelayTypeOK
<1>7. RoutingInv' /\ RowsInv'
  BY <1>1, <1>6 DEF RoutingInv, RowsInv, ConnectionsOK, RekeyOK, MapConsistent, LoginsHaveRows, Unaccepted,
                    clientVars
<1>8. LinksTypeOK'
  <2>1. CASE RelayStep(ForwardToLogin)
    <3> DEFINE p == Stamp(Head(relayQ).pb, cid[Head(relayQ).from])
    <3>1. PopRelay(LoginRequests) /\ loginQ' = Append(loginQ, p) /\ UNCHANGED gameQ
      BY <2>1 DEF RelayStep, ForwardToLogin
    <3>2. Head(relayQ).pb \in LoginRequest /\ Head(relayQ).from \in Conns
      BY <3>1, PoppedPacket, RelayPacketKinds
    <3>3. cid[Head(relayQ).from] \in Ids
      BY <3>1, <3>2, PoppedPacket, NetworkAssumption DEF RelayTypeOK
    <3>4. p \in StampedRequest
      BY <3>2, <3>3 DEF Stamp, StampedRequest, LoginRequest
    <3> HIDE DEF p
    <3>5. loginQ' \in Seq(StampedRequest)
      BY <3>1, <3>4, QueueTypes DEF LinksTypeOK
    <3> QED BY <1>1, <3>1, <3>5 DEF LinksTypeOK
  <2>2. CASE RelayStep(ForwardToGame)
    <3>1. PopRelay(GameRequests) /\ gameQ' = Append(gameQ, Head(relayQ).pb) /\ UNCHANGED loginQ
      BY <2>2 DEF RelayStep, ForwardToGame
    <3>2. Head(relayQ).pb \in GameRequest
      BY <3>1, PoppedPacket, RelayPacketKinds
    <3>3. gameQ' \in Seq(GameRequest)
      BY <3>1, <3>2, QueueTypes DEF LinksTypeOK
    <3> QED BY <1>1, <3>1, <3>3 DEF LinksTypeOK
  <2> QED BY <2>1, <2>2
<1> QED BY <1>2, <1>5, <1>7, <1>8

\* A write reaches an accepted client, or leaves its connection to the worker.
LEMMA SendToType ==
  ASSUME LinksTypeOK, RelayTypeOK, NEW c \in Conns, NEW p \in PacketToClient, SendTo(c, p)
  PROVE  /\ r2c' \in [Conns -> Seq(PacketToClient)]
         /\ failing' \subseteq failing \cup {c} /\ failing' \subseteq Conns
         /\ \A d \in Conns : r2c'[d] = r2c[d] \/ conn[d] = "up"
<1>1. CASE conn[c] = "up" /\ r2c' = [r2c EXCEPT ![c] = Append(@, p)] /\ UNCHANGED failing
  <2>1. Append(r2c[c], p) \in Seq(PacketToClient)
    BY QueueTypes DEF LinksTypeOK
  <2> QED BY <1>1, <2>1 DEF LinksTypeOK, RelayTypeOK
<1>2. CASE /\ conn[c] # "up"
           /\ failing' \in {failing, IF conn[c] = "closed" THEN failing ELSE failing \cup {c}}
           /\ UNCHANGED r2c
  BY <1>2 DEF LinksTypeOK, RelayTypeOK
<1> QED BY <1>1, <1>2 DEF SendTo

LEMMA ForwardToClientInv ==
  ASSUME IInv, RelayStep(ForwardToClient)
  PROVE  IInv'
<1> USE DEF IInv, TypeOK
<1> DEFINE p == Head(relayQ).pb
            c == clients[p.to]
<1>1. /\ UNCHANGED <<clientVars, db, gameVars, clients, cid, now, rekey, lastError,
                     conn, c2r, loginQ, l2r, gameQ, g2r>>
      /\ PopRelay((LoginReplies \ {"ACCEPT_LOG_IN"}) \cup GameReplies)
      /\ \/ c # Nobody /\ SendTo(c, p) /\ UNCHANGED relayUp
         \/ c = Nobody /\ relayUp' = FALSE /\ UNCHANGED <<failing, r2c>>
  BY DEF RelayStep, ForwardToClient
<1>2. ClientTypeOK' /\ LoginTypeOK' /\ GameTypeOK' /\ PagesInv'
  BY <1>1, Frame DEF clientVars, gameVars
<1>3. /\ relayQ' \in Seq(RelayPacket)
      /\ \A i \in DOMAIN relayQ' : \E j \in DOMAIN relayQ : relayQ'[i] = relayQ[j]
      /\ Head(relayQ) \in RelayPacket
      /\ p.type \in (LoginReplies \ {"ACCEPT_LOG_IN"}) \cup GameReplies
  BY <1>1, PoppedPacket
<1>4. p \in PacketToClient /\ p.to \in Ids
  <2>1. p \in ServerPacket /\ p.type # "ACCEPT_LOG_IN"
    BY <1>3, RelayPacketKinds DEF GameReplies, RoomReplies
  <2> QED BY <2>1, ServerPacketKinds
<1>5. c \in Conns \cup {Nobody} /\ (c # Nobody => cid[c] # Nobody)
  BY <1>4, NetworkAssumption DEF RelayTypeOK, RoutingInv, MapConsistent, Ids, Keys
<1>6. /\ r2c' \in [Conns -> Seq(PacketToClient)]
      /\ failing' \subseteq Conns /\ \A d \in failing' : cid[d] # Nobody
      /\ \A d \in Conns : r2c'[d] = r2c[d] \/ conn[d] = "up"
      /\ relayUp' \in BOOLEAN
  <2> HIDE DEF p, c
  <2>1. CASE c # Nobody /\ SendTo(c, p) /\ UNCHANGED relayUp
    BY <1>4, <1>5, <2>1, SendToType DEF RoutingInv, SendersKnown, RelayTypeOK
  <2>2. CASE relayUp' = FALSE /\ UNCHANGED <<failing, r2c>>
    BY <2>2 DEF RoutingInv, SendersKnown, RelayTypeOK, LinksTypeOK
  <2> QED BY <1>1, <2>1, <2>2
<1>7. LinksTypeOK'
  BY <1>1, <1>6 DEF LinksTypeOK
<1>8. RelayTypeOK'
  BY <1>1, <1>3, <1>6 DEF RelayTypeOK
<1>9. AcceptsHaveRows' /\ SendersKnown'
  BY <1>1, <1>3, <1>6, QueueShrinks, NetworkAssumption DEF RoutingInv, SendersKnown, RelayTypeOK
<1>10. RoutingInv' /\ RowsInv'
  BY <1>1, <1>6, <1>9 DEF RoutingInv, RowsInv, ConnectionsOK, RekeyOK, MapConsistent, LoginsHaveRows, Unaccepted,
                    clientVars
<1> QED BY <1>2, <1>7, <1>8, <1>10

LEMMA BeginRekeyInv ==
  ASSUME IInv, RelayStep(BeginRekey)
  PROVE  IInv'
<1> USE DEF IInv, TypeOK
<1> DEFINE p == Head(relayQ).pb
            c == clients[p.to]
<1>1. /\ UNCHANGED <<clientVars, db, gameVars, now, failing, lastError, links>>
      /\ PopRelay({"ACCEPT_LOG_IN"}) /\ rekey = Nobody
      /\ clients' = [clients EXCEPT ![p.to] = Nobody]
      /\ \/ c # Nobody /\ cid' = [cid EXCEPT ![c] = p.id] /\ rekey' = [c |-> c, id |-> p.id] /\ UNCHANGED relayUp
         \/ c = Nobody /\ relayUp' = FALSE /\ UNCHANGED <<cid, rekey>>
  BY DEF RelayStep, BeginRekey, PopRelay, RemoveClient
<1>2. LinksTypeOK' /\ ClientTypeOK' /\ LoginTypeOK' /\ GameTypeOK' /\ PagesInv'
  BY <1>1, Frame DEF clientVars, gameVars
<1>3. /\ relayQ' \in Seq(RelayPacket)
      /\ \A i \in DOMAIN relayQ' : \E j \in DOMAIN relayQ : relayQ'[i] = relayQ[j]
      /\ Head(relayQ) = relayQ[1] /\ 1 \in DOMAIN relayQ
      /\ Head(relayQ) \in RelayPacket
      /\ p.type = "ACCEPT_LOG_IN"
  BY <1>1, PoppedPacket
<1>4. p.to \in Ids /\ p.id \in Users
  BY <1>3, RelayPacketKinds, ServerPacketKinds DEF LoginReplies, LoginReply
<1>5. db[p.id] # Nobody /\ p.id # Nobody
  BY <1>3, <1>4, NetworkAssumption DEF RowsInv, AcceptsHaveRows
<1>6. c \in Conns \cup {Nobody} /\ (c # Nobody => cid[c] = p.to)
  BY <1>4 DEF RelayTypeOK, RoutingInv, MapConsistent
<1> HIDE DEF p, c
<1>7. \A d \in Conns : cid'[d] = cid[d] \/ (d = c /\ c # Nobody /\ cid'[d] = p.id)
  BY <1>1, <1>6 DEF RelayTypeOK
<1>8. \A d \in Conns : cid'[d] = Nobody <=> cid[d] = Nobody
  BY <1>5, <1>6, <1>7, <1>4, NetworkAssumption DEF Ids, Keys
<1>9. RelayTypeOK'
  <2>1. cid' \in [Conns -> Ids \cup {Nobody}] /\ clients' \in [Ids -> Conns \cup {Nobody}]
    BY <1>1, <1>4 DEF RelayTypeOK, Ids
  <2>2. rekey' \in Rekeying \cup {Nobody}
    BY <1>1, <1>4, <1>6 DEF Rekeying
  <2>3. relayUp' \in BOOLEAN
    BY <1>1 DEF RelayTypeOK
  <2> QED BY <1>1, <1>3, <2>1, <2>2, <2>3 DEF RelayTypeOK
<1>10. AcceptsHaveRows' /\ SendersKnown'
  BY <1>1, <1>3, <1>8, QueueShrinks, NetworkAssumption DEF RoutingInv, SendersKnown, RelayTypeOK, links
<1>11. LoginsHaveRows'
  BY <1>1, <1>5, <1>7 DEF RowsInv, LoginsHaveRows
<1>12. ConnectionsOK'
  BY <1>1, <1>8 DEF RoutingInv, ConnectionsOK, Unaccepted, links, clientVars
<1>13. RekeyOK'
  BY <1>1, <1>6 DEF RekeyOK, RelayTypeOK
<1>14. MapConsistent'
  <2> SUFFICES ASSUME NEW i \in Ids, clients'[i] # Nobody PROVE cid'[clients'[i]] = i
    BY DEF MapConsistent
  <2>1. i # p.to /\ clients'[i] = clients[i] /\ clients[i] \in Conns
    BY <1>1, <1>4 DEF RelayTypeOK
  <2>2. cid[clients[i]] = i
    BY <2>1 DEF RoutingInv, MapConsistent
  <2> QED BY <1>6, <1>7, <2>1, <2>2
<1> QED BY <1>2, <1>9, <1>10, <1>11, <1>12, <1>13, <1>14 DEF RoutingInv, RowsInv

LEMMA FinishRekeyInv ==
  ASSUME IInv, RelayStep(FinishRekey)
  PROVE  IInv'
<1> USE DEF IInv, TypeOK
<1> DEFINE c == rekey.c
            id == rekey.id
            p == [type |-> "ACCEPT_LOG_IN", to |-> id]
<1>1. /\ UNCHANGED <<clientVars, db, gameVars, cid, now, relayQ, lastError, relayUp, conn, c2r, loginQ, l2r, gameQ, g2r>>
      /\ rekey # Nobody /\ rekey' = Nobody
      /\ clients' = [clients EXCEPT ![id] = c]
      /\ SendTo(c, p)
  BY DEF RelayStep, FinishRekey, AddClient
<1>2. ClientTypeOK' /\ LoginTypeOK' /\ GameTypeOK' /\ PagesInv' /\ RowsInv'
  BY <1>1, Frame DEF clientVars, gameVars
<1>3. c \in Conns /\ id \in Users /\ cid[c] = id
  BY <1>1 DEF RelayTypeOK, Rekeying, RoutingInv, RekeyOK
<1>4. p \in PacketToClient
  BY <1>3 DEF PacketToClient
<1> HIDE DEF c, id, p
<1>5. id # Nobody /\ id \in Ids
  BY <1>3, NetworkAssumption DEF Ids
<1>6. /\ r2c' \in [Conns -> Seq(PacketToClient)]
      /\ failing' \subseteq failing \cup {c} /\ failing' \subseteq Conns
      /\ \A d \in Conns : r2c'[d] = r2c[d] \/ conn[d] = "up"
  BY <1>1, <1>3, <1>4, SendToType
<1>7. LinksTypeOK'
  BY <1>1, <1>6 DEF LinksTypeOK
<1>8. RelayTypeOK'
  BY <1>1, <1>3, <1>5, <1>6 DEF RelayTypeOK
<1>9. ConnectionsOK'
  BY <1>1, <1>6 DEF RoutingInv, ConnectionsOK, Unaccepted, clientVars
<1>10. SendersKnown' /\ RekeyOK'
  BY <1>1, <1>3, <1>5, <1>6 DEF RoutingInv, SendersKnown, RekeyOK
<1>11. MapConsistent'
  BY <1>1, <1>3, <1>5 DEF RoutingInv, MapConsistent, RelayTypeOK
<1> QED BY <1>2, <1>7, <1>8, <1>9, <1>10, <1>11 DEF RoutingInv

LEMMA AcceptInv ==
  ASSUME IInv, NEW c \in Conns, RelayStep(Accept(c))
  PROVE  IInv'
<1> USE DEF IInv, TypeOK
<1>1. PICK t \in NextMillis :
        /\ conn[c] = "pending" /\ conn' = [conn EXCEPT ![c] = "up"]
        /\ now' = t /\ clients' = [clients EXCEPT ![t] = c] /\ cid' = [cid EXCEPT ![c] = t]
        /\ UNCHANGED <<clientVars, db, gameVars, relayQ, rekey, failing, lastError, relayUp, c2r, r2c,
                       loginQ, l2r, gameQ, g2r>>
  BY DEF RelayStep, Accept, AddClient
<1>2. t \in Keys /\ t \in Ids /\ t \in 0 .. MaxMillis /\ t # Nobody /\ t \notin Users
  BY NetworkAssumption DEF NextMillis, Keys, Ids
<1>3. ClientTypeOK' /\ LoginTypeOK' /\ GameTypeOK' /\ PagesInv'
  BY <1>1, Frame DEF clientVars, gameVars
<1>4. LinksTypeOK'
  BY <1>1 DEF LinksTypeOK, ConnStates
<1>5. RelayTypeOK'
  BY <1>1, <1>2 DEF RelayTypeOK
<1>6. cid[c] = Nobody
  BY <1>1 DEF RoutingInv, ConnectionsOK, Unaccepted
<1>7. cid'[c] = t /\ \A d \in Conns \ {c} : cid'[d] = cid[d]
  BY <1>1 DEF RelayTypeOK
<1>8. ConnectionsOK'
  BY <1>1, <1>2, <1>7 DEF RoutingInv, ConnectionsOK, Unaccepted, LinksTypeOK, clientVars
<1>9. SendersKnown' /\ AcceptsHaveRows'
  BY <1>1, <1>2, <1>7, QueueShrinks, NetworkAssumption DEF RoutingInv, SendersKnown, RelayTypeOK
<1>10. RekeyOK'
  <2> SUFFICES ASSUME rekey # Nobody PROVE cid'[rekey.c] = rekey.id
    BY <1>1 DEF RekeyOK
  <2>1. rekey.c \in Conns /\ rekey.id \in Users /\ cid[rekey.c] = rekey.id
    BY DEF RelayTypeOK, Rekeying, RoutingInv, RekeyOK
  <2> QED BY <1>6, <1>7, <2>1, NetworkAssumption
<1>11. MapConsistent'
  <2> SUFFICES ASSUME NEW i \in Ids, clients'[i] # Nobody PROVE cid'[clients'[i]] = i
    BY DEF MapConsistent
  <2>1. CASE i = t
    BY <1>1, <1>2, <1>7, <2>1 DEF RelayTypeOK
  <2>2. CASE i # t
    <3>1. clients'[i] = clients[i] /\ clients[i] \in Conns /\ cid[clients[i]] = i
      BY <1>1, <1>2, <2>2 DEF RelayTypeOK, RoutingInv, MapConsistent
    <3>2. i # Nobody
      BY NetworkAssumption DEF Ids, Keys
    <3> QED BY <1>6, <1>7, <3>1, <3>2
  <2> QED BY <2>1, <2>2
<1>12. LoginsHaveRows'
  BY <1>1, <1>2, <1>7 DEF RowsInv, LoginsHaveRows
<1> QED BY <1>3, <1>4, <1>5, <1>8, <1>9, <1>10, <1>11, <1>12 DEF RoutingInv, RowsInv

\* A packet joins the queue of the handler.
LEMMA RelayPush ==
  ASSUME IInv, NEW e \in RelayPacket, relayQ' = Append(relayQ, e),
         e.from # Nobody => cid[e.from] # Nobody,
         e.pb.type = "ACCEPT_LOG_IN" => db[e.pb.id] # Nobody,
         \A i \in DOMAIN l2r' : \E j \in DOMAIN l2r : l2r'[i] = l2r[j],
         UNCHANGED <<clients, cid, now, rekey, failing, relayUp, db>>,
         lastError' \in {"other", "WSA_IO_PENDING", "ERROR_NETNAME_DELETED"}
  PROVE  RelayTypeOK' /\ SendersKnown' /\ RowsInv'
<1> USE DEF IInv, TypeOK
<1>1. relayQ \in Seq(RelayPacket)
  BY DEF RelayTypeOK
<1>2. relayQ' \in Seq(RelayPacket)
  BY <1>1, QueueTypes
<1>3. RelayTypeOK'
  BY <1>2 DEF RelayTypeOK
<1>4. \A i \in DOMAIN relayQ' : relayQ'[i] = e \/ (i \in DOMAIN relayQ /\ relayQ'[i] = relayQ[i])
  BY <1>1, QueueElements
<1>5. SendersKnown'
  <2>1. \A i \in DOMAIN relayQ' : relayQ'[i].from # Nobody => cid[relayQ'[i].from] # Nobody
    BY <1>4 DEF RoutingInv, SendersKnown
  <2> QED BY <2>1 DEF RoutingInv, SendersKnown
<1>6. AcceptsHaveRows'
  BY <1>4 DEF RowsInv, AcceptsHaveRows
<1>7. LoginsHaveRows'
  BY DEF RowsInv, LoginsHaveRows
<1> QED BY <1>3, <1>5, <1>6, <1>7 DEF RowsInv

LEMMA ReceiveFromClientInv ==
  ASSUME IInv, NEW c \in Conns, RelayStep(ReceiveFromClient(c))
  PROVE  IInv'
<1> USE DEF IInv, TypeOK
<1> DEFINE e == [pb |-> Head(c2r[c]), from |-> c]
<1>1. /\ UNCHANGED <<clientVars, db, gameVars, clients, cid, now, rekey, failing, relayUp, r2c, loginQ, l2r, gameQ, g2r>>
      /\ c2r[c] # <<>> /\ c2r' = [c2r EXCEPT ![c] = Tail(@)]
      /\ relayQ' = Append(relayQ, e)
      /\ lastError' \in {lastError, "other", "WSA_IO_PENDING"}
      /\ conn[c] \in {"up", "reset", "eof"}
      /\ UNCHANGED conn \/ conn' = [conn EXCEPT ![c] = "stale"]
  BY DEF RelayStep, ReceiveFromClient
<1>2. ClientTypeOK' /\ LoginTypeOK' /\ GameTypeOK' /\ PagesInv'
  BY <1>1, Frame DEF clientVars, gameVars
<1>3. Head(c2r[c]) \in ClientPacket /\ Tail(c2r[c]) \in Seq(ClientPacket)
  BY <1>1, QueueTypes DEF LinksTypeOK
<1>4. LinksTypeOK'
  BY <1>1, <1>3 DEF LinksTypeOK, ConnStates
<1>5. e \in RelayPacket /\ e.pb.type # "ACCEPT_LOG_IN"
  BY <1>3, ClientPacketKinds, TypesDiffer DEF RelayPacket, LoginReplies
<1>6. cid[c] # Nobody
  BY <1>1 DEF RoutingInv, ConnectionsOK, Unaccepted
<1>7. RelayTypeOK' /\ SendersKnown' /\ RowsInv'
  <2>1. lastError' \in {"other", "WSA_IO_PENDING", "ERROR_NETNAME_DELETED"}
    BY <1>1 DEF RelayTypeOK
  <2>2. e.from # Nobody => cid[e.from] # Nobody
    BY <1>6
  <2> HIDE DEF e
  <2> QED BY <1>1, <1>5, <2>1, <2>2, RelayPush
<1>8. ConnectionsOK'
  BY <1>1 DEF RoutingInv, ConnectionsOK, Unaccepted, LinksTypeOK, clientVars
<1>9. RekeyOK' /\ MapConsistent'
  BY <1>1 DEF RoutingInv, RekeyOK, MapConsistent
<1> QED BY <1>2, <1>4, <1>7, <1>8, <1>9 DEF RoutingInv

LEMMA ReceiveFromServersInv ==
  ASSUME IInv, RelayStep(ReceiveFromLogin) \/ RelayStep(ReceiveFromGame)
  PROVE  IInv'
<1> USE DEF IInv, TypeOK
<1>1. UNCHANGED <<clientVars, db, gameVars, clients, cid, now, rekey, failing, lastError, relayUp,
                  conn, c2r, r2c, loginQ, gameQ>>
  BY DEF RelayStep, ReceiveFromLogin, ReceiveFromGame
<1>2. ClientTypeOK' /\ LoginTypeOK' /\ GameTypeOK' /\ PagesInv'
  BY <1>1, Frame DEF clientVars, gameVars
<1>3. l2r \in Seq(LoginReply) /\ g2r \in Seq(GamePacket)
  BY DEF LinksTypeOK
<1>4. PICK p \in ServerPacket :
        /\ relayQ' = Append(relayQ, [pb |-> p, from |-> Nobody])
        /\ p.type = "ACCEPT_LOG_IN" => db[p.id] # Nobody
        /\ l2r' \in Seq(LoginReply) /\ g2r' \in Seq(GamePacket)
        /\ \A i \in DOMAIN l2r' : \E j \in DOMAIN l2r : l2r'[i] = l2r[j]
  <2>1. CASE RelayStep(ReceiveFromLogin)
    <3>1. l2r # <<>> /\ l2r' = Tail(l2r) /\ relayQ' = Append(relayQ, [pb |-> Head(l2r), from |-> Nobody])
          /\ UNCHANGED g2r
      BY <2>1 DEF RelayStep, ReceiveFromLogin
    <3>2. /\ \A i \in DOMAIN l2r' : \E j \in DOMAIN l2r : l2r'[i] = l2r[j]
          /\ Head(l2r) = l2r[1] /\ 1 \in DOMAIN l2r
      BY <1>3, <3>1, QueueElements
    <3>3. Head(l2r) \in LoginReply /\ l2r' \in Seq(LoginReply)
      BY <1>3, <3>1, QueueTypes
    <3>4. Head(l2r).type = "ACCEPT_LOG_IN" => db[Head(l2r).id] # Nobody
      BY <3>2 DEF RowsInv, AcceptsHaveRows
    <3> QED BY <1>3, <3>1, <3>2, <3>3, <3>4 DEF ServerPacket
  <2>2. CASE RelayStep(ReceiveFromGame)
    <3>1. g2r # <<>> /\ g2r' = Tail(g2r) /\ relayQ' = Append(relayQ, [pb |-> Head(g2r), from |-> Nobody])
          /\ UNCHANGED l2r
      BY <2>2 DEF RelayStep, ReceiveFromGame
    <3>2. Head(g2r) \in GamePacket /\ g2r' \in Seq(GamePacket)
      BY <1>3, <3>1, QueueTypes
    <3>3. Head(g2r).type # "ACCEPT_LOG_IN"
      BY <3>2 DEF GamePacket, RoomReplies
    <3> QED BY <1>3, <3>1, <3>2, <3>3 DEF ServerPacket
  <2> QED BY <2>1, <2>2
<1> DEFINE e == [pb |-> p, from |-> Nobody]
<1>5. e \in RelayPacket /\ e.from = Nobody /\ e.pb = p /\ relayQ' = Append(relayQ, e)
  BY <1>4 DEF RelayPacket
<1> HIDE DEF e
<1>6. RelayTypeOK' /\ SendersKnown' /\ RowsInv'
  BY <1>1, <1>4, <1>5, RelayPush DEF RelayTypeOK
<1>7. LinksTypeOK'
  BY <1>1, <1>4 DEF LinksTypeOK
<1>8. ConnectionsOK' /\ RekeyOK' /\ MapConsistent'
  BY <1>1 DEF RoutingInv, ConnectionsOK, RekeyOK, MapConsistent, Unaccepted, clientVars
<1> QED BY <1>2, <1>6, <1>7, <1>8 DEF RoutingInv

\* "Client disconnected" takes at most one entry out of the map.
LEMMA DropInv ==
  ASSUME IInv, NEW c \in Conns, cid[c] # Nobody, Drop(c), failing' \subseteq failing,
         lastError' \in {"other", "WSA_IO_PENDING", "ERROR_NETNAME_DELETED"},
         UNCHANGED <<clientVars, db, gameVars, cid, now, relayQ, rekey, relayUp, r2c, loginQ, l2r, gameQ, g2r>>
  PROVE  IInv'
<1> USE DEF IInv, TypeOK
<1>1. /\ clients' = [clients EXCEPT ![cid[c]] = Nobody]
      /\ conn' = [conn EXCEPT ![c] = "closed"]
      /\ c2r' = [c2r EXCEPT ![c] = <<>>]
  BY DEF Drop, RemoveClient
<1>2. ClientTypeOK' /\ LoginTypeOK' /\ GameTypeOK' /\ PagesInv' /\ RowsInv'
  BY Frame DEF clientVars, gameVars
<1>3. LinksTypeOK'
  BY <1>1, EmptySeq DEF LinksTypeOK, ConnStates
<1>4. RelayTypeOK'
  BY <1>1 DEF RelayTypeOK
<1>5. ConnectionsOK'
  BY <1>1 DEF RoutingInv, ConnectionsOK, Unaccepted, LinksTypeOK, clientVars
<1>6. SendersKnown' /\ RekeyOK' /\ MapConsistent'
  BY <1>1 DEF RoutingInv, SendersKnown, RekeyOK, MapConsistent, RelayTypeOK
<1> QED BY <1>2, <1>3, <1>4, <1>5, <1>6 DEF RoutingInv

LEMMA RelayWorkerInv ==
  ASSUME IInv, NEW c \in Conns, RelayStep(RelayWorker(c))
  PROVE  IInv'
<1> USE DEF IInv, TypeOK
<1>1. CASE RelayStep(ReceiveFromClient(c))
  BY <1>1, ReceiveFromClientInv
<1>2. CASE RelayStep(NoticeReset(c))
  <2>1. cid[c] # Nobody
    BY <1>2 DEF RelayStep, NoticeReset, RoutingInv, ConnectionsOK, Unaccepted
  <2> QED BY <1>2, <2>1, DropInv DEF RelayStep, NoticeReset
<1>3. CASE RelayStep(NoticeEof(c))
  <2>1. cid[c] # Nobody
    BY <1>3 DEF RelayStep, NoticeEof, RoutingInv, ConnectionsOK, Unaccepted
  <2>2. /\ UNCHANGED <<clientVars, db, gameVars, cid, now, relayQ, rekey, failing, lastError, r2c,
                       loginQ, l2r, gameQ, g2r>>
        /\ conn[c] = "eof"
        /\ \/ Drop(c) /\ UNCHANGED relayUp
           \/ /\ UNCHANGED <<clients, c2r>>
              /\ conn' = [conn EXCEPT ![c] = "stale"] \/ UNCHANGED conn
              /\ relayUp' = FALSE \/ UNCHANGED relayUp
    BY <1>3 DEF RelayStep, NoticeEof
  <2>3. CASE Drop(c) /\ UNCHANGED relayUp
    BY <2>1, <2>2, <2>3, DropInv DEF RelayTypeOK
  <2>4. CASE /\ UNCHANGED <<clients, c2r>>
             /\ conn' = [conn EXCEPT ![c] = "stale"] \/ UNCHANGED conn
             /\ relayUp' = FALSE \/ UNCHANGED relayUp
    <3>1. ClientTypeOK' /\ LoginTypeOK' /\ GameTypeOK' /\ PagesInv' /\ RowsInv'
      BY <2>2, Frame DEF clientVars, gameVars
    <3>2. LinksTypeOK'
      BY <2>2, <2>4 DEF LinksTypeOK, ConnStates
    <3>3. relayUp' \in BOOLEAN
      BY <2>4 DEF RelayTypeOK
    <3>4. RelayTypeOK'
      BY <2>2, <2>4, <3>3 DEF RelayTypeOK
    <3>5. RoutingInv'
      BY <2>2, <2>4 DEF RoutingInv, ConnectionsOK, SendersKnown, RekeyOK, MapConsistent, Unaccepted, LinksTypeOK, clientVars
    <3> QED BY <3>1, <3>2, <3>4, <3>5
  <2> QED BY <2>2, <2>3, <2>4
<1>4. CASE RelayStep(NoticeFailedWrite(c))
  <2>1. cid[c] # Nobody
    BY <1>4 DEF RelayStep, NoticeFailedWrite, RoutingInv, SendersKnown
  <2>2. /\ UNCHANGED <<clientVars, db, gameVars, cid, now, relayQ, rekey, r2c, loginQ, l2r, gameQ, g2r>>
        /\ failing' \in {failing, failing \ {c}}
        /\ \/ Drop(c) /\ lastError' = "ERROR_NETNAME_DELETED" /\ UNCHANGED relayUp
           \/ relayUp' = FALSE /\ UNCHANGED <<clients, conn, c2r, lastError>>
    BY <1>4 DEF RelayStep, NoticeFailedWrite
  <2>3. CASE Drop(c) /\ lastError' = "ERROR_NETNAME_DELETED" /\ UNCHANGED relayUp
    BY <2>1, <2>2, <2>3, DropInv DEF RelayTypeOK
  <2>4. CASE relayUp' = FALSE /\ UNCHANGED <<clients, conn, c2r, lastError>>
    <3>1. UNCHANGED links
      BY <2>2, <2>4 DEF links
    <3>2. LinksTypeOK' /\ ClientTypeOK' /\ LoginTypeOK' /\ GameTypeOK' /\ PagesInv' /\ RowsInv'
      BY <2>2, <3>1, Frame DEF clientVars, gameVars, links
    <3>3. relayUp' \in BOOLEAN
      BY <2>4
    <3>4. RelayTypeOK'
      BY <2>2, <2>4, <3>3 DEF RelayTypeOK
    <3>5. RoutingInv'
      BY <2>2, <2>4 DEF RoutingInv, ConnectionsOK, SendersKnown, RekeyOK, MapConsistent, Unaccepted, clientVars
    <3> QED BY <3>2, <3>4, <3>5
  <2> QED BY <2>2, <2>3, <2>4
<1> QED BY <1>1, <1>2, <1>3, <1>4 DEF RelayStep, RelayWorker

(***************************************************************************)
(* The game server.                                                        *)
(***************************************************************************)

\* A sequence made by giving every seat of a room a value of S.
LEMMA PerSeat ==
  ASSUME NEW S, NEW s \in Seq(Player), NEW F \in [DOMAIN s -> S]
  PROVE  F \in Seq(S)
<1>1. DOMAIN s = 1 .. Len(s) /\ Len(s) \in Nat
  BY LenProperties
<1> QED BY <1>1, SeqDef

\* Dealing gives every player a hand and changes nothing else.
LEMMA DealtRoom ==
  ASSUME NEW rm \in Room, NEW p
  PROVE  DealCards(rm, p) \in Room /\ DealCards(rm, p).host = rm.host
<1> DEFINE s == rm.players
            dealt == [i \in DOMAIN s |-> [s[i] EXCEPT !.hand = HandOf(p, i)]]
<1>1. s \in Seq(Player)
  BY DEF Room
<1>2. ASSUME NEW i \in DOMAIN s PROVE [s[i] EXCEPT !.hand = HandOf(p, i)] \in Player
  <2>1. s[i] \in Player /\ i \in Nat
    BY <1>1, QueueTypes, LenProperties
  <2>2. HandOf(p, i) \in Bag
    BY <2>1, HandOfType
  <2> QED BY <2>1, <2>2 DEF Player
<1>3. dealt \in [DOMAIN s -> Player]
  BY <1>2
<1>4. DealCards(rm, p) = [rm EXCEPT !.players = dealt]
  BY DEF DealCards
<1> HIDE DEF dealt
<1>5. dealt \in Seq(Player)
  BY <1>1, <1>3, PerSeat
<1> QED BY <1>4, <1>5 DEF Room

\* playGame sends packets of the game.
LEMMA PlayGameType ==
  ASSUME NEW rm \in Room, rm.host \in Users
  PROVE  PlayGame(rm) \in Seq(GamePacket)
<1> DEFINE s == rm.players
<1>1. s \in Seq(Player)
  BY DEF Room
<1>2. \A i \in DOMAIN s : s[i].id \in Users /\ s[i].hand \in Bag
  <2>1. \A i \in DOMAIN s : s[i] \in Player
    BY <1>1, QueueTypes
  <2> QED BY <2>1 DEF Player
<1>3. Others(rm) \in Seq(GamePacket)
  <2>1. \A i \in DOMAIN s : OtherIds(s, i) \in Seq(Users)
    BY <1>1, OtherIdsType
  <2>2. Others(rm) \in [DOMAIN s -> GamePacket]
    BY <1>2, <2>1 DEF Others, GamePacket
  <2> QED BY <1>1, <2>2, PerSeat
<1>4. Hands(rm) \in Seq(GamePacket)
  <2>1. Hands(rm) \in [DOMAIN s -> GamePacket]
    BY <1>2 DEF Hands, GamePacket
  <2> QED BY <1>1, <2>1, PerSeat
<1>5. FirstTurn(rm.host) \in Seq(GamePacket)
  BY DEF FirstTurn, GamePacket
<1>6. Others(rm) \o Hands(rm) \in Seq(GamePacket)
  BY <1>3, <1>4, QueueTypes
<1> QED BY <1>5, <1>6, QueueTypes DEF PlayGame

\* A player takes a seat; the last one starts the game.
LEMMA EnterRoomType ==
  ASSUME GameTypeOK, HostsKnown, g2r \in Seq(GamePacket), NEW r \in RoomNames, NEW rm \in Room, rm.host \in Users,
         NEW u \in Users, NEW reply \in GamePacket, EnterRoom(r, rm, u, reply)
  PROVE  /\ rooms' \in [RoomNames -> Room] /\ HostsKnown'
         /\ g2r' \in Seq(GamePacket)
<1> DEFINE seated == [rm EXCEPT !.players = Append(@, NewPlayer(u))]
<1>1. NewPlayer(u) \in Player
  BY NetworkAssumption DEF NewPlayer, Player, Bag, NoCards
<1>2. Append(rm.players, NewPlayer(u)) \in Seq(Player)
  BY <1>1, QueueTypes DEF Room
<1>3. seated \in Room /\ seated.host \in Users
  BY <1>2 DEF Room
<1>4. \/ rooms' = [rooms EXCEPT ![r] = seated] /\ g2r' = Append(g2r, reply)
      \/ \E p \in Shuffles : /\ rooms' = [rooms EXCEPT ![r] = DealCards(seated, p)]
                             /\ g2r' = g2r \o PlayGame(DealCards(seated, p)) \o <<reply>>
  BY DEF EnterRoom
<1> HIDE DEF seated
<1>5. CASE rooms' = [rooms EXCEPT ![r] = seated] /\ g2r' = Append(g2r, reply)
  <2>1. rooms' \in [RoomNames -> Room] /\ HostsKnown'
    BY <1>3, <1>5 DEF GameTypeOK, HostsKnown
  <2>2. g2r' \in Seq(GamePacket)
    BY <1>5, QueueTypes
  <2> QED BY <2>1, <2>2
<1>6. CASE \E p \in Shuffles : /\ rooms' = [rooms EXCEPT ![r] = DealCards(seated, p)]
                               /\ g2r' = g2r \o PlayGame(DealCards(seated, p)) \o <<reply>>
  <2>1. PICK p : /\ rooms' = [rooms EXCEPT ![r] = DealCards(seated, p)]
                 /\ g2r' = g2r \o PlayGame(DealCards(seated, p)) \o <<reply>>
    BY <1>6
  <2> DEFINE dealt == DealCards(seated, p)
  <2>2. dealt \in Room /\ dealt.host \in Users
    BY <1>3, DealtRoom
  <2>3. PlayGame(dealt) \in Seq(GamePacket)
    BY <2>2, PlayGameType
  <2>4. <<reply>> \in Seq(GamePacket)
    OBVIOUS
  <2> HIDE DEF dealt
  <2>5. g2r \o PlayGame(dealt) \in Seq(GamePacket)
    BY <2>3, QueueTypes
  <2>6. g2r' \in Seq(GamePacket)
    BY <2>1, <2>4, <2>5, QueueTypes DEF dealt
  <2>7. rooms' \in [RoomNames -> Room] /\ HostsKnown'
    <3>1. rooms' = [rooms EXCEPT ![r] = dealt]
      BY <2>1 DEF dealt
    <3> QED BY <2>2, <3>1 DEF GameTypeOK, HostsKnown
  <2> QED BY <2>6, <2>7
<1> QED BY <1>4, <1>5, <1>6

\* What a handler of the game server leaves alone stays as it was.
LEMMA GameStepInv ==
  ASSUME IInv, UNCHANGED <<clientVars, db, relayVars, conn, c2r, r2c, loginQ, l2r>>,
         gameQ' \in Seq(GameRequest), g2r' \in Seq(GamePacket),
         GameTypeOK', HostsKnown'
  PROVE  IInv'
<1> USE DEF IInv, TypeOK
<1>1. ClientTypeOK' /\ LoginTypeOK' /\ RelayTypeOK' /\ RoutingInv' /\ RowsInv'
  BY Frame DEF clientVars, relayVars
<1>2. LinksTypeOK'
  BY DEF LinksTypeOK
<1>3. PagesInv'
  BY DEF PagesInv, TurnsLoggedIn, clientVars
<1> QED BY <1>1, <1>2, <1>3

\* The request a handler pops.
LEMMA PoppedRequest ==
  ASSUME IInv, NEW type, PopGame(type)
  PROVE  gameQ' \in Seq(GameRequest) /\ Head(gameQ) \in GameRequest /\ Head(gameQ).type = type
BY QueueTypes DEF IInv, TypeOK, LinksTypeOK, PopGame

LEMMA HandleHostRoomInv ==
  ASSUME IInv, GameStep(HandleHostRoom)
  PROVE  IInv'
<1> DEFINE r == Head(gameQ).room
            u == Head(gameQ).id
<1>1. /\ UNCHANGED <<clientVars, db, relayVars, gameUp, conn, c2r, r2c, loginQ, l2r>>
      /\ PopGame("REQ_HOST_ROOM")
      /\ \/ EnterRoom(r, NewRoom(u), u, Reply("ALLOW_HOST_ROOM", u))
         \/ g2r' = Append(g2r, Reply("REJECT_HOST_ROOM", u)) /\ UNCHANGED rooms
  BY DEF GameStep, HandleHostRoom
<1>2. r \in RoomNames /\ u \in Users /\ gameQ' \in Seq(GameRequest)
  BY <1>1, PoppedRequest, GameRequestKinds DEF RoomRequests
<1>3. g2r \in Seq(GamePacket) /\ GameTypeOK /\ HostsKnown
  BY DEF IInv, TypeOK, LinksTypeOK, PagesInv
<1>4. Reply("ALLOW_HOST_ROOM", u) \in GamePacket /\ Reply("REJECT_HOST_ROOM", u) \in GamePacket
  BY <1>2 DEF Reply, GamePacket, RoomReplies
<1>5. NewRoom(u) \in Room /\ NewRoom(u).host \in Users
  BY <1>2, GameAssumption, EmptySeq DEF NewRoom, Room
<1> HIDE DEF r, u
<1>6. rooms' \in [RoomNames -> Room] /\ HostsKnown' /\ g2r' \in Seq(GamePacket)
  <2>1. CASE EnterRoom(r, NewRoom(u), u, Reply("ALLOW_HOST_ROOM", u))
    BY <1>2, <1>3, <1>4, <1>5, <2>1, EnterRoomType
  <2>2. CASE g2r' = Append(g2r, Reply("REJECT_HOST_ROOM", u)) /\ UNCHANGED rooms
    BY <1>3, <1>4, <2>2, QueueTypes DEF GameTypeOK, HostsKnown
  <2> QED BY <1>1, <2>1, <2>2
<1>7. GameTypeOK'
  BY <1>1, <1>3, <1>6 DEF GameTypeOK
<1> QED BY <1>1, <1>2, <1>6, <1>7, GameStepInv

LEMMA HandleEnterRoomInv ==
  ASSUME IInv, GameStep(HandleEnterRoom)
  PROVE  IInv'
<1> DEFINE r == Head(gameQ).room
            u == Head(gameQ).id
<1>1. /\ UNCHANGED <<clientVars, db, relayVars, gameUp, conn, c2r, r2c, loginQ, l2r>>
      /\ PopGame("REQ_ENTER_ROOM")
      /\ \/ Exists(r) /\ EnterRoom(r, rooms[r], u, Reply("ALLOW_ENTER_ROOM", u))
         \/ g2r' = Append(g2r, Reply("REJECT_ENTER_ROOM", u)) /\ UNCHANGED rooms
  BY DEF GameStep, HandleEnterRoom
<1>2. r \in RoomNames /\ u \in Users /\ gameQ' \in Seq(GameRequest)
  BY <1>1, PoppedRequest, GameRequestKinds DEF RoomRequests
<1>3. g2r \in Seq(GamePacket) /\ GameTypeOK /\ HostsKnown
  BY DEF IInv, TypeOK, LinksTypeOK, PagesInv
<1>4. Reply("ALLOW_ENTER_ROOM", u) \in GamePacket /\ Reply("REJECT_ENTER_ROOM", u) \in GamePacket
  BY <1>2 DEF Reply, GamePacket, RoomReplies
<1> HIDE DEF r, u
<1>5. Exists(r) => rooms[r] \in Room /\ rooms[r].host \in Users
  BY <1>2, <1>3 DEF Exists, HostsKnown, GameTypeOK
<1>6. rooms' \in [RoomNames -> Room] /\ HostsKnown' /\ g2r' \in Seq(GamePacket)
  <2>1. CASE Exists(r) /\ EnterRoom(r, rooms[r], u, Reply("ALLOW_ENTER_ROOM", u))
    BY <1>2, <1>3, <1>4, <1>5, <2>1, EnterRoomType
  <2>2. CASE g2r' = Append(g2r, Reply("REJECT_ENTER_ROOM", u)) /\ UNCHANGED rooms
    BY <1>3, <1>4, <2>2, QueueTypes DEF GameTypeOK, HostsKnown
  <2> QED BY <1>1, <2>1, <2>2
<1>7. GameTypeOK'
  BY <1>1, <1>3, <1>6 DEF GameTypeOK
<1> QED BY <1>1, <1>2, <1>6, <1>7, GameStepInv

\* changeTurn keeps the room and its seats, and names a seat next.
LEMMA ChangedRoom ==
  ASSUME NEW rm \in Room, {rm.turn, NextTurn(rm)} \subseteq 0 .. Len(rm.players) - 1
  PROVE  /\ ChangeTurn(rm) \in Room /\ ChangeTurn(rm).host = rm.host
         /\ ChangeTurn(rm).players[ChangeTurn(rm).turn + 1].id \in Users
<1> DEFINE s == rm.players
            n == NextTurn(rm)
            new == [i \in DOMAIN s |-> [s[i] EXCEPT !.isPlayerTurn =
                      i = n + 1 \/ (i # rm.turn + 1 /\ s[i].isPlayerTurn)]]
<1>1. s \in Seq(Player) /\ DOMAIN s = 1 .. Len(s) /\ Len(s) \in Nat
  BY LenProperties DEF Room
<1>2. \A i \in DOMAIN s : s[i] \in Player
  BY <1>1, QueueTypes
<1>3. new \in [DOMAIN s -> Player] /\ \A i \in DOMAIN s : new[i].id = s[i].id
  BY <1>2 DEF Player
<1>4. n \in 0 .. MaxPlayers - 1 /\ n + 1 \in DOMAIN s
  <2>1. n \in 0 .. MaxPlayers - 1
    BY GameAssumption DEF NextTurn, Room
  <2> QED BY <1>1, <2>1
<1>5. rm = [host |-> rm.host, players |-> s, turn |-> rm.turn]
  BY DEF Room
<1>6. new \in Seq(Player)
  <2> HIDE DEF new
  <2> QED BY <1>1, <1>3, PerSeat
<1>7. ChangeTurn(rm) = [rm EXCEPT !.turn = n, !.players = new]
  BY Zenon DEF ChangeTurn
<1> HIDE DEF n, new
<1>8. ChangeTurn(rm) = [host |-> rm.host, players |-> new, turn |-> n]
  BY <1>5, <1>7
<1>9. new[n + 1].id \in Users
  BY <1>2, <1>3, <1>4 DEF Player
<1> QED BY <1>4, <1>6, <1>8, <1>9 DEF Room

LEMMA HandleTurnOverInv ==
  ASSUME IInv, GameStep(HandleTurnOver)
  PROVE  IInv'
<1> DEFINE m == Head(gameQ)
            rm == ChangeTurn(rooms[m.room])
            p == [type |-> "PLAYER_TURN", to |-> rm.players[rm.turn + 1].id,
                  previous |-> m.id, discarded |-> m.discarded]
<1>1. /\ UNCHANGED <<clientVars, db, relayVars, conn, c2r, r2c, loginQ, l2r>>
      /\ PopGame("PlAYER_TURN_OVER")
      /\ \/ /\ CanChangeTurn(m.room) /\ UNCHANGED gameUp
            /\ rooms' = [rooms EXCEPT ![m.room] = rm]
            /\ g2r' = Append(g2r, p)
         \/ gameUp' = FALSE /\ UNCHANGED <<rooms, g2r>>
  BY DEF GameStep, HandleTurnOver
<1>2. gameQ' \in Seq(GameRequest) /\ m.id \in Users /\ m.room \in RoomNames \cup {Nobody} /\ m.discarded \in Nat
  BY <1>1, PoppedRequest, GameRequestKinds
<1>3. g2r \in Seq(GamePacket) /\ GameTypeOK /\ HostsKnown
  BY DEF IInv, TypeOK, LinksTypeOK, PagesInv
<1>4. CASE gameUp' = FALSE /\ UNCHANGED <<rooms, g2r>>
  <2>1. GameTypeOK'
    <3>1. gameUp' \in BOOLEAN
      BY <1>4
    <3> QED BY <1>3, <1>4, <3>1 DEF GameTypeOK
  <2>2. HostsKnown' /\ g2r' \in Seq(GamePacket)
    BY <1>3, <1>4 DEF HostsKnown
  <2> QED BY <1>1, <1>2, <2>1, <2>2, GameStepInv
<1>5. CASE /\ CanChangeTurn(m.room) /\ UNCHANGED gameUp
           /\ rooms' = [rooms EXCEPT ![m.room] = rm]
           /\ g2r' = Append(g2r, p)
  <2>1. /\ m.room \in RoomNames /\ rooms[m.room] \in Room /\ rooms[m.room].host \in Users
        /\ {rooms[m.room].turn, NextTurn(rooms[m.room])} \subseteq 0 .. Len(rooms[m.room].players) - 1
    BY <1>2, <1>3, <1>5 DEF CanChangeTurn, Exists, GameTypeOK, HostsKnown
  <2>2. rm \in Room /\ rm.host \in Users /\ rm.players[rm.turn + 1].id \in Users
    BY <2>1, ChangedRoom
  <2>3. p \in GamePacket
    BY <1>2, <2>2 DEF GamePacket
  <2> HIDE DEF rm, p
  <2>4. g2r' \in Seq(GamePacket)
    BY <1>3, <1>5, <2>3, QueueTypes
  <2>5. GameTypeOK' /\ HostsKnown'
    BY <1>3, <1>5, <2>1, <2>2 DEF GameTypeOK, HostsKnown
  <2> QED BY <1>1, <1>2, <2>4, <2>5, GameStepInv
<1> QED BY <1>1, <1>4, <1>5

LEMMA NoticeGameServerEndInv ==
  ASSUME IInv, RelayStep(NoticeGameServerEnd)
  PROVE  IInv'
<1> USE DEF IInv, TypeOK
<1>1. /\ UNCHANGED <<clientVars, db, gameVars, clients, cid, now, relayQ, rekey, failing, lastError, links>>
      /\ relayUp' = FALSE
  BY DEF RelayStep, NoticeGameServerEnd
<1>2. LinksTypeOK' /\ ClientTypeOK' /\ LoginTypeOK' /\ GameTypeOK' /\ PagesInv' /\ RowsInv'
  BY <1>1, Frame DEF clientVars, gameVars, links
<1>3. relayUp' \in BOOLEAN
  BY <1>1
<1>4. RelayTypeOK'
  BY <1>1, <1>3 DEF RelayTypeOK
<1>5. RoutingInv'
  BY <1>1 DEF RoutingInv, ConnectionsOK, SendersKnown, RekeyOK, MapConsistent, Unaccepted, clientVars, links
<1> QED BY <1>2, <1>4, <1>5

(***************************************************************************)
(* The four programs.                                                      *)
(***************************************************************************)

LEMMA NextIInv == IInv /\ [Next]_vars => IInv'
<1> SUFFICES ASSUME IInv, [Next]_vars PROVE IInv'
  OBVIOUS
<1>1. CASE UNCHANGED vars
  <2>1. UNCHANGED <<links, clientVars, db, relayVars, gameVars>>
    BY <1>1 DEF vars
  <2>2. LinksTypeOK' /\ ClientTypeOK' /\ LoginTypeOK' /\ RelayTypeOK' /\ GameTypeOK'
    BY <2>1, Frame DEF IInv, TypeOK
  <2>3. UNCHANGED <<conn, r2c, l2r, io, me, rooms, relayQ, cid>>
    BY <2>1 DEF links, clientVars, relayVars, gameVars
  <2>4. RoutingInv' /\ PagesInv' /\ RowsInv'
    BY <2>1, <2>3, Frame DEF IInv
  <2> QED BY <2>2, <2>4 DEF IInv, TypeOK
<1>2. ASSUME NEW c \in Conns, ClientStep(UserStep(c)) PROVE IInv'
  BY <1>2, ConnectInv, LogInOrRegisterInv, HostOrJoinInv, WrongInputInv, FinishTurnInv, QuitInv
     DEF ClientStep, UserStep
<1>3. ASSUME NEW c \in Conns, ClientStep(HandleIO(c)) PROVE IInv'
  BY <1>3, PageHandlerInv, HandleAcceptLogInInv, HandlePlayGameInv, HandleDealCardsInv, HandlePlayerTurnInv
     DEF ClientStep, HandleIO
<1>4. CASE LoginStep(HandleLoginPacket)
  BY <1>4, HandleLogInInv, HandleRegisterInv DEF LoginStep, HandleLoginPacket
<1>5. CASE GameStep(HandleGamePacket)
  BY <1>5, HandleHostRoomInv, HandleEnterRoomInv, HandleTurnOverInv DEF GameStep, HandleGamePacket
<1>6. CASE RelayStep(HandleRelayPacket)
  BY <1>6, ForwardInv, ForwardToClientInv, BeginRekeyInv, FinishRekeyInv DEF RelayStep, HandleRelayPacket
<1>7. CASE RelayStep(ReceiveFromLogin) \/ RelayStep(ReceiveFromGame)
  BY <1>7, ReceiveFromServersInv
<1>8. ASSUME NEW c \in Conns, RelayStep(Accept(c)) \/ RelayStep(RelayWorker(c)) PROVE IInv'
  BY <1>8, AcceptInv, RelayWorkerInv
<1> QED BY <1>1, <1>2, <1>3, <1>4, <1>5, <1>6, <1>7, <1>8, NoticeGameServerEndInv DEF Next

LEMMA Inductive == Spec => []IInv
<1>1. Init => IInv
  BY InitIInv
<1>2. IInv /\ [Next]_vars => IInv'
  BY NextIInv
<1> QED BY <1>1, <1>2, PTL DEF Spec

\* Whatever the people type, whichever client quits or dies and in whatever
\* order the threads of the four programs take their steps, every link, queue,
\* page, hand, room and map entry keeps its type: nothing is forwarded without
\* its key, dealt to nobody, or handed on by a room that has no host.
THEOREM Typed == Spec => []TypeOK
<1>1. IInv => TypeOK
  BY DEF IInv
<1> QED BY <1>1, Inductive, PTL

\* IOCPServer::clients and ClientInfo::id agree although the worker, the
\* handler and the accepting thread change them without one lock: a connection
\* found under an id calls itself by that id.  It holds for shared accounts and
\* for clients that get one temporary key, where an entry is lost but never wrong.
THEOREM MapAgrees == Spec => []MapConsistent
<1>1. IInv => MapConsistent
  BY DEF IInv, RoutingInv
<1> QED BY <1>1, Inductive, PTL

\* The relay gives a connection the id of an account only when the login server
\* has found a row for it, however late its ACCEPT_LOG_IN is handled.
THEOREM LoginsNeedRows == Spec => []LoginsHaveRows
<1>1. IInv => LoginsHaveRows
  BY DEF IInv, RowsInv
<1> QED BY <1>1, Inductive, PTL

\* No step of any program changes the password of an account that is there,
\* though registerUser may throw between its SELECT and after its INSERT.
THEOREM RowsStay == Spec => RowsAreKept
<1> DEFINE Kept == \A u \in Users : db[u] # Nobody => db'[u] = db[u]
<1>1. ASSUME LoginTypeOK, loginQ \in Seq(StampedRequest), [Next]_vars PROVE Kept
  <2>1. CASE UNCHANGED db
    BY <2>1
  <2>2. CASE LoginStep(HandleLoginPacket)
    <3>1. CASE UNCHANGED db
      BY <3>1
    <3>2. CASE db[Head(loginQ).id] = Nobody /\ db' = [db EXCEPT ![Head(loginQ).id] = Head(loginQ).password]
      BY <1>1, <3>2 DEF LoginTypeOK
    <3> QED BY <2>2, <3>1, <3>2 DEF LoginStep, HandleLoginPacket, HandleLogIn, HandleRegister, Taken
  <2> QED BY <1>1, <2>1, <2>2 DEF Next, ClientStep, GameStep, RelayStep, vars
<1>2. IInv => LoginTypeOK /\ loginQ \in Seq(StampedRequest)
  BY DEF IInv, TypeOK, LinksTypeOK
<1>3. IInv /\ [Next]_vars => [Kept]_vars
  BY <1>1, <1>2
<1> QED BY <1>3, Inductive, PTL DEF Spec, RowsAreKept

(***************************************************************************)
(* Logins.  The argument follows a login from the login page to the lobby. *)
(* A client has one login under way at most, in one place; so a connection *)
(* gets its account while nothing else is on its way to it.                *)
(***************************************************************************)
OwnMillis == MinGap = 1
OwnAccountEach == \A c, d \in Conns : c # d => Owns[c] \cap Owns[d] = {}

\* A temporary key belongs to one connection, and the clock is past it.
KeysOK ==
  \A c \in Conns : cid[c] \in Keys => cid[c] <= now /\ \A d \in Conns : cid[d] = cid[c] => d = c

LoginStages ==
  {"none", "main", "page", "c2r", "relayQ", "loginQ", "l2r", "reply", "rekey", "r2c"}

(***************************************************************************)
(* Where the login of client c is: "none", at the login page of its "main" *)
(* thread or of its IO thread ("page"), at place i of a queue on the way   *)
(* to the login server ("c2r", "relayQ", "loginQ") or back ("l2r",         *)
(* "reply", "r2c"), or inside the handler of ACCEPT_LOG_IN ("rekey").      *)
(***************************************************************************)
LoginAt(c, at, i) ==
  /\ conn[c] = "none" => at = "none"
  /\ cid[c] \in Users => at \in {"none", "rekey", "r2c"}
  /\ me[c] # Nobody => at = "none"
  /\ main[c] = "login" => at = "main"
  /\ io[c] = "login" => at = "page"
  /\ io[c] = "lobby" /\ cid[c] \notin Users => at = "none"
  /\ \A j \in DOMAIN c2r[c] : c2r[c][j].type \in LoginRequests => at = "c2r" /\ i = j
  /\ \A j \in DOMAIN relayQ :
       relayQ[j].pb.type \in LoginRequests /\ relayQ[j].from = c => at = "relayQ" /\ i = j
  /\ \A j \in DOMAIN loginQ : loginQ[j].key = cid[c] => at = "loginQ" /\ i = j
  /\ \A j \in DOMAIN l2r : l2r[j].to = cid[c] => at = "l2r" /\ i = j
  /\ \A j \in DOMAIN relayQ :
       relayQ[j].pb.type \in LoginReplies /\ relayQ[j].pb.to = cid[c] => at = "reply" /\ i = j
  /\ rekey # Nobody /\ rekey.c = c => at = "rekey"
  /\ \A j \in DOMAIN r2c[c] : r2c[c][j].type \in LoginReplies => at = "r2c" /\ i = j

OneLoginEach == \A c \in Conns : \E at \in LoginStages, i \in Int : LoginAt(c, at, i)

\* Requests at the login server and its answers carry the key of a connection.
IsKey(k) == k \in Keys /\ \E c \in Conns : cid[c] = k
AnswersKeyed ==
  /\ \A j \in DOMAIN loginQ : IsKey(loginQ[j].key)
  /\ \A j \in DOMAIN l2r : IsKey(l2r[j].to)
  /\ \A j \in DOMAIN relayQ : relayQ[j].pb.type \in LoginReplies => IsKey(relayQ[j].pb.to)

\* What waits for a client is addressed to it, and bears its account unless it
\* is an answer that leaves it without one.
ReachesOwn ==
  \A c \in Conns : \A j \in DOMAIN r2c[c] :
    /\ r2c[c][j].to = cid[c]
    /\ r2c[c][j].type \in LoginReplies \ {"ACCEPT_LOG_IN"} => r2c[c][j].to \in Keys

\* Every id in the game is the account of a connection.
IsAccount(u) == u \in Users /\ \E c \in Conns : cid[c] = u
RequestsSigned ==
  /\ \A c \in Conns : me[c] # Nobody => me[c].id = cid[c]
  /\ \A c \in Conns : \A j \in DOMAIN c2r[c] :
       c2r[c][j].type \in GameRequests => c2r[c][j].id = cid[c]
  /\ \A j \in DOMAIN relayQ :
       relayQ[j].pb.type \in GameRequests => relayQ[j].pb.id = cid[relayQ[j].from]
  /\ \A j \in DOMAIN gameQ : IsAccount(gameQ[j].id)
PlayersKnown ==
  /\ \A r \in RoomNames :
       /\ rooms[r].players # <<>> => IsAccount(rooms[r].host)
       /\ \A k \in DOMAIN rooms[r].players : IsAccount(rooms[r].players[k].id)
  /\ \A j \in DOMAIN g2r : IsAccount(g2r[j].to)
  /\ \A j \in DOMAIN relayQ : relayQ[j].pb.type \in GameReplies => IsAccount(relayQ[j].pb.to)

\* Who logs in uses an own account.
OwnLogins ==
  \A c \in Conns :
    /\ cid[c] \in Users => cid[c] \in Owns[c]
    /\ \A j \in DOMAIN c2r[c] : c2r[c][j].type \in LoginRequests => c2r[c][j].id \in Owns[c]
    /\ \A j \in DOMAIN relayQ :
         relayQ[j].pb.type \in LoginRequests /\ relayQ[j].from = c => relayQ[j].pb.id \in Owns[c]
    /\ \A j \in DOMAIN loginQ : loginQ[j].key = cid[c] => loginQ[j].id \in Owns[c]
    /\ \A j \in DOMAIN l2r : l2r[j].to = cid[c] => l2r[j].id \in Owns[c]
    /\ \A j \in DOMAIN relayQ :
         relayQ[j].pb.type \in LoginReplies /\ relayQ[j].pb.to = cid[c] => relayQ[j].pb.id \in Owns[c]

\* While no client is gone the map has an entry for every id but one in change.
Rekeyed(c) == rekey # Nobody /\ rekey.c = c
SomeGone == \E c \in Conns : Gone(c)
NoneLost ==
  /\ \A c \in failing : Gone(c)
  /\ SomeGone \/ relayUp \/ ~gameUp
  /\ \A c \in Conns : SomeGone \/ cid[c] = Nobody \/ Rekeyed(c) \/ clients[cid[c]] # Nobody

\* An account that one connection has leads to this connection.
AccountsFindable ==
  \A c \in Conns : conn[c] = "up" /\ cid[c] \in Users /\ ~Rekeyed(c) => clients[cid[c]] = c \/ SharedAccount

DInv ==
  /\ IInv /\ KeysOK /\ OneLoginEach /\ AnswersKeyed /\ ReachesOwn
  /\ RequestsSigned /\ PlayersKnown /\ OwnLogins /\ NoneLost /\ AccountsFindable

\* The invariant speaks of the state only through these variables.
LEMMA DFrame ==
  /\ KeysOK /\ UNCHANGED <<cid, now>> => KeysOK'
  /\ AnswersKeyed /\ UNCHANGED <<cid, loginQ, l2r, relayQ>> => AnswersKeyed'
  /\ ReachesOwn /\ UNCHANGED <<cid, r2c>> => ReachesOwn'
  /\ RequestsSigned /\ UNCHANGED <<cid, me, c2r, relayQ, gameQ>> => RequestsSigned'
  /\ PlayersKnown /\ UNCHANGED <<cid, rooms, g2r, relayQ>> => PlayersKnown'
  /\ OwnLogins /\ UNCHANGED <<cid, c2r, relayQ, loginQ, l2r>> => OwnLogins'
  /\ NoneLost /\ UNCHANGED <<conn, failing, relayUp, gameUp, cid, clients, rekey>> => NoneLost'
  /\ AccountsFindable /\ UNCHANGED <<conn, cid, clients, rekey>> => AccountsFindable'
<1>1. KeysOK /\ UNCHANGED <<cid, now>> => KeysOK'
  BY DEF KeysOK
<1>2. AnswersKeyed /\ UNCHANGED <<cid, loginQ, l2r, relayQ>> => AnswersKeyed'
  BY DEF AnswersKeyed, IsKey
<1>3. ReachesOwn /\ UNCHANGED <<cid, r2c>> => ReachesOwn'
  BY DEF ReachesOwn
<1>4. RequestsSigned /\ UNCHANGED <<cid, me, c2r, relayQ, gameQ>> => RequestsSigned'
  BY DEF RequestsSigned, IsAccount
<1>5. PlayersKnown /\ UNCHANGED <<cid, rooms, g2r, relayQ>> => PlayersKnown'
  BY DEF PlayersKnown, IsAccount
<1>6. OwnLogins /\ UNCHANGED <<cid, c2r, relayQ, loginQ, l2r>> => OwnLogins'
  BY DEF OwnLogins
<1>7. NoneLost /\ UNCHANGED <<conn, failing, relayUp, gameUp, cid, clients, rekey>> => NoneLost'
  BY DEF NoneLost, SomeGone, Gone, Rekeyed
<1>8. AccountsFindable /\ UNCHANGED <<conn, cid, clients, rekey>> => AccountsFindable'
  BY DEF AccountsFindable, SharedAccount, Rekeyed
<1> QED BY <1>1, <1>2, <1>3, <1>4, <1>5, <1>6, <1>7, <1>8

(***************************************************************************)
(* The client.                                                             *)
(***************************************************************************)

\* What every step of client c leaves alone.
LocalStep(c) ==
  /\ UNCHANGED <<relayVars, loginQ, l2r, gameQ, g2r, gameVars>>
  /\ \A d \in Conns \ {c} :
       /\ conn'[d] = conn[d] /\ c2r'[d] = c2r[d] /\ r2c'[d] = r2c[d]
       /\ main'[d] = main[d] /\ io'[d] = io[d] /\ me'[d] = me[d]
       /\ room'[d] = room[d] /\ notice'[d] = notice[d] /\ others'[d] = others[d]
  /\ conn'[c] = conn[c] \/ conn'[c] \in {"reset", "eof"} \/ (conn[c] = "none" /\ conn'[c] = "pending")

LEMMA ClientsAreLocal ==
  ASSUME IInv, NEW c \in Conns, ClientStep(UserStep(c)) \/ ClientStep(HandleIO(c))
  PROVE  LocalStep(c)
<1>1. /\ conn \in [Conns -> ConnStates] /\ c2r \in [Conns -> Seq(ClientPacket)]
      /\ r2c \in [Conns -> Seq(PacketToClient)] /\ ClientTypeOK
  BY DEF IInv, TypeOK, LinksTypeOK
<1>2. Die(c) => \/ conn' = [conn EXCEPT ![c] = "reset"] /\ r2c' = [r2c EXCEPT ![c] = <<>>]
                \/ conn' = [conn EXCEPT ![c] = "eof"] /\ r2c' = [r2c EXCEPT ![c] = <<>>]
  BY DEF Die
<1>3. CASE ClientStep(UserStep(c))
  <2>1. CASE ClientStep(Connect(c))
    BY <1>1, <2>1 DEF LocalStep, ClientStep, Connect, ClientTypeOK
  <2>2. CASE ClientStep(LogInOrRegister(c)) \/ ClientStep(WrongInput(c))
    BY <1>1, <2>2 DEF LocalStep, ClientStep, LogInOrRegister, WrongInput, LeaveLoginPage, LeaveLobby,
                      Send, ClientTypeOK, links
  <2>3. CASE ClientStep(HostOrJoin(c))
    BY <1>1, <1>2, <2>3 DEF LocalStep, ClientStep, HostOrJoin, LeaveLobby, Send, ClientTypeOK
  <2>4. CASE ClientStep(FinishTurn(c))
    BY <1>1, <1>2, <2>4 DEF LocalStep, ClientStep, FinishTurn, ShowUI, Send, ClientTypeOK
  <2>5. CASE ClientStep(Quit(c))
    BY <1>1, <1>2, <2>5 DEF LocalStep, ClientStep, Quit, clientVars
  <2> QED BY <1>3, <2>1, <2>2, <2>3, <2>4, <2>5 DEF UserStep, ClientStep
<1>4. CASE ClientStep(HandleIO(c))
  <2> USE DEF LocalStep, ClientStep, ReceivedQuietly, Received, ShowPage, ClientTypeOK
  <2>1. CASE ClientStep(HandleAcceptLogIn(c)) \/ ClientStep(HandleAcceptRegister(c)) \/ ClientStep(HandleRejectLogin(c))
    BY <1>1, <2>1 DEF HandleAcceptLogIn, HandleAcceptRegister, HandleRejectLogin
  <2>2. CASE ClientStep(HandleAllowRoom(c)) \/ ClientStep(HandleRejectRoom(c)) \/ ClientStep(HandlePlayGame(c))
    BY <1>1, <2>2 DEF HandleAllowRoom, HandleRejectRoom, HandlePlayGame
  <2>3. CASE ClientStep(HandleDealCards(c))
    BY <1>1, <1>2, <2>3 DEF HandleDealCards
  <2>4. CASE ClientStep(HandlePlayerTurn(c))
    <3>1. \A d \in Conns \ {c} : others'[d] = others[d]
      BY <1>1, <2>4 DEF HandlePlayerTurn, SeesDiscard
    <3> QED BY <1>1, <1>2, <2>4, <3>1 DEF HandlePlayerTurn
  <2> QED BY <1>4, <2>1, <2>2, <2>3, <2>4 DEF HandleIO
<1> QED BY <1>3, <1>4

\* A step of a client touches neither keys nor accounts, and loses no connection but its own.
LEMMA LocalParts ==
  ASSUME DInv, NEW c \in Conns, LocalStep(c)
  PROVE  KeysOK' /\ AnswersKeyed' /\ PlayersKnown' /\ NoneLost' /\ AccountsFindable'
<1>1. UNCHANGED <<cid, now, loginQ, l2r, relayQ, rooms, gameUp, g2r, failing, relayUp, clients, rekey>>
  BY DEF LocalStep, relayVars, gameVars
<1>2. KeysOK' /\ AnswersKeyed' /\ PlayersKnown'
  BY <1>1, DFrame DEF DInv
<1>3. \A d \in Conns : Gone(d) => Gone(d)'
  BY DEF LocalStep, Gone
<1>4. SomeGone => SomeGone'
  BY <1>3 DEF SomeGone
<1>5. failing \subseteq Conns
  BY DEF DInv, IInv, TypeOK, RelayTypeOK
<1>6. NoneLost'
  BY <1>1, <1>3, <1>4, <1>5 DEF DInv, NoneLost, Rekeyed
<1>7. \A d \in Conns : conn'[d] = "up" => conn[d] = "up"
  BY DEF LocalStep
<1>8. AccountsFindable'
  BY <1>1, <1>7 DEF DInv, AccountsFindable, SharedAccount, Rekeyed
<1> QED BY <1>2, <1>6, <1>8

\* The login of every other client stays where it is.
LEMMA LocalCourse ==
  ASSUME DInv, NEW c \in Conns, LocalStep(c),
         \E at \in LoginStages, i \in Int : LoginAt(c, at, i)'
  PROVE  OneLoginEach'
<1> SUFFICES ASSUME NEW d \in Conns, d # c PROVE \E at \in LoginStages, i \in Int : LoginAt(d, at, i)'
  BY DEF OneLoginEach
<1>1. PICK at \in LoginStages, i \in Int : LoginAt(d, at, i)
  BY DEF DInv, OneLoginEach
<1>2. LoginAt(d, at, i)'
  BY <1>1 DEF LoginAt, LocalStep, relayVars
<1> QED BY <1>2

\* A step that shows no login page, sends no login and takes one packet of the
\* link at most leaves the login of its client in its place.
LEMMA QuietCourse ==
  ASSUME DInv, NEW c \in Conns, LocalStep(c),
         conn[c] # "none",
         main'[c] = "login" => main[c] = "login",
         io'[c] = "login" => io[c] = "login",
         io'[c] = "lobby" /\ cid[c] \notin Users => io[c] = "lobby",
         me'[c] # Nobody => me[c] # Nobody,
         \A j \in DOMAIN c2r'[c] : c2r'[c][j].type \in LoginRequests =>
           j \in DOMAIN c2r[c] /\ c2r'[c][j] = c2r[c][j],
         NEW k \in {0, 1},
         \A j \in DOMAIN r2c'[c] : j \in Int /\ j + k \in DOMAIN r2c[c] /\ r2c'[c][j] = r2c[c][j + k]
  PROVE  OneLoginEach'
<1>1. PICK at \in LoginStages, i \in Int : LoginAt(c, at, i)
  BY DEF DInv, OneLoginEach
<1> DEFINE n == IF at = "r2c" THEN i - k ELSE i
<1>2. n \in Int
  OBVIOUS
<1>3. conn'[c] # "none" /\ UNCHANGED <<cid, relayQ, loginQ, l2r, rekey>>
  BY DEF LocalStep, relayVars
<1>4. LoginAt(c, at, n)'
  BY <1>1, <1>3 DEF LoginAt
<1> HIDE DEF n
<1> QED BY <1>2, <1>4, LocalCourse

\* What is left to be received is addressed as before.
LEMMA LocalDelivery ==
  ASSUME DInv, NEW c \in Conns, LocalStep(c),
         NEW k \in {0, 1},
         \A j \in DOMAIN r2c'[c] : j \in Int /\ j + k \in DOMAIN r2c[c] /\ r2c'[c][j] = r2c[c][j + k]
  PROVE  ReachesOwn'
<1> SUFFICES ASSUME NEW d \in Conns, NEW j \in DOMAIN r2c'[d]
             PROVE  /\ r2c'[d][j].to = cid'[d]
                    /\ r2c'[d][j].type \in LoginReplies \ {"ACCEPT_LOG_IN"} => r2c'[d][j].to \in Keys
  BY DEF ReachesOwn
<1>1. cid' = cid
  BY DEF LocalStep, relayVars
<1>2. CASE d = c
  BY <1>1, <1>2 DEF DInv, ReachesOwn
<1>3. CASE d # c
  BY <1>1, <1>3 DEF DInv, ReachesOwn, LocalStep
<1> QED BY <1>2, <1>3

\* A request is signed with the account of its client, a login with an own one.
LEMMA LocalRequests ==
  ASSUME DInv, NEW c \in Conns, LocalStep(c),
         me'[c] # Nobody => me'[c].id = cid[c],
         \A j \in DOMAIN c2r'[c] :
           \/ j \in DOMAIN c2r[c] /\ c2r'[c][j] = c2r[c][j]
           \/ c2r'[c][j].type \in LoginRequests /\ c2r'[c][j].id \in Owns[c]
           \/ c2r'[c][j].type \in GameRequests /\ c2r'[c][j].id = cid[c]
  PROVE  RequestsSigned' /\ OwnLogins'
<1>1. UNCHANGED <<cid, relayQ, gameQ, loginQ, l2r>>
  BY DEF LocalStep, relayVars
<1>2. \A d \in Conns \ {c} : me'[d] = me[d] /\ c2r'[d] = c2r[d]
  BY DEF LocalStep
<1>3. RequestsSigned'
  <2>1. \A d \in Conns : me'[d] # Nobody => me'[d].id = cid[d]
    BY <1>2 DEF DInv, RequestsSigned
  <2>2. \A d \in Conns : \A j \in DOMAIN c2r'[d] : c2r'[d][j].type \in GameRequests => c2r'[d][j].id = cid[d]
    BY <1>2, TypesDiffer DEF DInv, RequestsSigned
  <2> QED BY <1>1, <2>1, <2>2 DEF DInv, RequestsSigned, IsAccount
<1>4. OwnLogins'
  <2>1. \A d \in Conns : \A j \in DOMAIN c2r'[d] : c2r'[d][j].type \in LoginRequests => c2r'[d][j].id \in Owns[d]
    BY <1>2, TypesDiffer DEF DInv, OwnLogins
  <2> QED BY <1>1, <2>1 DEF DInv, OwnLogins
<1> QED BY <1>3, <1>4

\* The facts that the cases of a client's step start from.
LEMMA LocalFacts ==
  ASSUME DInv, NEW c \in Conns, ClientStep(UserStep(c)) \/ ClientStep(HandleIO(c))
  PROVE  /\ IInv' /\ LocalStep(c)
         /\ KeysOK' /\ AnswersKeyed' /\ PlayersKnown' /\ NoneLost' /\ AccountsFindable'
         /\ conn \in [Conns -> ConnStates] /\ ClientTypeOK
         /\ c2r \in [Conns -> Seq(ClientPacket)] /\ r2c \in [Conns -> Seq(PacketToClient)]
         /\ \A d \in Conns : conn[d] = "none" => cid[d] = Nobody /\ io[d] = "idle" /\ r2c[d] = <<>>
         /\ \A d \in Conns : me[d] # Nobody => me[d] \in Me /\ me[d].id = cid[d] /\ cid[d] \in Users
<1>1. [Next]_vars
  BY DEF Next
<1>2. IInv'
  BY <1>1, NextIInv DEF DInv
<1>3. LocalStep(c)
  BY ClientsAreLocal DEF DInv
<1>4. KeysOK' /\ AnswersKeyed' /\ PlayersKnown' /\ NoneLost' /\ AccountsFindable'
  BY <1>3, LocalParts
<1>5. /\ conn \in [Conns -> ConnStates] /\ ClientTypeOK
      /\ c2r \in [Conns -> Seq(ClientPacket)] /\ r2c \in [Conns -> Seq(PacketToClient)]
      /\ \A d \in Conns : conn[d] = "none" => cid[d] = Nobody /\ io[d] = "idle" /\ r2c[d] = <<>>
  BY DEF DInv, IInv, TypeOK, LinksTypeOK, RoutingInv, ConnectionsOK, Unaccepted
<1>6. ASSUME NEW d \in Conns, me[d] # Nobody PROVE me[d] \in Me /\ me[d].id = cid[d] /\ cid[d] \in Users
  <2>1. me[d] \in Me
    BY <1>5, <1>6 DEF ClientTypeOK
  <2> QED BY <1>6, <2>1 DEF DInv, RequestsSigned, Me
<1> QED BY <1>2, <1>3, <1>4, <1>5, <1>6

\* What a step that closes or receives leaves of the link to the client.
LEMMA LinkShrinks ==
  ASSUME NEW c \in Conns, r2c \in [Conns -> Seq(PacketToClient)],
         UNCHANGED r2c \/ (r2c[c] # <<>> /\ Received(c)) \/ Die(c)
  PROVE  \E k \in {0, 1} : \A j \in DOMAIN r2c'[c] :
           j \in Int /\ j + k \in DOMAIN r2c[c] /\ r2c'[c][j] = r2c[c][j + k]
<1>1. r2c[c] \in Seq(PacketToClient)
  OBVIOUS
<1>2. CASE UNCHANGED r2c
  <2>1. \A j \in DOMAIN r2c'[c] : j \in Int /\ j + 0 \in DOMAIN r2c[c] /\ r2c'[c][j] = r2c[c][j + 0]
    BY <1>1, <1>2, QueuePositions
  <2> QED BY <2>1
<1>3. CASE r2c[c] # <<>> /\ Received(c)
  <2>1. r2c'[c] = Tail(r2c[c]) /\ Tail(r2c[c]) \in Seq(PacketToClient)
    BY <1>1, <1>3, QueueTypes DEF Received
  <2>2. \A j \in DOMAIN r2c'[c] : j \in Int /\ j + 1 \in DOMAIN r2c[c] /\ r2c'[c][j] = r2c[c][j + 1]
    BY <1>1, <1>3, <2>1, QueuePositions
  <2> QED BY <2>2
<1>4. CASE Die(c)
  <2>1. r2c'[c] = <<>>
    BY <1>4 DEF Die
  <2> QED BY <2>1
<1> QED BY <1>2, <1>3, <1>4

LEMMA ConnectDelivers ==
  ASSUME DInv, NEW c \in Conns, ClientStep(Connect(c))
  PROVE  DInv'
<1>1. ClientStep(UserStep(c))
  BY DEF ClientStep, UserStep
<1> USE <1>1, LocalFacts, NetworkAssumption
<1>2. /\ conn[c] = "none" /\ conn' = [conn EXCEPT ![c] = "pending"] /\ main' = [main EXCEPT ![c] = "login"]
      /\ UNCHANGED <<io, me, c2r, r2c>>
  BY DEF ClientStep, Connect
<1>3. ReachesOwn' /\ RequestsSigned' /\ OwnLogins'
  <2>1. UNCHANGED <<cid, relayQ, gameQ, loginQ, l2r, c2r, r2c, me>>
    BY <1>2 DEF LocalStep, relayVars
  <2> QED BY <2>1, DFrame DEF DInv
<1>4. PICK at \in LoginStages, i \in Int : LoginAt(c, at, i)
  BY DEF DInv, OneLoginEach
<1>5. at = "none"
  BY <1>2, <1>4 DEF LoginAt
<1>6. PICK to \in LoginStages : to = "main"
  BY DEF LoginStages
<1>7. LoginAt(c, to, i)'
  <2>1. UNCHANGED <<cid, relayQ, loginQ, l2r, rekey>>
    BY DEF LocalStep, relayVars
  <2>2. me[c] = Nobody /\ cid[c] \notin Users /\ io[c] = "idle"
    BY <1>2
  <2>3. conn'[c] # "none"
    BY <1>2
  <2> QED BY <1>2, <1>4, <1>5, <1>6, <2>1, <2>2, <2>3 DEF LoginAt
<1>8. OneLoginEach'
  BY <1>7, LocalCourse
<1> QED BY <1>3, <1>8 DEF DInv

LEMMA LogInOrRegisterDelivers ==
  ASSUME DInv, NEW c \in Conns, ClientStep(LogInOrRegister(c))
  PROVE  DInv'
<1>1. ClientStep(UserStep(c))
  BY DEF ClientStep, UserStep
<1> USE <1>1, LocalFacts, NetworkAssumption
<1>2. PICK type \in LoginRequests, u \in Owns[c], p \in Passwords :
        Send(c, [type |-> type, id |-> u, password |-> p])
  BY DEF ClientStep, LogInOrRegister
<1> DEFINE m == [type |-> type, id |-> u, password |-> p]
<1>3. m \in ClientPacket /\ m.type \in LoginRequests /\ m.id \in Owns[c]
  BY ClientAssumption DEF ClientPacket, LoginRequest
<1> HIDE DEF m
<1>4. /\ conn[c] # "none" /\ UNCHANGED <<me, conn, r2c>>
      /\ \/ main[c] = "login" /\ main' = [main EXCEPT ![c] = "done"] /\ UNCHANGED io
         \/ io[c] = "login" /\ io' = [io EXCEPT ![c] = "idle"] /\ UNCHANGED main
      /\ c2r'[c] = Append(c2r[c], m)
  BY <1>2 DEF ClientStep, LogInOrRegister, LeaveLoginPage, Send, Alive, m
<1>5. c2r[c] \in Seq(ClientPacket)
  OBVIOUS
<1>6. \A j \in DOMAIN c2r'[c] : \/ j \in DOMAIN c2r[c] /\ c2r'[c][j] = c2r[c][j]
                                \/ j = Len(c2r[c]) + 1 /\ c2r'[c][j] = m
  BY <1>3, <1>4, <1>5, QueuePositions
<1>7. RequestsSigned' /\ OwnLogins'
  BY <1>3, <1>4, <1>6, LocalRequests
<1>8. ReachesOwn'
  BY <1>4, DFrame DEF DInv, LocalStep, relayVars
<1>9. PICK at \in LoginStages, i \in Int : LoginAt(c, at, i)
  BY DEF DInv, OneLoginEach
<1>10. at \in {"main", "page"}
  BY <1>4, <1>9 DEF LoginAt
<1>11. PICK n \in Int, to \in LoginStages : n = Len(c2r[c]) + 1 /\ to = "c2r"
  BY <1>5, QueuePositions DEF LoginStages
<1>12. LoginAt(c, to, n)'
  <2>1. UNCHANGED <<cid, relayQ, loginQ, l2r, rekey>>
    BY DEF LocalStep, relayVars
  <2>2. main'[c] # "login" /\ io'[c] # "login"
    BY <1>4, <1>9 DEF LoginAt, ClientTypeOK
  <2>3. io'[c] = "lobby" => cid[c] \in Users
    BY <1>4, <1>9, <1>10 DEF LoginAt, ClientTypeOK
  <2> QED BY <1>4, <1>6, <1>9, <1>10, <1>11, <2>1, <2>2, <2>3 DEF LoginAt
<1>13. OneLoginEach'
  BY <1>12, LocalCourse
<1> QED BY <1>7, <1>8, <1>13 DEF DInv

\* The steps of a client that are no part of its login.
LEMMA QuietDelivers ==
  ASSUME DInv, NEW c \in Conns, ClientStep(UserStep(c)) \/ ClientStep(HandleIO(c)),
         conn[c] # "none",
         main'[c] = "login" => main[c] = "login",
         io'[c] = "login" => io[c] = "login",
         io'[c] = "lobby" /\ cid[c] \notin Users => io[c] = "lobby",
         me'[c] # Nobody => me[c] # Nobody /\ me'[c].id = me[c].id,
         \/ UNCHANGED c2r
         \/ \E m \in GameRequest : Send(c, m) /\ m.id = cid[c],
         UNCHANGED r2c \/ (r2c[c] # <<>> /\ Received(c)) \/ Die(c)
  PROVE  DInv'
<1> USE LocalFacts
<1>1. PICK k \in {0, 1} : \A j \in DOMAIN r2c'[c] :
        j \in Int /\ j + k \in DOMAIN r2c[c] /\ r2c'[c][j] = r2c[c][j + k]
  BY LinkShrinks
<1>2. ReachesOwn'
  BY <1>1, LocalDelivery
<1>3. c2r[c] \in Seq(ClientPacket)
  OBVIOUS
<1>4. \A j \in DOMAIN c2r'[c] : \/ j \in DOMAIN c2r[c] /\ c2r'[c][j] = c2r[c][j]
                                \/ c2r'[c][j].type \in GameRequests /\ c2r'[c][j].id = cid[c]
  <2>1. CASE UNCHANGED c2r
    BY <2>1
  <2>2. ASSUME NEW m \in GameRequest, Send(c, m), m.id = cid[c]
        PROVE  \A j \in DOMAIN c2r'[c] : \/ j \in DOMAIN c2r[c] /\ c2r'[c][j] = c2r[c][j]
                                         \/ c2r'[c][j].type \in GameRequests /\ c2r'[c][j].id = cid[c]
    <3>1. c2r'[c] = Append(c2r[c], m)
      BY <2>2 DEF Send
    <3>2. m \in ClientPacket /\ m.type \in GameRequests
      BY DEF ClientPacket, GameRequest, GameRequests
    <3> QED BY <1>3, <2>2, <3>1, <3>2, QueuePositions
  <2> QED BY <2>1, <2>2
<1>5. RequestsSigned' /\ OwnLogins'
  BY <1>4, LocalRequests
<1>6. OneLoginEach'
  BY <1>1, <1>4, TypesDiffer, QuietCourse
<1> QED BY <1>2, <1>5, <1>6 DEF DInv

LEMMA QuietUserDelivers ==
  ASSUME DInv, NEW c \in Conns,
         \/ ClientStep(WrongInput(c)) \/ ClientStep(Quit(c))
         \/ ClientStep(HostOrJoin(c)) \/ ClientStep(FinishTurn(c))
  PROVE  DInv'
<1>1. ClientStep(UserStep(c))
  BY DEF ClientStep, UserStep
<1>2. ClientTypeOK /\ \A d \in Conns : me[d] # Nobody => me[d] \in Me /\ me[d].id = cid[d] /\ cid[d] \in Users
  BY <1>1, LocalFacts
<1>3. CASE ClientStep(WrongInput(c))
  <2>1. /\ conn[c] # "none" /\ UNCHANGED <<me, c2r, r2c>>
        /\ main'[c] = "login" => main[c] = "login"
        /\ io'[c] \in {"login", "lobby"} => io[c] = io'[c]
    BY <1>2, <1>3 DEF ClientStep, WrongInput, Alive, LeaveLoginPage, LeaveLobby, links, ClientTypeOK
  <2> QED BY <1>1, <2>1, QuietDelivers
<1>4. CASE ClientStep(Quit(c))
  <2>1. conn[c] # "none" /\ UNCHANGED <<main, io, me, c2r>> /\ Die(c)
    BY <1>4 DEF ClientStep, Quit, clientVars
  <2> QED BY <1>1, <2>1, QuietDelivers
<1>5. CASE ClientStep(HostOrJoin(c))
  <2>1. PICK type \in RoomRequests, r \in RoomNames :
          \/ /\ me[c] # Nobody /\ LeaveLobby(c)
             /\ Send(c, [type |-> type, id |-> me[c].id, room |-> r]) /\ UNCHANGED r2c
          \/ Die(c) /\ UNCHANGED <<main, io, c2r>>
    BY <1>5 DEF ClientStep, HostOrJoin
  <2>2. conn[c] # "none" /\ UNCHANGED me
    BY <1>5 DEF ClientStep, HostOrJoin, Alive
  <2>3. CASE /\ me[c] # Nobody /\ LeaveLobby(c)
             /\ Send(c, [type |-> type, id |-> me[c].id, room |-> r]) /\ UNCHANGED r2c
    <3> DEFINE m == [type |-> type, id |-> me[c].id, room |-> r]
    <3>1. m \in GameRequest /\ m.id = cid[c]
      BY <1>2, <2>3 DEF GameRequest, Me
    <3>2. Send(c, m)
      BY <2>3
    <3> HIDE DEF m
    <3>3. UNCHANGED main /\ io'[c] = "idle"
      BY <1>2, <2>3 DEF LeaveLobby, ClientTypeOK
    <3> QED BY <1>1, <2>2, <2>3, <3>1, <3>2, <3>3, QuietDelivers
  <2>4. CASE Die(c) /\ UNCHANGED <<main, io, c2r>>
    BY <1>1, <2>2, <2>4, QuietDelivers
  <2> QED BY <2>1, <2>3, <2>4
<1>6. CASE ClientStep(FinishTurn(c))
  <2>1. conn[c] # "none" /\ UNCHANGED main /\ io[c] = "turn"
    BY <1>6 DEF ClientStep, FinishTurn, Alive
  <2>2. me[c] \in Me /\ me[c] # Nobody
    BY <2>1, ClientAssumption DEF DInv, IInv, PagesInv, TurnsLoggedIn
  <2>3. PICK chosen \in DiscardChoices :
          \/ \E p \in Discard(me[c], chosen) :
               /\ me' = [me EXCEPT ![c] = p]
               /\ io' = [io EXCEPT ![c] = "idle"]
               /\ Send(c, [type |-> "PlAYER_TURN_OVER", id |-> me[c].id, room |-> room[c],
                           discarded |-> Size(chosen)])
               /\ ShowUI(c, p)
          \/ Die(c) /\ UNCHANGED <<me, io, c2r>>
    BY <1>6 DEF ClientStep, FinishTurn
  <2>4. ASSUME NEW p \in Discard(me[c], chosen),
               me' = [me EXCEPT ![c] = p],
               io' = [io EXCEPT ![c] = "idle"],
               Send(c, [type |-> "PlAYER_TURN_OVER", id |-> me[c].id, room |-> room[c],
                        discarded |-> Size(chosen)]),
               ShowUI(c, p)
        PROVE  DInv'
    <3> DEFINE m == [type |-> "PlAYER_TURN_OVER", id |-> me[c].id, room |-> room[c],
                     discarded |-> Size(chosen)]
    <3>1. m \in GameRequest /\ m.id = cid[c]
      <4>1. Size(chosen) \in Nat
        BY SizeType DEF DiscardChoices
      <4> QED BY <1>2, <2>2, <4>1 DEF GameRequest, Me, ClientTypeOK
    <3>2. Send(c, m)
      BY <2>4
    <3> HIDE DEF m
    <3>3. p.id = me[c].id
      BY <2>2, DiscardType
    <3>4. me'[c].id = me[c].id /\ io'[c] = "idle"
      BY <1>2, <2>4, <3>3 DEF ClientTypeOK
    <3>5. UNCHANGED r2c \/ Die(c)
      BY <2>4 DEF ShowUI
    <3> QED BY <1>1, <2>1, <2>2, <3>1, <3>2, <3>4, <3>5, QuietDelivers
  <2>5. CASE Die(c) /\ UNCHANGED <<me, io, c2r>>
    BY <1>1, <2>1, <2>5, QuietDelivers
  <2> QED BY <2>3, <2>4, <2>5
<1> QED BY <1>3, <1>4, <1>5, <1>6

LEMMA QuietHandlerDelivers ==
  ASSUME DInv, NEW c \in Conns,
         \/ ClientStep(HandleAllowRoom(c)) \/ ClientStep(HandleRejectRoom(c)) \/ ClientStep(HandlePlayGame(c))
         \/ ClientStep(HandleDealCards(c)) \/ ClientStep(HandlePlayerTurn(c))
  PROVE  DInv'
<1>1. ClientStep(HandleIO(c))
  BY DEF ClientStep, HandleIO
<1>2. ClientTypeOK /\ r2c[c] # <<>> /\ conn[c] # "none"
  BY <1>1, LocalFacts DEF ClientStep, HandleAllowRoom, HandleRejectRoom, HandlePlayGame, HandleDealCards,
                          HandlePlayerTurn, Receive
<1> USE DEF ClientStep, ReceivedQuietly, ShowPage, ClientTypeOK
<1>3. UNCHANGED main /\ UNCHANGED c2r
  BY DEF HandleAllowRoom, HandleRejectRoom, HandlePlayGame, HandleDealCards, HandlePlayerTurn
<1>4. io'[c] = "login" => io[c] = "login"
  BY <1>2 DEF HandleAllowRoom, HandleRejectRoom, HandlePlayGame, HandleDealCards, HandlePlayerTurn
<1>5. Received(c) \/ Die(c)
  BY DEF HandleAllowRoom, HandleRejectRoom, HandlePlayGame, HandleDealCards, HandlePlayerTurn
<1>6. me'[c] # Nobody => me[c] # Nobody /\ me'[c].id = me[c].id
  <2>1. CASE UNCHANGED me
    BY <2>1
  <2>2. CASE me[c] # Nobody /\ me' = [me EXCEPT ![c] = [me[c] EXCEPT !.hand = Head(r2c[c]).cards]]
    <3>1. me[c] \in Me
      BY <1>2, <2>2
    <3>2. me'[c].id = me[c].id
      BY <1>2, <2>2, <3>1 DEF Me
    <3> QED BY <2>2, <3>2
  <2> QED BY <2>1, <2>2 DEF HandleAllowRoom, HandleRejectRoom, HandlePlayGame, HandleDealCards, HandlePlayerTurn
<1>7. io'[c] = "lobby" /\ cid[c] \notin Users => io[c] = "lobby"
  <2>1. CASE ClientStep(HandleRejectRoom(c))
    <3>1. r2c[c] \in Seq(PacketToClient)
      BY <1>1, LocalFacts
    <3>2. Head(r2c[c]) = r2c[c][1] /\ 1 \in DOMAIN r2c[c] /\ r2c[c][1] \in PacketToClient
      BY <1>2, <3>1, QueuePositions, QueueTypes
    <3>3. r2c[c][1].type \in {"REJECT_HOST_ROOM", "REJECT_ENTER_ROOM"}
      BY <2>1, <3>2 DEF HandleRejectRoom, Receive
    <3>4. r2c[c][1].to \in Users
      BY <3>2, <3>3, TypesDiffer DEF PacketToClient, GamePacket, LoginReplies
    <3> QED BY <3>2, <3>4 DEF DInv, ReachesOwn
  <2>2. CASE ~ClientStep(HandleRejectRoom(c))
    BY <1>2, <2>2 DEF HandleAllowRoom, HandlePlayGame, HandleDealCards, HandlePlayerTurn
  <2> QED BY <2>1, <2>2
<1> QED BY <1>1, <1>2, <1>3, <1>4, <1>5, <1>6, <1>7, QuietDelivers

\* The answer to a login arrives: it was all that was under way.
LEMMA LoginReceived ==
  ASSUME DInv, NEW c \in Conns, ClientStep(HandleIO(c)),
         r2c[c] # <<>>, Received(c), Head(r2c[c]).type \in LoginReplies,
         UNCHANGED <<main, conn, c2r>>, NEW to \in {"none", "page"},
         io'[c] = "login" => to = "page",
         io'[c] = "lobby" => to = "none",
         to = "page" => cid[c] \notin Users,
         me'[c] # Nobody => to = "none"
  PROVE  OneLoginEach' /\ ReachesOwn'
<1> USE LocalFacts
<1>1. r2c[c] \in Seq(PacketToClient)
  OBVIOUS
<1>2. /\ Head(r2c[c]) = r2c[c][1] /\ 1 \in DOMAIN r2c[c]
      /\ r2c'[c] = Tail(r2c[c])
      /\ \A j \in DOMAIN r2c[c] : j \in Int /\ 1 <= j
  BY <1>1, QueuePositions DEF Received
<1>3. \A j \in DOMAIN r2c'[c] : j \in Int /\ 1 <= j /\ j + 1 \in DOMAIN r2c[c] /\ r2c'[c][j] = r2c[c][j + 1]
  <2>1. Tail(r2c[c]) \in Seq(PacketToClient)
    BY <1>1, QueueTypes
  <2> QED BY <1>1, <1>2, <2>1, QueuePositions
<1>4. ReachesOwn'
  BY <1>3, LocalDelivery
<1>5. PICK at \in LoginStages, i \in Int : LoginAt(c, at, i)
  BY DEF DInv, OneLoginEach
<1>6. at = "r2c" /\ i = 1
  BY <1>2, <1>5 DEF LoginAt
<1>7. \A j \in DOMAIN r2c'[c] : r2c'[c][j].type \notin LoginReplies
  <2> SUFFICES ASSUME NEW j \in DOMAIN r2c'[c], r2c'[c][j].type \in LoginReplies PROVE FALSE
    OBVIOUS
  <2>1. j + 1 = 1
    BY <1>3, <1>5, <1>6 DEF LoginAt
  <2> QED BY <1>3, <2>1
<1>8. PICK place \in LoginStages : place = to
  BY DEF LoginStages
<1>9. LoginAt(c, place, i)'
  <2>1. UNCHANGED <<cid, relayQ, loginQ, l2r, rekey>>
    BY DEF LocalStep, relayVars
  <2>2. conn[c] # "none" /\ main[c] # "login"
    BY <1>2, <1>5, <1>6 DEF LoginAt
  <2> QED BY <1>5, <1>6, <1>7, <1>8, <2>1, <2>2 DEF LoginAt
<1> QED BY <1>4, <1>9, LocalCourse

LEMMA HandleAcceptLogInDelivers ==
  ASSUME DInv, NEW c \in Conns, ClientStep(HandleAcceptLogIn(c))
  PROVE  DInv'
<1>1. ClientStep(HandleIO(c))
  BY DEF ClientStep, HandleIO
<1> USE <1>1, LocalFacts
<1> DEFINE new == [id |-> Head(r2c[c]).to, hand |-> NoCards, num |-> HandSize]
<1>2. /\ r2c[c] # <<>> /\ Head(r2c[c]).type = "ACCEPT_LOG_IN" /\ Received(c)
      /\ me'[c] = new /\ io'[c] = "lobby" /\ UNCHANGED <<main, conn, c2r>>
  BY DEF ClientStep, HandleAcceptLogIn, ShowPage, Receive, ReceivedQuietly, ClientTypeOK
<1>3. new.id = cid[c]
  <2>1. r2c[c] \in Seq(PacketToClient)
    OBVIOUS
  <2>2. Head(r2c[c]) = r2c[c][1] /\ 1 \in DOMAIN r2c[c]
    BY <1>2, <2>1, QueuePositions
  <2> QED BY <2>2 DEF DInv, ReachesOwn
<1> HIDE DEF new
<1>4. OneLoginEach' /\ ReachesOwn'
  BY <1>2, LoginReceived DEF LoginReplies
<1>5. RequestsSigned' /\ OwnLogins'
  BY <1>2, <1>3, LocalRequests
<1> QED BY <1>4, <1>5 DEF DInv

LEMMA HandleLoginRefusalDelivers ==
  ASSUME DInv, NEW c \in Conns, ClientStep(HandleAcceptRegister(c)) \/ ClientStep(HandleRejectLogin(c))
  PROVE  DInv'
<1>1. ClientStep(HandleIO(c))
  BY DEF ClientStep, HandleIO
<1> USE <1>1, LocalFacts
<1>2. /\ r2c[c] # <<>> /\ Head(r2c[c]).type \in LoginReplies \ {"ACCEPT_LOG_IN"} /\ Received(c)
      /\ UNCHANGED <<me, main, conn, c2r>> /\ io'[c] \in {"lobby", "login"}
  BY DEF ClientStep, HandleAcceptRegister, HandleRejectLogin, ShowPage, Receive, ReceivedQuietly, ClientTypeOK,
         LoginReplies
<1>3. r2c[c] \in Seq(PacketToClient)
  OBVIOUS
<1>4. Head(r2c[c]) = r2c[c][1] /\ 1 \in DOMAIN r2c[c]
  BY <1>2, <1>3, QueuePositions
<1>5. cid[c] \in Keys
  BY <1>2, <1>4 DEF DInv, ReachesOwn
<1>6. cid[c] \notin Users
  BY <1>5, NetworkAssumption DEF Keys
<1>7. me[c] = Nobody
  BY <1>6
<1>8. OneLoginEach' /\ ReachesOwn'
  <2>1. PICK to \in {"none", "page"} : io'[c] = "login" <=> to = "page"
    OBVIOUS
  <2> QED BY <1>2, <1>6, <1>7, <2>1, LoginReceived
<1>9. RequestsSigned' /\ OwnLogins'
  BY <1>2, <1>7, LocalRequests
<1> QED BY <1>8, <1>9 DEF DInv

(***************************************************************************)
(* The login server.                                                       *)
(***************************************************************************)

LEMMA LoginServerDelivers ==
  ASSUME DInv, LoginStep(HandleLoginPacket)
  PROVE  DInv'
<1> DEFINE m == Head(loginQ)
<1>1. /\ loginQ # <<>> /\ loginQ' = Tail(loginQ)
      /\ UNCHANGED <<conn, c2r, r2c, gameQ, g2r, clientVars, relayVars, gameVars>>
      /\ \E type \in LoginReplies : Answer(type, m)
  BY DEF LoginStep, HandleLoginPacket, HandleLogIn, HandleRegister, PopLogin, LoginReplies
<1>2. IInv'
  BY NextIInv DEF DInv, Next
<1>3. UNCHANGED <<cid, now, r2c, me, c2r, relayQ, gameQ, rooms, gameUp, g2r, conn, failing, relayUp, clients, rekey,
                  main, io>>
  BY <1>1 DEF clientVars, relayVars, gameVars
<1>4. KeysOK' /\ ReachesOwn' /\ RequestsSigned' /\ PlayersKnown' /\ NoneLost' /\ AccountsFindable'
  BY <1>3, DFrame DEF DInv
<1>5. loginQ \in Seq(StampedRequest) /\ l2r \in Seq(LoginReply)
  BY DEF DInv, IInv, TypeOK, LinksTypeOK
<1>6. m \in StampedRequest /\ m = loginQ[1] /\ 1 \in DOMAIN loginQ
  BY <1>1, <1>5, QueueTypes, QueuePositions
<1>7. \A j \in DOMAIN loginQ' : j \in Int /\ 1 <= j /\ j + 1 \in DOMAIN loginQ /\ loginQ'[j] = loginQ[j + 1]
  <2>1. Tail(loginQ) \in Seq(StampedRequest)
    BY <1>1, <1>5, QueueTypes
  <2> QED BY <1>1, <1>5, <2>1, QueuePositions
<1>8. PICK n \in Int : n = Len(l2r) + 1
  BY <1>5, QueuePositions
<1>9. PICK p \in LoginReply : p.to = m.key /\ p.id = m.id /\ l2r' = Append(l2r, p)
  <2>1. PICK type \in LoginReplies : Answer(type, m)
    BY <1>1
  <2> DEFINE q == [type |-> type, to |-> m.key, id |-> m.id]
  <2>2. q \in LoginReply /\ q.to = m.key /\ q.id = m.id /\ l2r' = Append(l2r, q)
    BY <1>6, <2>1 DEF LoginReply, StampedRequest, Answer
  <2> HIDE DEF q
  <2> QED BY <2>2
<1> HIDE DEF m
<1>10. \A j \in DOMAIN l2r' : (j \in DOMAIN l2r /\ l2r'[j] = l2r[j]) \/ (j = n /\ l2r'[j] = p)
  BY <1>5, <1>8, <1>9, QueuePositions
<1>11. AnswersKeyed'
  BY <1>3, <1>6, <1>7, <1>9, <1>10 DEF DInv, AnswersKeyed, IsKey
<1>12. OwnLogins'
  BY <1>3, <1>6, <1>7, <1>9, <1>10 DEF DInv, OwnLogins
<1>13. OneLoginEach'
  <2> SUFFICES ASSUME NEW c \in Conns PROVE \E at \in LoginStages, i \in Int : LoginAt(c, at, i)'
    BY DEF OneLoginEach
  <2>1. PICK at \in LoginStages, i \in Int : LoginAt(c, at, i)
    BY DEF DInv, OneLoginEach
  <2>2. CASE m.key = cid[c]
    <3>1. at = "loginQ" /\ i = 1
      BY <1>6, <2>1, <2>2 DEF LoginAt
    <3>2. \A j \in DOMAIN loginQ' : loginQ'[j].key # cid[c]
      <4> SUFFICES ASSUME NEW j \in DOMAIN loginQ', loginQ'[j].key = cid[c] PROVE FALSE
        OBVIOUS
      <4>1. j + 1 = 1
        BY <1>7, <2>1, <3>1 DEF LoginAt
      <4> QED BY <1>7, <4>1
    <3>3. PICK to \in LoginStages : to = "l2r"
      BY DEF LoginStages
    <3>4. LoginAt(c, to, n)'
      BY <1>3, <1>9, <1>10, <2>1, <3>1, <3>2, <3>3 DEF LoginAt
    <3> QED BY <3>4
  <2>3. CASE m.key # cid[c]
    <3> DEFINE k == IF at = "loginQ" THEN i - 1 ELSE i
    <3>1. k \in Int
      OBVIOUS
    <3>2. LoginAt(c, at, k)'
      BY <1>3, <1>7, <1>9, <1>10, <2>1, <2>3 DEF LoginAt
    <3> HIDE DEF k
    <3> QED BY <3>1, <3>2
  <2> QED BY <2>2, <2>3
<1> QED BY <1>2, <1>4, <1>11, <1>12, <1>13 DEF DInv

(***************************************************************************)
(* The game server.                                                        *)
(***************************************************************************)

\* Room new is room rm with player u in one more seat, dealt cards or not.
NextSeat(rm, new, u) ==
  /\ new \in Room /\ new.host = rm.host /\ new.turn = rm.turn
  /\ DOMAIN rm.players = 1 .. Len(rm.players) /\ Len(rm.players) \in Nat
  /\ DOMAIN new.players = 1 .. Len(rm.players) + 1
  /\ Len(new.players) = Len(rm.players) + 1
  /\ \A k \in DOMAIN rm.players : new.players[k].id = rm.players[k].id
  /\ new.players[Len(rm.players) + 1].id = u

\* The packets q that go out become q2 when the game of rm starts: who is
\* there and the hands, then at place n the turn of the host, then the reply.
GameStarts(q, q2, rm, n, reply) ==
  /\ Len(q) < n /\ n \in DOMAIN q2
  /\ \A j \in DOMAIN q2 :
       \/ j \in DOMAIN q /\ q2[j] = q[j]
       \/ /\ Len(q) < j /\ j < n
          /\ q2[j].type \in {"ALLOW_PLAY_GAME", "DEAL_CARDS"}
          /\ \E k \in DOMAIN rm.players : q2[j].to = rm.players[k].id
       \/ j = n /\ q2[j].type = "PLAYER_TURN" /\ q2[j].to = rm.host
       \/ j = n + 1 /\ q2[j] = reply

\* Of these, player k gets one that says who is there and one with its hand.
TableAt(q, rm, k) == Len(q) + k
HandAt(q, rm, k) == Len(q) + Len(rm.players) + k
Deals(q, q2, rm) ==
  /\ \A k \in DOMAIN rm.players :
       /\ TableAt(q, rm, k) \in DOMAIN q2 /\ q2[TableAt(q, rm, k)] = Others(rm)[k]
       /\ HandAt(q, rm, k) \in DOMAIN q2 /\ q2[HandAt(q, rm, k)] = Hands(rm)[k]
  /\ \A j \in DOMAIN q2 : Len(q) < j =>
       /\ q2[j].type = "ALLOW_PLAY_GAME" => \E k \in DOMAIN rm.players : j = TableAt(q, rm, k)
       /\ q2[j].type = "DEAL_CARDS" => \E k \in DOMAIN rm.players : j = HandAt(q, rm, k)
       /\ q2[j].type = "PLAYER_TURN" => q2[j].previous = Nobody
AllHold(rm) == \A k \in DOMAIN rm.players : HandSize <= Size(rm.players[k].hand)

LEMMA DealtSeats ==
  ASSUME NEW rm \in Room, NEW p
  PROVE  /\ DealCards(rm, p).turn = rm.turn /\ Len(DealCards(rm, p).players) = Len(rm.players)
         /\ DOMAIN DealCards(rm, p).players = DOMAIN rm.players
         /\ \A k \in DOMAIN rm.players : /\ DealCards(rm, p).players[k].id = rm.players[k].id
                                         /\ DealCards(rm, p).players[k].hand = HandOf(p, k)
<1> DEFINE s == rm.players
           dealt == [i \in DOMAIN s |-> [s[i] EXCEPT !.hand = HandOf(p, i)]]
<1>1. s \in Seq(Player) /\ \A i \in DOMAIN s : s[i] \in Player
  BY QueueTypes DEF Room
<1>2. \A k \in DOMAIN s : dealt[k].id = s[k].id /\ dealt[k].hand = HandOf(p, k)
  BY <1>1 DEF Player
<1>3. DOMAIN dealt = DOMAIN s
  OBVIOUS
<1>4. DealCards(rm, p) = [rm EXCEPT !.players = dealt]
  BY DEF DealCards
<1> HIDE DEF dealt
<1>5. DealCards(rm, p).players = dealt /\ DealCards(rm, p).turn = rm.turn
  BY <1>4 DEF Room
<1>6. DealCards(rm, p) \in Room
  BY DealtRoom
<1>7. DealCards(rm, p).players \in Seq(Player)
  BY <1>6 DEF Room
<1>8. Len(DealCards(rm, p).players) = Len(rm.players)
  <2>1. dealt \in Seq(Player)
    BY <1>5, <1>7
  <2>2. DOMAIN dealt = 1 .. Len(dealt) /\ Len(dealt) \in Nat
    BY <2>1, LenProperties
  <2>3. DOMAIN s = 1 .. Len(s) /\ Len(s) \in Nat
    BY <1>1, LenProperties
  <2> QED BY <1>3, <1>5, <2>2, <2>3, SameLength
<1> QED BY <1>2, <1>3, <1>5, <1>8

LEMMA StartedGame ==
  ASSUME NEW rm \in Room, rm.host \in Users, NEW q \in Seq(GamePacket), NEW reply \in GamePacket,
         reply.type \in RoomReplies, NEW q2, q2 = q \o PlayGame(rm) \o <<reply>>
  PROVE  Deals(q, q2, rm) /\ \E n \in Int : GameStarts(q, q2, rm, n, reply)
<1> DEFINE s == rm.players
           a == Others(rm)
           b == Hands(rm)
           t == FirstTurn(rm.host)
<1>1. s \in Seq(Player) /\ \A i \in DOMAIN s : s[i] \in Player
  BY QueueTypes DEF Room
<1>2. a \in Seq(GamePacket) /\ DOMAIN a = DOMAIN s
      /\ \A j \in DOMAIN a : a[j].type = "ALLOW_PLAY_GAME" /\ a[j].to = s[j].id /\ j \in DOMAIN s
  <2>1. \A i \in DOMAIN s : OtherIds(s, i) \in Seq(Users)
    BY <1>1, OtherIdsType
  <2>2. a \in [DOMAIN s -> GamePacket]
    BY <1>1, <2>1 DEF Others, GamePacket, Player
  <2> QED BY <1>1, <2>2, PerSeat DEF Others
<1>3. b \in Seq(GamePacket) /\ DOMAIN b = DOMAIN s
      /\ \A j \in DOMAIN b : b[j].type = "DEAL_CARDS" /\ b[j].to = s[j].id /\ j \in DOMAIN s
  <2>1. b \in [DOMAIN s -> GamePacket]
    BY <1>1 DEF Hands, GamePacket, Player
  <2> QED BY <1>1, <2>1, PerSeat DEF Hands
<1>4. t \in Seq(GamePacket) /\ Len(t) = 1 /\ t[1].type = "PLAYER_TURN" /\ t[1].to = rm.host /\ t[1].previous = Nobody
  BY DEF FirstTurn, GamePacket
<1>5. <<reply>> \in Seq(GamePacket) /\ Len(<<reply>>) = 1 /\ <<reply>>[1] = reply
  OBVIOUS
<1> DEFINE l == <<reply>>
<1>6. PlayGame(rm) = (a \o b) \o t /\ Others(rm) = a /\ Hands(rm) = b
  BY DEF PlayGame
<1> HIDE DEF a, b, t, l
<1>7. /\ a \o b \in Seq(GamePacket) /\ Len(a \o b) = Len(a) + Len(b)
      /\ \A i \in 1 .. Len(a) + Len(b) : (a \o b)[i] = IF i <= Len(a) THEN a[i] ELSE b[i - Len(a)]
  BY <1>2, <1>3, ConcatProperties
<1> DEFINE ab == a \o b
<1> HIDE DEF ab
<1>8. /\ ab \o t \in Seq(GamePacket) /\ Len(ab \o t) = Len(ab) + 1
      /\ \A i \in 1 .. Len(ab) + 1 : (ab \o t)[i] = IF i <= Len(ab) THEN ab[i] ELSE t[i - Len(ab)]
  <2>1. ab \in Seq(GamePacket)
    BY <1>7 DEF ab
  <2>2. /\ ab \o t \in Seq(GamePacket) /\ Len(ab \o t) = Len(ab) + Len(t)
        /\ \A i \in 1 .. Len(ab) + Len(t) : (ab \o t)[i] = IF i <= Len(ab) THEN ab[i] ELSE t[i - Len(ab)]
    BY <1>4, <2>1, ConcatProperties
  <2>3. Len(ab) + Len(t) = Len(ab) + 1
    BY <1>4
  <2> QED BY <2>2, <2>3
<1> DEFINE g == ab \o t
<1> HIDE DEF g
<1>9. /\ q \o g \in Seq(GamePacket) /\ Len(q \o g) = Len(q) + Len(g)
      /\ \A i \in 1 .. Len(q) + Len(g) : (q \o g)[i] = IF i <= Len(q) THEN q[i] ELSE g[i - Len(q)]
  <2>1. g \in Seq(GamePacket)
    BY <1>8 DEF g
  <2> QED BY <2>1, ConcatProperties
<1> DEFINE qg == q \o g
<1> HIDE DEF qg
<1>10. /\ qg \o l \in Seq(GamePacket) /\ Len(qg \o l) = Len(qg) + 1
       /\ \A i \in 1 .. Len(qg) + 1 : (qg \o l)[i] = IF i <= Len(qg) THEN qg[i] ELSE l[i - Len(qg)]
  <2>1. qg \in Seq(GamePacket) /\ l \in Seq(GamePacket) /\ Len(l) = 1
    BY <1>5, <1>9 DEF qg, l
  <2>2. Len(qg) + Len(l) = Len(qg) + 1
    BY <2>1
  <2> QED BY <2>1, <2>2, ConcatProperties
<1>11. q2 = qg \o l /\ l[1] = reply
  BY <1>5, <1>6 DEF qg, g, ab, l
<1>12. /\ DOMAIN q2 = 1 .. Len(q) + Len(a) + Len(b) + 2
       /\ Len(q) \in Nat /\ Len(a) \in Nat /\ Len(b) \in Nat
       /\ DOMAIN q = 1 .. Len(q) /\ DOMAIN a = 1 .. Len(a) /\ DOMAIN b = 1 .. Len(b)
  <2>1. /\ Len(q) \in Nat /\ Len(a) \in Nat /\ Len(b) \in Nat
        /\ DOMAIN q = 1 .. Len(q) /\ DOMAIN a = 1 .. Len(a) /\ DOMAIN b = 1 .. Len(b)
    BY <1>2, <1>3, LenProperties
  <2>2. Len(qg) = Len(q) + Len(a) + Len(b) + 1
    BY <1>7, <1>8, <1>9, <2>1 DEF ab, g, qg
  <2>3. DOMAIN q2 = 1 .. Len(qg) + 1
    BY <1>10, <1>11, LenProperties
  <2> QED BY <2>1, <2>2, <2>3
<1>13. PICK n \in Int : n = Len(q) + Len(a) + Len(b) + 1
  BY <1>12
<1>14. ASSUME NEW j \in DOMAIN q2
       PROVE  \/ j \in DOMAIN q /\ q2[j] = q[j]
              \/ j - Len(q) \in DOMAIN a /\ q2[j] = a[j - Len(q)]
              \/ j - Len(q) - Len(a) \in DOMAIN b /\ q2[j] = b[j - Len(q) - Len(a)]
              \/ j = n /\ q2[j] = t[1]
              \/ j = n + 1 /\ q2[j] = reply
  <2>1. j \in Int /\ 1 <= j /\ j <= n + 1
    BY <1>12, <1>13
  <2>2. Len(ab) = Len(a) + Len(b) /\ Len(g) = Len(ab) + 1 /\ Len(qg) = n
    BY <1>7, <1>8, <1>9, <1>12, <1>13 DEF ab, g, qg
  <2>3. CASE j = n + 1
    <3>1. j \in 1 .. Len(qg) + 1 /\ ~(j <= Len(qg)) /\ j - Len(qg) = 1
      BY <2>1, <2>2, <2>3
    <3>2. (qg \o l)[j] = l[j - Len(qg)]
      BY <1>10, <3>1
    <3> QED BY <1>11, <2>3, <3>1, <3>2
  <2>4. CASE j <= n
    <3>1. q2[j] = qg[j]
      BY <1>10, <1>11, <2>1, <2>2, <2>4
    <3>2. CASE j <= Len(q)
      BY <1>9, <1>12, <2>1, <2>2, <2>4, <3>1, <3>2 DEF qg
    <3>3. CASE Len(q) < j
      <4>1. q2[j] = g[j - Len(q)]
        BY <1>9, <1>12, <2>1, <2>2, <2>4, <3>1, <3>3 DEF qg
      <4>2. CASE j = n
        <5>1. j - Len(q) = Len(ab) + 1 /\ Len(ab) \in Nat
          BY <1>12, <1>13, <2>2, <4>2
        <5>2. g[Len(ab) + 1] = t[1]
          BY <1>8, <5>1 DEF g
        <5> QED BY <4>1, <4>2, <5>1, <5>2
      <4>3. CASE j < n
        <5>1. j - Len(q) \in 1 .. Len(ab) /\ Len(ab) \in Nat
          BY <1>12, <1>13, <2>1, <2>2, <3>3, <4>3
        <5>2. q2[j] = ab[j - Len(q)]
          BY <1>8, <4>1, <5>1 DEF g
        <5>3. CASE j - Len(q) <= Len(a)
          <6>1. q2[j] = a[j - Len(q)] /\ j - Len(q) \in DOMAIN a
            BY <1>7, <1>12, <2>2, <5>1, <5>2, <5>3 DEF ab
          <6> QED BY <6>1
        <5>4. CASE Len(a) < j - Len(q)
          <6>1. q2[j] = b[j - Len(q) - Len(a)] /\ j - Len(q) - Len(a) \in DOMAIN b
            BY <1>7, <1>12, <2>2, <5>1, <5>2, <5>4 DEF ab
          <6> QED BY <6>1
        <5> QED BY <1>12, <5>1, <5>3, <5>4
      <4> QED BY <2>1, <2>4, <4>2, <4>3
    <3> QED BY <1>12, <2>1, <3>2, <3>3
  <2> QED BY <2>1, <2>3, <2>4
<1>15. Len(a) = Len(s) /\ Len(b) = Len(s) /\ Len(s) \in Nat /\ DOMAIN s = 1 .. Len(s)
  <2>1. Len(s) \in Nat /\ DOMAIN s = 1 .. Len(s)
    BY <1>1, LenProperties
  <2> QED BY <1>2, <1>3, <1>12, <2>1, SameLength
<1>16. GameStarts(q, q2, rm, n, reply)
  <2>1. Len(q) < n /\ n \in DOMAIN q2
    BY <1>12, <1>13
  <2>2. ASSUME NEW j \in DOMAIN q2
        PROVE  \/ j \in DOMAIN q /\ q2[j] = q[j]
               \/ /\ Len(q) < j /\ j < n
                  /\ q2[j].type \in {"ALLOW_PLAY_GAME", "DEAL_CARDS"}
                  /\ \E k \in DOMAIN s : q2[j].to = s[k].id
               \/ j = n /\ q2[j].type = "PLAYER_TURN" /\ q2[j].to = rm.host
               \/ j = n + 1 /\ q2[j] = reply
    <3>1. j \in Int
      BY <1>12
    <3>2. CASE j - Len(q) \in DOMAIN a /\ q2[j] = a[j - Len(q)]
      <4>1. Len(q) < j /\ j < n
        BY <1>12, <1>13, <3>1, <3>2
      <4> QED BY <1>2, <3>2, <4>1
    <3>3. CASE j - Len(q) - Len(a) \in DOMAIN b /\ q2[j] = b[j - Len(q) - Len(a)]
      <4>1. Len(q) < j /\ j < n
        BY <1>12, <1>13, <3>1, <3>3
      <4> QED BY <1>3, <3>3, <4>1
    <3> QED BY <1>4, <1>14, <3>2, <3>3
  <2> QED BY <2>1, <2>2 DEF GameStarts
<1>17. PICK x \in Int : x = Len(q)
  <2>1. Len(q) \in Int
    BY <1>12
  <2> QED BY <2>1
<1>18. PICK y \in Int : y = Len(s)
  BY <1>15
<1>19. Len(a) = y /\ n = x + y + y + 1 /\ x >= 0 /\ y >= 0
  BY <1>12, <1>13, <1>15, <1>17, <1>18
<1>20. Deals(q, q2, rm)
  <2>1. ASSUME NEW k \in DOMAIN s
        PROVE  /\ Len(q) + k \in DOMAIN q2 /\ q2[Len(q) + k] = a[k]
               /\ Len(q) + Len(s) + k \in DOMAIN q2 /\ q2[Len(q) + Len(s) + k] = b[k]
    <3>1. Len(q) + k \in DOMAIN q2 /\ Len(q) + Len(s) + k \in DOMAIN q2 /\ k \in Int /\ 1 <= k /\ k <= Len(s)
      BY <1>12, <1>15
    <3>2. q2[Len(q) + k] = a[k]
      <4> DEFINE j == Len(q) + k
      <4>1. /\ j \notin DOMAIN q /\ j # n /\ j # n + 1 /\ j - Len(q) = k
            /\ j - Len(q) - Len(a) \notin DOMAIN b
        BY <1>12, <1>13, <1>15, <3>1
      <4>2. j \in DOMAIN q2
        BY <3>1
      <4> HIDE DEF j
      <4>3. q2[j] = a[k]
        BY <1>14, <4>1, <4>2
      <4> QED BY <4>3 DEF j
    <3>3. q2[Len(q) + Len(s) + k] = b[k]
      <4> DEFINE j == Len(q) + Len(s) + k
      <4>1. /\ j \notin DOMAIN q /\ j # n /\ j # n + 1 /\ j - Len(q) - Len(a) = k
            /\ j - Len(q) \notin DOMAIN a
        <5>1. k \in Int /\ 1 <= k /\ k <= y
          BY <1>18, <3>1
        <5>2. j = x + y + k
          BY <1>17, <1>18
        <5> HIDE DEF j
        <5>3. /\ j \in Int /\ j - x = y + k /\ j - x - y = k /\ j # n /\ j # n + 1
              /\ ~(j <= x) /\ ~(j - x <= y)
          BY <1>19, <5>1, <5>2
        <5>4. j \notin 1 .. x /\ j - x \notin 1 .. y
          BY <5>3
        <5> QED BY <1>12, <1>17, <1>19, <5>3, <5>4
      <4>2. j \in DOMAIN q2
        BY <3>1
      <4> HIDE DEF j
      <4>3. q2[j] = b[k]
        BY <1>14, <4>1, <4>2
      <4> QED BY <4>3 DEF j
    <3> QED BY <3>1, <3>2, <3>3
  <2>2. ASSUME NEW j \in DOMAIN q2, Len(q) < j
        PROVE  /\ q2[j].type = "ALLOW_PLAY_GAME" => \E k \in DOMAIN s : j = Len(q) + k
               /\ q2[j].type = "DEAL_CARDS" => \E k \in DOMAIN s : j = Len(q) + Len(s) + k
               /\ q2[j].type = "PLAYER_TURN" => q2[j].previous = Nobody
    <3>1. j \in Int /\ j \notin DOMAIN q
      BY <1>12, <2>2
    <3>2. CASE j - Len(q) \in DOMAIN a /\ q2[j] = a[j - Len(q)]
      <4>1. j = Len(q) + (j - Len(q)) /\ q2[j].type = "ALLOW_PLAY_GAME" /\ j - Len(q) \in DOMAIN s
        BY <1>2, <1>12, <3>1, <3>2
      <4> QED BY <4>1
    <3>3. CASE j - Len(q) - Len(a) \in DOMAIN b /\ q2[j] = b[j - Len(q) - Len(a)]
      <4>1. j = Len(q) + Len(s) + (j - Len(q) - Len(a)) /\ q2[j].type = "DEAL_CARDS" /\ j - Len(q) - Len(a) \in DOMAIN s
        <5>1. j - Len(q) - Len(a) \in DOMAIN s /\ q2[j].type = "DEAL_CARDS"
          BY <1>3, <3>3
        <5>2. j = x + y + (j - x - y)
          BY <3>1
        <5> QED BY <1>17, <1>18, <1>19, <5>1, <5>2
      <4> QED BY <4>1
    <3>4. CASE q2[j] = t[1] \/ q2[j] = reply
      BY <1>4, <3>4 DEF RoomReplies
    <3> QED BY <1>14, <3>1, <3>2, <3>3, <3>4
  <2> QED BY <1>6, <2>1, <2>2 DEF Deals, TableAt, HandAt
<1> QED BY <1>16, <1>20

\* A player takes a seat; the one that fills the room starts the game.
LEMMA SeatTaken ==
  ASSUME NEW r \in RoomNames, NEW rm \in Room, rm.host \in Users, NEW u \in Users, NEW reply \in GamePacket,
         reply.type \in RoomReplies, g2r \in Seq(GamePacket), EnterRoom(r, rm, u, reply)
  PROVE  \E new : /\ NextSeat(rm, new, u) /\ rooms' = [rooms EXCEPT ![r] = new]
                  /\ \/ ~IsFull(new) /\ g2r' = Append(g2r, reply)
                     \/ /\ IsFull(new) /\ AllHold(new) /\ Deals(g2r, g2r', new)
                        /\ \E n \in Int : GameStarts(g2r, g2r', new, n, reply)
<1> DEFINE seated == [rm EXCEPT !.players = Append(@, NewPlayer(u))]
<1>1. NewPlayer(u) \in Player /\ NewPlayer(u).id = u
  BY NetworkAssumption DEF NewPlayer, Player, Bag, NoCards
<1>2. /\ rm.players \in Seq(Player) /\ Append(rm.players, NewPlayer(u)) \in Seq(Player)
      /\ Len(Append(rm.players, NewPlayer(u))) = Len(rm.players) + 1
      /\ \A k \in 1 .. Len(rm.players) : Append(rm.players, NewPlayer(u))[k] = rm.players[k]
      /\ Append(rm.players, NewPlayer(u))[Len(rm.players) + 1] = NewPlayer(u)
  BY <1>1, AppendProperties DEF Room
<1>3. /\ seated \in Room /\ seated.host = rm.host /\ seated.turn = rm.turn
      /\ seated.players = Append(rm.players, NewPlayer(u))
  BY <1>2 DEF Room
<1>4. \/ ~IsFull(seated) /\ rooms' = [rooms EXCEPT ![r] = seated] /\ g2r' = Append(g2r, reply)
      \/ IsFull(seated) /\ \E p \in Shuffles : /\ rooms' = [rooms EXCEPT ![r] = DealCards(seated, p)]
                             /\ g2r' = g2r \o PlayGame(DealCards(seated, p)) \o <<reply>>
  BY DEF EnterRoom
<1> HIDE DEF seated
<1>5. NextSeat(rm, seated, u)
  <2>1. /\ DOMAIN rm.players = 1 .. Len(rm.players) /\ Len(rm.players) \in Nat
        /\ DOMAIN seated.players = 1 .. Len(seated.players)
    BY <1>2, <1>3, LenProperties
  <2> QED BY <1>1, <1>2, <1>3, <2>1 DEF NextSeat
<1>6. CASE IsFull(seated) /\ \E p \in Shuffles : /\ rooms' = [rooms EXCEPT ![r] = DealCards(seated, p)]
                               /\ g2r' = g2r \o PlayGame(DealCards(seated, p)) \o <<reply>>
  <2>1. PICK p \in Shuffles : /\ rooms' = [rooms EXCEPT ![r] = DealCards(seated, p)]
                              /\ g2r' = g2r \o PlayGame(DealCards(seated, p)) \o <<reply>>
    BY <1>6
  <2> DEFINE dealt == DealCards(seated, p)
  <2>2. dealt \in Room /\ dealt.host = seated.host
    BY <1>3, DealtRoom
  <2>3. /\ dealt.turn = seated.turn /\ Len(dealt.players) = Len(seated.players)
        /\ DOMAIN dealt.players = DOMAIN seated.players
        /\ \A k \in DOMAIN seated.players : /\ dealt.players[k].id = seated.players[k].id
                                            /\ dealt.players[k].hand = HandOf(p, k)
    BY <1>3, DealtSeats
  <2> HIDE DEF dealt
  <2>4. NextSeat(rm, dealt, u)
    BY <1>5, <2>2, <2>3 DEF NextSeat
  <2>5. IsFull(dealt)
    BY <1>6, <2>3 DEF IsFull
  <2>6. Deals(g2r, g2r', dealt) /\ \E n \in Int : GameStarts(g2r, g2r', dealt, n, reply)
    BY <1>3, <2>1, <2>2, StartedGame DEF dealt
  <2>7. AllHold(dealt)
    <3>1. DOMAIN seated.players = 1 .. MaxPlayers
      BY <1>3, <1>6, LenProperties DEF IsFull, Room
    <3> QED BY <2>3, <3>1, FullHand DEF AllHold
  <2> QED BY <2>1, <2>4, <2>5, <2>6, <2>7 DEF dealt
<1> QED BY <1>4, <1>5, <1>6

\* changeTurn keeps every player in its seat and takes the turn one seat on.
LEMMA PassedSeats ==
  ASSUME NEW r \in RoomNames, rooms[r] \in Room, CanChangeTurn(r)
  PROVE  LET new == ChangeTurn(rooms[r]) IN
         /\ new \in Room /\ new.host = rooms[r].host
         /\ new.turn = (rooms[r].turn + 1) % MaxPlayers /\ new.turn + 1 \in DOMAIN new.players
         /\ DOMAIN new.players = DOMAIN rooms[r].players /\ Len(new.players) = Len(rooms[r].players)
         /\ \A k \in DOMAIN new.players : /\ new.players[k].id = rooms[r].players[k].id
                                          /\ new.players[k].hand = rooms[r].players[k].hand
<1> DEFINE rm == rooms[r]
           s == rm.players
           n == NextTurn(rm)
           changed == [i \in DOMAIN s |-> [s[i] EXCEPT !.isPlayerTurn =
                         i = n + 1 \/ (i # rm.turn + 1 /\ s[i].isPlayerTurn)]]
<1>1. s \in Seq(Player) /\ DOMAIN s = 1 .. Len(s) /\ Len(s) \in Nat
  BY LenProperties DEF Room
<1>2. \A i \in DOMAIN s : s[i] \in Player
  BY <1>1, QueueTypes
<1>3. DOMAIN changed = DOMAIN s /\ \A i \in DOMAIN s : changed[i].id = s[i].id /\ changed[i].hand = s[i].hand
  BY <1>2 DEF Player
<1>4. n = (rm.turn + 1) % MaxPlayers /\ n + 1 \in DOMAIN s
  <2>1. n = (rm.turn + 1) % MaxPlayers
    BY DEF NextTurn
  <2>2. n \in 0 .. Len(s) - 1
    BY DEF CanChangeTurn
  <2> QED BY <1>1, <2>1, <2>2
<1>5. ChangeTurn(rm) = [rm EXCEPT !.turn = n, !.players = changed]
  BY Zenon DEF ChangeTurn
<1> HIDE DEF n, changed
<1>6. rm = [host |-> rm.host, players |-> s, turn |-> rm.turn]
  BY DEF Room
<1>7. ChangeTurn(rm) = [host |-> rm.host, players |-> changed, turn |-> n]
  BY <1>5, <1>6
<1>8. ChangeTurn(rm) \in Room
  BY ChangedRoom DEF CanChangeTurn
<1>9. Len(changed) = Len(s)
  <2>1. changed \in Seq(Player)
    BY <1>7, <1>8 DEF Room
  <2>2. DOMAIN changed = 1 .. Len(changed) /\ Len(changed) \in Nat
    BY <2>1, LenProperties
  <2> QED BY <1>1, <1>3, <2>2, SameLength
<1> QED BY <1>3, <1>4, <1>7, <1>8, <1>9

\* What a step of the game server leaves alone.
LEMMA GameParts ==
  ASSUME DInv, GameStep(HandleGamePacket)
  PROVE  /\ IInv' /\ UNCHANGED <<clientVars, db, relayVars, conn, c2r, r2c, loginQ, l2r>>
         /\ KeysOK' /\ OneLoginEach' /\ AnswersKeyed' /\ ReachesOwn' /\ OwnLogins' /\ NoneLost' /\ AccountsFindable'
         /\ gameQ \in Seq(GameRequest) /\ g2r \in Seq(GamePacket) /\ GameTypeOK /\ HostsKnown
         /\ gameQ # <<>> /\ gameQ' = Tail(gameQ) /\ Head(gameQ) = gameQ[1] /\ 1 \in DOMAIN gameQ
         /\ \A j \in DOMAIN gameQ' : j + 1 \in DOMAIN gameQ /\ gameQ'[j] = gameQ[j + 1]
         /\ \A j \in DOMAIN gameQ' : j \in Int /\ 1 <= j
<1>1. IInv'
  BY NextIInv DEF DInv, Next
<1>2. UNCHANGED <<clientVars, db, relayVars, conn, c2r, r2c, loginQ, l2r>>
  BY DEF GameStep, HandleGamePacket, HandleHostRoom, HandleEnterRoom, HandleTurnOver
<1>3. UNCHANGED <<conn, cid, me, main, io, c2r, relayQ, loginQ, l2r, rekey, r2c, now, failing, relayUp, clients>>
  BY <1>2 DEF clientVars, relayVars
<1>4. KeysOK' /\ AnswersKeyed' /\ ReachesOwn' /\ OwnLogins' /\ NoneLost' /\ AccountsFindable'
  <2>1. gameUp
    BY DEF GameStep, HandleGamePacket, HandleHostRoom, HandleEnterRoom, HandleTurnOver, PopGame
  <2>2. NoneLost'
    BY <1>3, <2>1 DEF DInv, NoneLost, SomeGone, Gone, Rekeyed
  <2> QED BY <1>3, <2>2, DFrame DEF DInv
<1>5. OneLoginEach'
  BY <1>3 DEF DInv, OneLoginEach, LoginAt
<1>6. gameQ # <<>> /\ gameQ' = Tail(gameQ)
  BY DEF GameStep, HandleGamePacket, HandleHostRoom, HandleEnterRoom, HandleTurnOver, PopGame
<1>7. gameQ \in Seq(GameRequest) /\ g2r \in Seq(GamePacket) /\ GameTypeOK /\ HostsKnown
  BY DEF DInv, IInv, TypeOK, LinksTypeOK, PagesInv
<1>8. /\ Head(gameQ) = gameQ[1] /\ 1 \in DOMAIN gameQ
      /\ \A j \in DOMAIN gameQ' : j + 1 \in DOMAIN gameQ /\ gameQ'[j] = gameQ[j + 1]
      /\ \A j \in DOMAIN gameQ' : j \in Int /\ 1 <= j
  <2>1. gameQ' \in Seq(GameRequest)
    BY <1>6, <1>7, QueueTypes
  <2> QED BY <1>6, <1>7, <2>1, QueuePositions
<1> QED BY <1>1, <1>2, <1>4, <1>5, <1>6, <1>7, <1>8

\* What the handlers of the game server do with request m: room rm, perhaps a
\* new one, becomes room new and reply p goes out; or the request is refused;
\* or the turn of the room passes on; or the process ends.
RoomRefused(m) ==
  /\ UNCHANGED <<rooms, gameUp>>
  /\ \E p \in GamePacket : /\ p.type \in {"REJECT_HOST_ROOM", "REJECT_ENTER_ROOM"} /\ p.to = m.id
                           /\ g2r' = Append(g2r, p)
RoomEntered(m, rm, new, p) ==
  /\ UNCHANGED gameUp
  /\ rm \in Room /\ rm.host \in Users /\ ~IsFull(rm)
  /\ \/ /\ rooms[m.room].players = <<>> /\ rm.players = <<>> /\ rm.host = m.id /\ rm.turn = 0
        /\ p.type = "ALLOW_HOST_ROOM"
     \/ /\ rm = rooms[m.room] /\ rm.players # <<>>
        /\ p.type = "ALLOW_ENTER_ROOM"
  /\ NextSeat(rm, new, m.id)
  /\ rooms' = [rooms EXCEPT ![m.room] = new]
  /\ p \in GamePacket /\ p.to = m.id
  /\ \/ ~IsFull(new) /\ g2r' = Append(g2r, p)
     \/ /\ IsFull(new) /\ AllHold(new) /\ Deals(g2r, g2r', new)
        /\ \E n \in Int : GameStarts(g2r, g2r', new, n, p)
TurnPassed(m) ==
  LET rm == ChangeTurn(rooms[m.room])
      p == [type |-> "PLAYER_TURN", to |-> rm.players[rm.turn + 1].id,
            previous |-> m.id, discarded |-> m.discarded]
  IN /\ CanChangeTurn(m.room) /\ m.room \in RoomNames
     /\ UNCHANGED gameUp
     /\ rooms' = [rooms EXCEPT ![m.room] = rm]
     /\ g2r' = Append(g2r, p) /\ p \in GamePacket
TurnFatal(m) ==
  /\ ~CanChangeTurn(m.room) /\ gameUp' = FALSE
  /\ UNCHANGED <<rooms, g2r>>

LEMMA GameEffects ==
  ASSUME DInv, GameStep(HandleGamePacket)
  PROVE  LET m == Head(gameQ) IN
         \/ /\ m.type \in RoomRequests /\ m.room \in RoomNames
            /\ RoomRefused(m) \/ \E rm, new, p : RoomEntered(m, rm, new, p)
         \/ /\ m.type = "PlAYER_TURN_OVER"
            /\ TurnPassed(m) \/ TurnFatal(m)
<1> DEFINE m == Head(gameQ)
<1>1. m \in GameRequest
  BY GameParts, QueueTypes
<1>2. g2r \in Seq(GamePacket) /\ GameTypeOK /\ HostsKnown
  BY GameParts
<1>3. m.id \in Users /\ (m.type \in RoomRequests => m.room \in RoomNames)
  BY <1>1, GameRequestKinds
<1>4. \A type \in RoomReplies : Reply(type, m.id) \in GamePacket /\ Reply(type, m.id).to = m.id
                                /\ Reply(type, m.id).type = type
  BY <1>3 DEF Reply, GamePacket
<1>5. CASE HandleHostRoom
  <2>1. m.type \in RoomRequests /\ m.room \in RoomNames /\ UNCHANGED gameUp
    BY <1>3, <1>5 DEF HandleHostRoom, PopGame, RoomRequests
  <2>2. CASE g2r' = Append(g2r, Reply("REJECT_HOST_ROOM", m.id)) /\ UNCHANGED rooms
    BY <1>4, <2>1, <2>2 DEF RoomRefused, RoomReplies
  <2>3. CASE ~Exists(m.room) /\ EnterRoom(m.room, NewRoom(m.id), m.id, Reply("ALLOW_HOST_ROOM", m.id))
    <3>1. PICK rm : rm = NewRoom(m.id)
      OBVIOUS
    <3>2. PICK p \in GamePacket : p = Reply("ALLOW_HOST_ROOM", m.id) /\ p.to = m.id /\ p.type = "ALLOW_HOST_ROOM"
      BY <1>4 DEF RoomReplies
    <3>3. rm \in Room /\ rm.host = m.id /\ rm.players = <<>> /\ rm.turn = 0
      BY <1>3, <3>1, GameAssumption, EmptySeq DEF NewRoom, Room
    <3>4. ~IsFull(rm)
      BY <3>3, GameAssumption, EmptySeq DEF IsFull
    <3>5. rooms[m.room].players = <<>>
      BY <2>1, <2>3, NetworkAssumption DEF Exists
    <3>6. PICK new : /\ NextSeat(rm, new, m.id) /\ rooms' = [rooms EXCEPT ![m.room] = new]
                     /\ \/ ~IsFull(new) /\ g2r' = Append(g2r, p)
                        \/ /\ IsFull(new) /\ AllHold(new) /\ Deals(g2r, g2r', new)
                           /\ \E n \in Int : GameStarts(g2r, g2r', new, n, p)
      BY <1>2, <1>3, <2>1, <2>3, <3>1, <3>2, <3>3, SeatTaken DEF RoomReplies
    <3>7. RoomEntered(m, rm, new, p)
      BY <1>3, <2>1, <3>2, <3>3, <3>4, <3>5, <3>6 DEF RoomEntered
    <3> QED BY <2>1, <3>7
  <2> QED BY <1>5, <2>2, <2>3 DEF HandleHostRoom
<1>6. CASE HandleEnterRoom
  <2>1. m.type \in RoomRequests /\ m.room \in RoomNames /\ UNCHANGED gameUp
    BY <1>3, <1>6 DEF HandleEnterRoom, PopGame, RoomRequests
  <2>2. CASE g2r' = Append(g2r, Reply("REJECT_ENTER_ROOM", m.id)) /\ UNCHANGED rooms
    BY <1>4, <2>1, <2>2 DEF RoomRefused, RoomReplies
  <2>3. CASE /\ Exists(m.room) /\ ~IsFull(rooms[m.room])
             /\ EnterRoom(m.room, rooms[m.room], m.id, Reply("ALLOW_ENTER_ROOM", m.id))
    <3>1. PICK rm : rm = rooms[m.room]
      OBVIOUS
    <3>2. PICK p \in GamePacket : p = Reply("ALLOW_ENTER_ROOM", m.id) /\ p.to = m.id /\ p.type = "ALLOW_ENTER_ROOM"
      BY <1>4 DEF RoomReplies
    <3>3. rm \in Room /\ rm.host \in Users /\ rm.players # <<>>
      BY <1>2, <2>1, <2>3, <3>1 DEF Exists, HostsKnown, GameTypeOK
    <3>4. PICK new : /\ NextSeat(rm, new, m.id) /\ rooms' = [rooms EXCEPT ![m.room] = new]
                     /\ \/ ~IsFull(new) /\ g2r' = Append(g2r, p)
                        \/ /\ IsFull(new) /\ AllHold(new) /\ Deals(g2r, g2r', new)
                           /\ \E n \in Int : GameStarts(g2r, g2r', new, n, p)
      BY <1>2, <1>3, <2>1, <2>3, <3>1, <3>2, <3>3, SeatTaken DEF RoomReplies
    <3>5. RoomEntered(m, rm, new, p)
      BY <2>1, <2>3, <3>1, <3>2, <3>3, <3>4 DEF RoomEntered
    <3> QED BY <2>1, <3>5
  <2> QED BY <1>6, <2>2, <2>3 DEF HandleEnterRoom
<1>7. CASE HandleTurnOver
  <2>1. m.type = "PlAYER_TURN_OVER" /\ m.discarded \in Nat /\ m.room \in RoomNames \cup {Nobody}
    BY <1>1, <1>7, GameRequestKinds DEF HandleTurnOver, PopGame
  <2>2. CASE ~CanChangeTurn(m.room)
    BY <1>7, <2>1, <2>2 DEF HandleTurnOver, TurnFatal
  <2>3. CASE CanChangeTurn(m.room)
    <3> DEFINE rm == ChangeTurn(rooms[m.room])
               p == [type |-> "PLAYER_TURN", to |-> rm.players[rm.turn + 1].id,
                     previous |-> m.id, discarded |-> m.discarded]
    <3>1. m.room \in RoomNames /\ rooms[m.room] \in Room
      BY <1>2, <2>1, <2>3 DEF CanChangeTurn, Exists, GameTypeOK
    <3>2. rm.players[rm.turn + 1].id \in Users
      BY <2>3, <3>1, ChangedRoom DEF CanChangeTurn
    <3>3. p \in GamePacket
      BY <1>3, <2>1, <3>2 DEF GamePacket
    <3>4. UNCHANGED gameUp /\ rooms' = [rooms EXCEPT ![m.room] = rm] /\ g2r' = Append(g2r, p)
      BY <1>7, <2>3 DEF HandleTurnOver
    <3> QED BY <2>1, <2>3, <3>1, <3>3, <3>4 DEF TurnPassed
  <2> QED BY <2>2, <2>3
<1> QED BY <1>5, <1>6, <1>7 DEF GameStep, HandleGamePacket

LEMMA GameServerDelivers ==
  ASSUME DInv, GameStep(HandleGamePacket)
  PROVE  DInv'
<1> DEFINE m == Head(gameQ)
<1>1. UNCHANGED <<cid, me, c2r, relayQ>>
  BY GameParts DEF clientVars, relayVars
<1>2. RequestsSigned'
  BY <1>1, GameParts DEF DInv, RequestsSigned, IsAccount
<1>3. /\ IsAccount(m.id) /\ g2r \in Seq(GamePacket) /\ rooms \in [RoomNames -> Room]
      /\ \A j \in DOMAIN g2r : IsAccount(g2r[j].to)
      /\ \A r \in RoomNames :
           /\ rooms[r].players # <<>> => IsAccount(rooms[r].host)
           /\ \A k \in DOMAIN rooms[r].players : IsAccount(rooms[r].players[k].id)
  BY GameParts DEF DInv, RequestsSigned, PlayersKnown, GameTypeOK
<1> HIDE DEF m
<1>4. ASSUME \A r \in RoomNames :
               /\ rooms'[r].players # <<>> => IsAccount(rooms'[r].host)
               /\ \A k \in DOMAIN rooms'[r].players : IsAccount(rooms'[r].players[k].id),
             \A j \in DOMAIN g2r' : IsAccount(g2r'[j].to)
      PROVE  DInv'
  <2>1. PlayersKnown'
    BY <1>1, <1>4 DEF DInv, PlayersKnown, IsAccount
  <2> QED BY <1>2, <2>1, GameParts DEF DInv
<1>5. CASE RoomRefused(m)
  <2>1. \A j \in DOMAIN g2r' : IsAccount(g2r'[j].to)
    BY <1>3, <1>5, QueueElements DEF RoomRefused
  <2> QED BY <1>3, <1>4, <1>5, <2>1 DEF RoomRefused
<1>6. ASSUME m.room \in RoomNames, NEW rm, NEW new, NEW p, RoomEntered(m, rm, new, p) PROVE DInv'
  <2>1. \A k \in DOMAIN new.players : IsAccount(new.players[k].id)
    <3>1. \A k \in DOMAIN rm.players : IsAccount(rm.players[k].id)
      BY <1>3, <1>6 DEF RoomEntered
    <3>2. \A k \in DOMAIN new.players : k \in DOMAIN rm.players \/ k = Len(rm.players) + 1
      BY <1>6 DEF RoomEntered, NextSeat
    <3> QED BY <1>3, <1>6, <3>1, <3>2 DEF RoomEntered, NextSeat
  <2>2. IsAccount(new.host)
    BY <1>3, <1>6 DEF RoomEntered, NextSeat
  <2>3. \A r \in RoomNames :
          /\ rooms'[r].players # <<>> => IsAccount(rooms'[r].host)
          /\ \A k \in DOMAIN rooms'[r].players : IsAccount(rooms'[r].players[k].id)
    BY <1>3, <1>6, <2>1, <2>2 DEF RoomEntered
  <2>4. \A j \in DOMAIN g2r' : IsAccount(g2r'[j].to)
    <3>1. p \in GamePacket /\ p.to = m.id
      BY <1>6 DEF RoomEntered
    <3>2. CASE g2r' = Append(g2r, p)
      BY <1>3, <3>1, <3>2, QueueElements
    <3>3. ASSUME NEW n, GameStarts(g2r, g2r', new, n, p) PROVE \A j \in DOMAIN g2r' : IsAccount(g2r'[j].to)
      BY <1>3, <2>1, <2>2, <3>1, <3>3 DEF GameStarts
    <3> QED BY <1>6, <3>2, <3>3 DEF RoomEntered
  <2> QED BY <1>4, <2>3, <2>4
<1>7. CASE TurnPassed(m)
  <2> DEFINE rm == ChangeTurn(rooms[m.room])
             p == [type |-> "PLAYER_TURN", to |-> rm.players[rm.turn + 1].id,
                   previous |-> m.id, discarded |-> m.discarded]
  <2>1. /\ CanChangeTurn(m.room) /\ m.room \in RoomNames /\ rooms[m.room] \in Room
        /\ rooms' = [rooms EXCEPT ![m.room] = rm] /\ g2r' = Append(g2r, p) /\ p \in GamePacket
    BY <1>3, <1>7 DEF TurnPassed
  <2>2. /\ rm.host = rooms[m.room].host /\ DOMAIN rm.players = DOMAIN rooms[m.room].players
        /\ \A k \in DOMAIN rm.players : rm.players[k].id = rooms[m.room].players[k].id
        /\ rm.turn + 1 \in DOMAIN rm.players
    BY <2>1, PassedSeats
  <2>3. rooms[m.room].players # <<>>
    BY <2>1 DEF CanChangeTurn, Exists
  <2> HIDE DEF rm
  <2>4. \A r \in RoomNames :
          /\ rooms'[r].players # <<>> => IsAccount(rooms'[r].host)
          /\ \A k \in DOMAIN rooms'[r].players : IsAccount(rooms'[r].players[k].id)
    BY <1>3, <2>1, <2>2, <2>3
  <2>5. IsAccount(p.to)
    BY <1>3, <2>1, <2>2
  <2> HIDE DEF p
  <2>6. \A j \in DOMAIN g2r' : IsAccount(g2r'[j].to)
    BY <1>3, <2>1, <2>5, QueueElements
  <2> QED BY <1>4, <2>4, <2>6
<1>8. CASE TurnFatal(m)
  BY <1>3, <1>4, <1>8 DEF TurnFatal
<1> QED BY <1>5, <1>6, <1>7, <1>8, GameEffects DEF m

(***************************************************************************)
(* The relay.                                                              *)
(***************************************************************************)

\* The facts that the cases of a step of the relay start from: types...
LEMMA RelayTypes ==
  ASSUME DInv
  PROVE  /\ conn \in [Conns -> ConnStates]
         /\ c2r \in [Conns -> Seq(ClientPacket)] /\ r2c \in [Conns -> Seq(PacketToClient)]
         /\ loginQ \in Seq(StampedRequest) /\ l2r \in Seq(LoginReply)
         /\ gameQ \in Seq(GameRequest) /\ g2r \in Seq(GamePacket) /\ relayQ \in Seq(RelayPacket)
         /\ clients \in [Ids -> Conns \cup {Nobody}] /\ cid \in [Conns -> Ids \cup {Nobody}]
         /\ now \in 0 .. MaxMillis /\ rekey \in Rekeying \cup {Nobody}
         /\ failing \subseteq Conns /\ relayUp \in BOOLEAN
BY DEF DInv, IInv, TypeOK, LinksTypeOK, RelayTypeOK

\* ...what an id can be...
LEMMA IdKinds ==
  /\ Nobody \notin Conns \cup Ids \cup Users \cup Keys
  /\ Ids = Users \cup Keys /\ Users \cap Keys = {}
BY NetworkAssumption DEF Ids, Keys

\* ...connections before and after their accept, and the players logged in on them...
LEMMA ConnFacts ==
  ASSUME DInv, NEW c \in Conns
  PROVE  /\ cid[c] \in Ids \cup {Nobody}
         /\ cid[c] = Nobody <=> conn[c] \in {"none", "pending"}
         /\ cid[c] = Nobody => r2c[c] = <<>> /\ io[c] = "idle"
         /\ me[c] # Nobody => me[c].id = cid[c] /\ cid[c] \in Users
         /\ \A j \in DOMAIN c2r[c] : c2r[c][j] \in ClientPacket
         /\ \A j \in DOMAIN c2r[c] : c2r[c][j].type \in GameRequests => cid[c] \in Users
         /\ rekey # Nobody => rekey.c \in Conns /\ rekey.id \in Users /\ cid[rekey.c] = rekey.id
<1>1. cid[c] \in Ids \cup {Nobody} /\ rekey \in Rekeying \cup {Nobody} /\ c2r[c] \in Seq(ClientPacket)
  BY RelayTypes
<1>2. (cid[c] = Nobody <=> conn[c] \in {"none", "pending"}) /\ (cid[c] = Nobody => r2c[c] = <<>> /\ io[c] = "idle")
  BY DEF DInv, IInv, RoutingInv, ConnectionsOK, Unaccepted
<1>3. ASSUME me[c] # Nobody PROVE me[c].id = cid[c] /\ cid[c] \in Users
  <2>1. me[c] \in Me
    BY <1>3 DEF DInv, IInv, TypeOK, ClientTypeOK
  <2> QED BY <1>3, <2>1 DEF DInv, RequestsSigned, Me
<1>4. \A j \in DOMAIN c2r[c] : c2r[c][j] \in ClientPacket
  BY <1>1, QueueTypes
<1>5. \A j \in DOMAIN c2r[c] : c2r[c][j].type \in GameRequests => cid[c] \in Users
  BY <1>4, ClientPacketKinds, GameRequestKinds DEF DInv, RequestsSigned
<1>6. rekey # Nobody => rekey.c \in Conns /\ rekey.id \in Users /\ cid[rekey.c] = rekey.id
  BY <1>1 DEF Rekeying, DInv, IInv, RoutingInv, RekeyOK
<1> QED BY <1>1, <1>2, <1>3, <1>4, <1>5, <1>6

\* ...what the map says...
LEMMA MapFacts ==
  ASSUME DInv, NEW i \in Ids, clients[i] # Nobody
  PROVE  clients[i] \in Conns /\ cid[clients[i]] = i
BY RelayTypes DEF DInv, IInv, RoutingInv, MapConsistent

\* ...and the packets in the queue.
LEMMA QueuedFacts ==
  ASSUME DInv, NEW j \in DOMAIN relayQ
  PROVE  /\ relayQ[j] \in RelayPacket
         /\ relayQ[j].from \in Conns => cid[relayQ[j].from] # Nobody
         /\ relayQ[j].pb.type \in LoginRequests \cup GameRequests => relayQ[j].from \in Conns
         /\ relayQ[j].pb.type \in LoginReplies \cup GameReplies => relayQ[j].pb \in ServerPacket
<1>1. relayQ[j] \in RelayPacket
  BY RelayTypes, QueueTypes
<1>2. relayQ[j].from \in Conns => cid[relayQ[j].from] # Nobody
  BY IdKinds DEF DInv, IInv, RoutingInv, SendersKnown
<1> QED BY <1>1, <1>2, RelayPacketKinds

\* A new connection gets a key that no other has and no packet bears.
LEMMA AcceptDelivers ==
  ASSUME OwnMillis, DInv, NEW c \in Conns, RelayStep(Accept(c))
  PROVE  DInv'
<1>1. IInv'
  BY NextIInv DEF DInv, Next
<1>2. PICK t \in NextMillis :
        /\ now' = t /\ clients' = [clients EXCEPT ![t] = c] /\ cid' = [cid EXCEPT ![c] = t]
  BY DEF RelayStep, Accept, AddClient
<1>3. /\ conn[c] = "pending" /\ conn' = [conn EXCEPT ![c] = "up"]
      /\ UNCHANGED <<main, io, me, rooms, gameUp, relayQ, rekey, failing, relayUp, c2r, r2c, loginQ, l2r, gameQ, g2r>>
  BY DEF RelayStep, Accept, clientVars, gameVars
<1>4. t = now + 1 /\ t \in Keys /\ t \notin Users /\ t \in Ids
  BY IdKinds DEF NextMillis, OwnMillis, Keys
<1>5. cid[c] = Nobody /\ r2c[c] = <<>> /\ me[c] = Nobody
  BY <1>3, ConnFacts, IdKinds
<1>6. \A d \in Conns : cid[d] # t
  BY <1>4, RelayTypes DEF DInv, KeysOK
<1>7. cid'[c] = t /\ \A d \in Conns \ {c} : cid'[d] = cid[d]
  BY <1>2, RelayTypes
<1>8. \A d \in Conns : Gone(d)' <=> Gone(d)
  BY <1>3, RelayTypes DEF Gone
<1>9. KeysOK'
  <2>1. \A d \in Conns : cid[d] \in Keys => cid[d] <= now /\ cid[d] \in Int
    BY DEF DInv, KeysOK, Keys
  <2>2. \A d \in Conns : cid'[d] \in Keys => cid'[d] <= now'
    BY <1>2, <1>4, <1>7, <2>1, RelayTypes
  <2>3. \A d, e \in Conns : cid'[d] \in Keys /\ cid'[e] = cid'[d] => e = d
    BY <1>4, <1>6, <1>7 DEF DInv, KeysOK
  <2> QED BY <2>2, <2>3 DEF KeysOK
<1>10. \A k : IsKey(k) => k # t /\ IsKey(k)'
  BY <1>5, <1>6, <1>7, IdKinds DEF IsKey
<1>11. AnswersKeyed'
  BY <1>3, <1>10 DEF DInv, AnswersKeyed
<1>12. ReachesOwn'
  BY <1>3, <1>5, <1>7 DEF DInv, ReachesOwn
<1>13. \A u : IsAccount(u) => IsAccount(u)'
  BY <1>5, <1>7, IdKinds DEF IsAccount
<1>14. RequestsSigned'
  <2>1. \A j \in DOMAIN c2r[c] : c2r[c][j].type \notin GameRequests
    BY <1>5, ConnFacts, IdKinds
  <2>2. \A j \in DOMAIN relayQ : relayQ[j].pb.type \in GameRequests => relayQ[j].from \in Conns \ {c}
    BY <1>5, QueuedFacts
  <2> QED BY <1>3, <1>5, <1>7, <1>13, <2>1, <2>2 DEF DInv, RequestsSigned
<1>15. PlayersKnown'
  BY <1>3, <1>13 DEF DInv, PlayersKnown
<1>16. /\ \A j \in DOMAIN loginQ : loginQ[j].key # t
       /\ \A j \in DOMAIN l2r : l2r[j].to # t
       /\ \A j \in DOMAIN relayQ : relayQ[j].pb.type \in LoginReplies => relayQ[j].pb.to # t
  BY <1>10 DEF DInv, AnswersKeyed
<1>17. OwnLogins'
  BY <1>3, <1>4, <1>7, <1>16 DEF DInv, OwnLogins
<1>18. NoneLost'
  <2>1. SomeGone' <=> SomeGone
    BY <1>8 DEF SomeGone
  <2>2. ASSUME NEW d \in Conns, ~SomeGone', cid'[d] # Nobody, ~Rekeyed(d)' PROVE clients'[cid'[d]] # Nobody
    <3>1. CASE d = c
      BY <1>2, <1>4, <1>7, <3>1, RelayTypes, IdKinds
    <3>2. CASE d # c
      BY <1>2, <1>3, <1>6, <1>7, <2>1, <2>2, <3>2, RelayTypes DEF DInv, NoneLost, Rekeyed
    <3> QED BY <3>1, <3>2
  <2> QED BY <1>3, <1>8, <2>1, <2>2, RelayTypes DEF DInv, NoneLost
<1>19. AccountsFindable'
  <2>1. SharedAccount => SharedAccount'
    BY <1>5, <1>7, IdKinds DEF SharedAccount
  <2>2. \A d \in Conns : cid'[d] \in Users => d # c /\ cid[d] = cid'[d] /\ clients'[cid[d]] = clients[cid[d]]
    BY <1>2, <1>4, <1>7, IdKinds, RelayTypes
  <2>3. \A d \in Conns \ {c} : conn'[d] = conn[d]
    BY <1>3, RelayTypes
  <2> QED BY <1>3, <2>1, <2>2, <2>3 DEF DInv, AccountsFindable, Rekeyed
<1>20. OneLoginEach'
  <2> SUFFICES ASSUME NEW d \in Conns PROVE \E at \in LoginStages, i \in Int : LoginAt(d, at, i)'
    BY DEF OneLoginEach
  <2>1. PICK at \in LoginStages, i \in Int : LoginAt(d, at, i)
    BY DEF DInv, OneLoginEach
  <2>2. CASE d = c
    <3>1. LoginAt(c, at, i)'
      BY <1>3, <1>4, <1>5, <1>7, <1>16, <2>1, <2>2, IdKinds DEF LoginAt
    <3> QED BY <2>2, <3>1
  <2>3. CASE d # c
    <3>1. conn'[d] = conn[d] /\ cid'[d] = cid[d]
      BY <1>3, <1>7, <2>3
    <3>2. LoginAt(d, at, i)'
      BY <1>3, <2>1, <3>1 DEF LoginAt
    <3> QED BY <3>2
  <2> QED BY <2>2, <2>3
<1> QED BY <1>1, <1>9, <1>11, <1>12, <1>14, <1>15, <1>17, <1>18, <1>19, <1>20 DEF DInv

\* The packet the handler pops, and where the others of the queue are then.
LEMMA RelayPopped ==
  ASSUME DInv, NEW types, PopRelay(types)
  PROVE  /\ rekey = Nobody /\ relayUp
         /\ 1 \in DOMAIN relayQ /\ Head(relayQ) = relayQ[1]
         /\ relayQ[1].pb.type \in types
         /\ \A j \in DOMAIN relayQ' : j \in Int /\ 1 <= j /\ j + 1 \in DOMAIN relayQ /\ relayQ'[j] = relayQ[j + 1]
         /\ \A j \in DOMAIN relayQ : j \in Int
<1>1. relayQ \in Seq(RelayPacket) /\ relayQ # <<>> /\ relayQ' = Tail(relayQ) /\ Head(relayQ).pb.type \in types
  BY RelayTypes DEF PopRelay
<1>2. relayQ' \in Seq(RelayPacket)
  BY <1>1, QueueTypes
<1>3. /\ 1 \in DOMAIN relayQ /\ Head(relayQ) = relayQ[1]
      /\ \A j \in DOMAIN relayQ' : j + 1 \in DOMAIN relayQ /\ relayQ'[j] = relayQ[j + 1]
      /\ \A j \in DOMAIN relayQ : j \in Int
  BY <1>1, QueuePositions
<1>4. \A j \in DOMAIN relayQ' : j \in Int /\ 1 <= j
  BY <1>2, QueuePositions
<1> QED BY <1>1, <1>3, <1>4 DEF PopRelay

\* What is said of the packets in the queue holds of those that stay.
LEMMA RelayShrinks ==
  ASSUME DInv, \A j \in DOMAIN relayQ' : \E k \in DOMAIN relayQ : relayQ'[j] = relayQ[k],
         UNCHANGED <<cid, me, c2r, l2r, rooms, g2r, loginQ, gameQ>>
  PROVE  AnswersKeyed' /\ RequestsSigned' /\ PlayersKnown' /\ OwnLogins'
<1>1. AnswersKeyed'
  BY DEF DInv, AnswersKeyed, IsKey
<1>2. RequestsSigned'
  BY DEF DInv, RequestsSigned, IsAccount
<1>3. PlayersKnown'
  BY DEF DInv, PlayersKnown, IsAccount
<1>4. OwnLogins'
  BY DEF DInv, OwnLogins
<1> QED BY <1>1, <1>2, <1>3, <1>4

LEMMA ForwardToLoginDelivers ==
  ASSUME DInv, RelayStep(ForwardToLogin)
  PROVE  DInv'
<1>1. IInv'
  BY NextIInv DEF DInv, Next, RelayStep, HandleRelayPacket
<1>2. /\ PopRelay(LoginRequests) /\ loginQ' = Append(loginQ, Stamp(Head(relayQ).pb, cid[Head(relayQ).from]))
      /\ UNCHANGED <<main, io, me, rooms, gameUp, clients, cid, now, rekey, failing, relayUp, conn, c2r, r2c, l2r, gameQ, g2r>>
  BY DEF RelayStep, ForwardToLogin, clientVars, gameVars
<1>3. /\ 1 \in DOMAIN relayQ /\ Head(relayQ) = relayQ[1] /\ relayQ[1].pb.type \in LoginRequests
      /\ \A j \in DOMAIN relayQ' : j \in Int /\ 1 <= j /\ j + 1 \in DOMAIN relayQ /\ relayQ'[j] = relayQ[j + 1]
  BY <1>2, RelayPopped
<1>4. PICK c \in Conns : c = relayQ[1].from /\ cid[c] # Nobody /\ relayQ[1].pb \in LoginRequest
  BY <1>3, QueuedFacts, RelayPacketKinds
<1>5. PICK from \in LoginStages, k \in Int : LoginAt(c, from, k)
  BY DEF DInv, OneLoginEach
<1>6. from = "relayQ" /\ k = 1
  BY <1>3, <1>4, <1>5 DEF LoginAt
<1>7. cid[c] \in Keys
  <2>1. cid[c] \notin Users
    BY <1>5, <1>6 DEF LoginAt
  <2> QED BY <1>4, <2>1, ConnFacts, IdKinds
<1>8. PICK m \in StampedRequest :
        /\ m.key = cid[c] /\ m.id = relayQ[1].pb.id /\ m = Stamp(relayQ[1].pb, cid[c])
  BY <1>4, <1>7, IdKinds DEF Stamp, StampedRequest, LoginRequest
<1>9. PICK n \in Int : n = Len(loginQ) + 1
  BY RelayTypes, QueuePositions
<1>10. \A j \in DOMAIN loginQ' : (j \in DOMAIN loginQ /\ loginQ'[j] = loginQ[j]) \/ (j = n /\ loginQ'[j] = m)
  <2>1. loginQ' = Append(loginQ, m)
    BY <1>2, <1>3, <1>4, <1>8
  <2> QED BY <1>8, <1>9, <2>1, RelayTypes, QueuePositions
<1>11. KeysOK' /\ ReachesOwn' /\ NoneLost' /\ AccountsFindable'
  BY <1>2, DFrame DEF DInv
<1>12. AnswersKeyed'
  BY <1>2, <1>3, <1>4, <1>7, <1>8, <1>10 DEF DInv, AnswersKeyed, IsKey
<1>13. RequestsSigned' /\ PlayersKnown'
  BY <1>2, <1>3 DEF DInv, RequestsSigned, PlayersKnown, IsAccount
<1>14. OwnLogins'
  <2>1. relayQ[1].pb.id \in Owns[c]
    BY <1>3, <1>4 DEF DInv, OwnLogins
  <2>2. \A d \in Conns : cid[d] = cid[c] => d = c
    BY <1>4, <1>7 DEF DInv, KeysOK
  <2>3. \A d \in Conns : \A j \in DOMAIN loginQ' : loginQ'[j].key = cid[d] => loginQ'[j].id \in Owns[d]
    BY <1>8, <1>10, <2>1, <2>2 DEF DInv, OwnLogins
  <2> QED BY <1>2, <1>3, <2>3 DEF DInv, OwnLogins
<1>15. OneLoginEach'
  <2> SUFFICES ASSUME NEW d \in Conns PROVE \E at \in LoginStages, i \in Int : LoginAt(d, at, i)'
    BY DEF OneLoginEach
  <2>1. CASE d = c
    <3>1. PICK to \in LoginStages : to = "loginQ"
      BY DEF LoginStages
    <3>2. \A j \in DOMAIN relayQ' : ~(relayQ'[j].pb.type \in LoginRequests /\ relayQ'[j].from = c)
      <4> SUFFICES ASSUME NEW j \in DOMAIN relayQ', relayQ'[j].pb.type \in LoginRequests, relayQ'[j].from = c
                   PROVE  FALSE
        OBVIOUS
      <4>1. j + 1 = 1
        BY <1>3, <1>5, <1>6 DEF LoginAt
      <4> QED BY <1>3, <4>1
    <3>3. \A j \in DOMAIN relayQ' : ~(relayQ'[j].pb.type \in LoginReplies /\ relayQ'[j].pb.to = cid[c])
      BY <1>3, <1>5, <1>6 DEF LoginAt
    <3>4. LoginAt(c, to, n)'
      BY <1>2, <1>5, <1>6, <1>7, <1>10, <3>1, <3>2, <3>3, IdKinds DEF LoginAt
    <3> QED BY <2>1, <3>4
  <2>2. CASE d # c
    <3>1. PICK at \in LoginStages, i \in Int : LoginAt(d, at, i)
      BY DEF DInv, OneLoginEach
    <3> DEFINE l == IF at \in {"relayQ", "reply"} THEN i - 1 ELSE i
    <3>2. cid[d] # cid[c]
      BY <1>4, <1>7, <2>2 DEF DInv, KeysOK
    <3>3. LoginAt(d, at, l)'
      BY <1>2, <1>3, <1>8, <1>10, <3>1, <3>2 DEF LoginAt
    <3>4. l \in Int
      OBVIOUS
    <3> HIDE DEF l
    <3> QED BY <3>3, <3>4
  <2> QED BY <2>1, <2>2
<1> QED BY <1>1, <1>11, <1>12, <1>13, <1>14, <1>15 DEF DInv

LEMMA ForwardToGameDelivers ==
  ASSUME DInv, RelayStep(ForwardToGame)
  PROVE  DInv'
<1>1. IInv'
  BY NextIInv DEF DInv, Next, RelayStep, HandleRelayPacket
<1>2. /\ PopRelay(GameRequests) /\ gameQ' = Append(gameQ, Head(relayQ).pb)
      /\ UNCHANGED <<main, io, me, rooms, gameUp, clients, cid, now, rekey, failing, relayUp, conn, c2r, r2c, loginQ, l2r, g2r>>
  BY DEF RelayStep, ForwardToGame, clientVars, gameVars
<1>3. /\ 1 \in DOMAIN relayQ /\ Head(relayQ) = relayQ[1] /\ relayQ[1].pb.type \in GameRequests
      /\ \A j \in DOMAIN relayQ' : j \in Int /\ 1 <= j /\ j + 1 \in DOMAIN relayQ /\ relayQ'[j] = relayQ[j + 1]
  BY <1>2, RelayPopped
<1>4. KeysOK' /\ ReachesOwn' /\ NoneLost' /\ AccountsFindable'
  BY <1>2, DFrame DEF DInv
<1>5. AnswersKeyed' /\ PlayersKnown' /\ OwnLogins'
  <2>1. AnswersKeyed'
    BY <1>2, <1>3 DEF DInv, AnswersKeyed, IsKey
  <2>2. PlayersKnown'
    BY <1>2, <1>3 DEF DInv, PlayersKnown, IsAccount
  <2>3. OwnLogins'
    BY <1>2, <1>3 DEF DInv, OwnLogins
  <2> QED BY <2>1, <2>2, <2>3
<1>6. RequestsSigned'
  <2>1. PICK m \in GameRequest : m = relayQ[1].pb /\ relayQ[1].from \in Conns
    BY <1>3, QueuedFacts, RelayPacketKinds
  <2>2. IsAccount(m.id)
    BY <1>3, <2>1, GameRequestKinds DEF DInv, RequestsSigned, IsAccount
  <2>3. gameQ' = Append(gameQ, m)
    BY <1>2, <1>3, <2>1
  <2>4. \A j \in DOMAIN gameQ' : gameQ'[j] = m \/ (j \in DOMAIN gameQ /\ gameQ'[j] = gameQ[j])
    BY <2>1, <2>3, RelayTypes, QueueElements
  <2>5. \A j \in DOMAIN gameQ' : IsAccount(gameQ'[j].id)
    BY <2>1, <2>2, <2>4 DEF DInv, RequestsSigned
  <2>6. \A j \in DOMAIN gameQ' : gameQ'[j].id \in Users /\ \E c \in Conns : cid'[c] = gameQ'[j].id
    BY <1>2, <2>5 DEF IsAccount
  <2> QED BY <1>2, <1>3, <2>6 DEF DInv, RequestsSigned, IsAccount
<1>7. OneLoginEach'
  <2> SUFFICES ASSUME NEW d \in Conns PROVE \E at \in LoginStages, i \in Int : LoginAt(d, at, i)'
    BY DEF OneLoginEach
  <2>1. PICK at \in LoginStages, i \in Int : LoginAt(d, at, i)
    BY DEF DInv, OneLoginEach
  <2> DEFINE l == IF at \in {"relayQ", "reply"} THEN i - 1 ELSE i
  <2>2. LoginAt(d, at, l)'
    BY <1>2, <1>3, <2>1 DEF LoginAt
  <2>3. l \in Int
    OBVIOUS
  <2> HIDE DEF l
  <2> QED BY <2>2, <2>3
<1> QED BY <1>1, <1>4, <1>5, <1>6, <1>7 DEF DInv

\* What sendMessage does to the link of an accepted connection.
LEMMA SentTo ==
  ASSUME DInv, NEW c \in Conns, cid[c] # Nobody, NEW p \in PacketToClient, SendTo(c, p)
  PROVE  /\ failing' \subseteq Conns /\ \A d \in failing' : Gone(d)
         /\ \A d \in Conns \ {c} : r2c'[d] = r2c[d]
         /\ \/ /\ conn[c] = "up"
               /\ \A j \in DOMAIN r2c'[c] : \/ j \in DOMAIN r2c[c] /\ r2c'[c][j] = r2c[c][j]
                                            \/ j = Len(r2c[c]) + 1 /\ r2c'[c][j] = p
            \/ UNCHANGED r2c
<1>1. /\ r2c \in [Conns -> Seq(PacketToClient)] /\ failing \subseteq Conns /\ conn \in [Conns -> ConnStates]
      /\ conn[c] \notin {"none", "pending"}
  BY RelayTypes, ConnFacts
<1>2. \A d \in failing : Gone(d)
  BY DEF DInv, NoneLost
<1>3. CASE conn[c] = "up" /\ r2c' = [r2c EXCEPT ![c] = Append(@, p)] /\ UNCHANGED failing
  BY <1>1, <1>2, <1>3, QueuePositions
<1>4. CASE /\ conn[c] # "up"
           /\ failing' \in {failing, IF conn[c] = "closed" THEN failing ELSE failing \cup {c}}
           /\ UNCHANGED r2c
  <2>1. Gone(c)
    BY <1>1, <1>4 DEF Gone, ConnStates
  <2> QED BY <1>1, <1>2, <1>4, <2>1
<1> QED BY <1>3, <1>4 DEF SendTo

\* The relay has a reply for somebody.
LEMMA ReplyFacts ==
  ASSUME DInv, 1 \in DOMAIN relayQ, relayQ[1].pb.type \in LoginReplies \cup GameReplies
  PROVE  /\ relayQ[1].pb \in ServerPacket /\ relayQ[1].pb.to \in Ids
         /\ \E c \in Conns : cid[c] = relayQ[1].pb.to
         /\ relayQ[1].pb.type \in LoginReplies => relayQ[1].pb.to \in Keys
<1>1. relayQ[1].pb \in ServerPacket /\ relayQ[1].pb.to \in Ids
  BY QueuedFacts, ServerPacketKinds
<1>2. relayQ[1].pb.type \in LoginReplies => IsKey(relayQ[1].pb.to)
  BY DEF DInv, AnswersKeyed
<1>3. relayQ[1].pb.type \in GameReplies => IsAccount(relayQ[1].pb.to)
  BY DEF DInv, PlayersKnown
<1> QED BY <1>1, <1>2, <1>3 DEF IsKey, IsAccount

\* A connection that is not found any more belongs to somebody who is gone.
LEMMA LostReply ==
  ASSUME DInv, NEW types, PopRelay(types), types \subseteq LoginReplies \cup GameReplies,
         clients[relayQ[1].pb.to] = Nobody
  PROVE  SomeGone
<1>1. rekey = Nobody /\ 1 \in DOMAIN relayQ /\ relayQ[1].pb.type \in types
  BY RelayPopped
<1>2. PICK c \in Conns : cid[c] = relayQ[1].pb.to /\ cid[c] \in Ids
  BY <1>1, ReplyFacts
<1> QED BY <1>1, <1>2, IdKinds DEF DInv, NoneLost, Rekeyed

\* A reply leaves the queue: what else is under way stays where it is, and a
\* login that ends here is nowhere from now on.
LEMMA ReplyTaken ==
  ASSUME DInv, NEW types, PopRelay(types), types \subseteq LoginReplies \cup GameReplies,
         UNCHANGED <<main, io, me, cid, conn, c2r, loginQ, l2r>>,
         rekey' = Nobody,
         NEW d \in Conns,
         \A j \in DOMAIN r2c'[d] : \/ j \in DOMAIN r2c[d] /\ r2c'[d][j] = r2c[d][j]
                                   \/ r2c'[d][j].type \notin LoginReplies
  PROVE  \E at \in LoginStages, i \in Int : LoginAt(d, at, i)'
<1>1. /\ 1 \in DOMAIN relayQ /\ relayQ[1].pb.type \in types
      /\ \A j \in DOMAIN relayQ' : j \in Int /\ 1 <= j /\ j + 1 \in DOMAIN relayQ /\ relayQ'[j] = relayQ[j + 1]
  BY RelayPopped
<1>2. PICK at \in LoginStages, i \in Int : LoginAt(d, at, i)
  BY DEF DInv, OneLoginEach
<1>3. CASE relayQ[1].pb.type \in LoginReplies /\ relayQ[1].pb.to = cid[d]
  <2>1. at = "reply" /\ i = 1
    BY <1>1, <1>2, <1>3 DEF LoginAt
  <2>2. \A j \in DOMAIN relayQ' : ~(relayQ'[j].pb.type \in LoginReplies /\ relayQ'[j].pb.to = cid[d])
    <3> SUFFICES ASSUME NEW j \in DOMAIN relayQ', relayQ'[j].pb.type \in LoginReplies, relayQ'[j].pb.to = cid[d]
                 PROVE  FALSE
      OBVIOUS
    <3>1. j + 1 = 1
      BY <1>1, <1>2, <2>1 DEF LoginAt
    <3> QED BY <1>1, <3>1
  <2>3. PICK to \in LoginStages : to = "none"
    BY DEF LoginStages
  <2>4. LoginAt(d, to, i)'
    BY <1>1, <1>2, <2>1, <2>2, <2>3 DEF LoginAt
  <2> QED BY <2>4
<1>4. CASE ~(relayQ[1].pb.type \in LoginReplies /\ relayQ[1].pb.to = cid[d])
  <2> DEFINE l == IF at \in {"relayQ", "reply"} THEN i - 1 ELSE i
  <2>1. LoginAt(d, at, l)'
    BY <1>1, <1>2, <1>4, TypesDiffer DEF LoginAt
  <2>2. l \in Int
    OBVIOUS
  <2> HIDE DEF l
  <2> QED BY <2>1, <2>2
<1> QED BY <1>3, <1>4

\* The answer to a login, or the rest of ACCEPT_LOG_IN, reaches the link of its client.
LEMMA AnswerSent ==
  ASSUME DInv, NEW d \in Conns, NEW at \in {"reply", "rekey"}, NEW i \in Int, LoginAt(d, at, i),
         UNCHANGED <<main, io, me, cid, conn, c2r, loginQ, l2r>>,
         rekey' = Nobody,
         \A j \in DOMAIN relayQ' : \E k \in DOMAIN relayQ :
           relayQ'[j] = relayQ[k] /\ (at = "reply" => k # i),
         NEW p,
         \A j \in DOMAIN r2c'[d] : \/ j \in DOMAIN r2c[d] /\ r2c'[d][j] = r2c[d][j]
                                   \/ j = Len(r2c[d]) + 1 /\ r2c'[d][j] = p
  PROVE  \E to \in LoginStages, k \in Int : LoginAt(d, to, k)'
<1>1. PICK n \in Int, to \in LoginStages : n = Len(r2c[d]) + 1 /\ to = "r2c"
  BY RelayTypes, QueuePositions DEF LoginStages
<1>2. me[d] = Nobody
  BY DEF LoginAt
<1>3. LoginAt(d, to, n)'
  BY <1>1, <1>2 DEF LoginAt
<1> QED BY <1>3

LEMMA ForwardToClientDelivers ==
  ASSUME DInv, RelayStep(ForwardToClient)
  PROVE  DInv'
<1> DEFINE types == (LoginReplies \ {"ACCEPT_LOG_IN"}) \cup GameReplies
<1>1. IInv'
  BY NextIInv DEF DInv, Next, RelayStep, HandleRelayPacket
<1>2. /\ PopRelay(types)
      /\ \/ /\ clients[Head(relayQ).pb.to] # Nobody /\ SendTo(clients[Head(relayQ).pb.to], Head(relayQ).pb)
            /\ UNCHANGED relayUp
         \/ clients[Head(relayQ).pb.to] = Nobody /\ relayUp' = FALSE /\ UNCHANGED <<failing, r2c>>
      /\ UNCHANGED <<main, io, me, rooms, gameUp, clients, cid, now, rekey, conn, c2r, loginQ, l2r, gameQ, g2r>>
  BY DEF RelayStep, ForwardToClient, clientVars, gameVars
<1>3. /\ rekey = Nobody /\ 1 \in DOMAIN relayQ /\ Head(relayQ) = relayQ[1] /\ relayQ[1].pb.type \in types
      /\ \A j \in DOMAIN relayQ' : j \in Int /\ 1 <= j /\ j + 1 \in DOMAIN relayQ /\ relayQ'[j] = relayQ[j + 1]
  BY <1>2, RelayPopped
<1>4. PICK p \in PacketToClient : p = relayQ[1].pb /\ p.to \in Ids /\ (p.type \in LoginReplies => p.to \in Keys)
  <2>1. types \subseteq LoginReplies \cup GameReplies /\ "ACCEPT_LOG_IN" \notin types
    BY DEF GameReplies, RoomReplies
  <2> QED BY <1>3, <2>1, ReplyFacts, ServerPacketKinds
<1>5. AnswersKeyed' /\ RequestsSigned' /\ PlayersKnown' /\ OwnLogins'
  BY <1>2, <1>3, RelayShrinks
<1>6. KeysOK' /\ AccountsFindable'
  BY <1>2, DFrame DEF DInv
<1>7. SomeGone' <=> SomeGone
  BY <1>2 DEF SomeGone, Gone
<1>8. CASE clients[p.to] = Nobody /\ relayUp' = FALSE /\ UNCHANGED <<failing, r2c>>
  <2>1. SomeGone
    BY <1>2, <1>4, <1>8, LostReply DEF types
  <2>2. NoneLost'
    BY <1>2, <1>7, <1>8, <2>1 DEF DInv, NoneLost, Gone
  <2>3. ReachesOwn'
    BY <1>2, <1>8 DEF DInv, ReachesOwn
  <2>4. OneLoginEach'
    <3> SUFFICES ASSUME NEW d \in Conns PROVE \E at \in LoginStages, i \in Int : LoginAt(d, at, i)'
      BY DEF OneLoginEach
    <3>1. types \subseteq LoginReplies \cup GameReplies
      OBVIOUS
    <3> HIDE DEF types
    <3> QED BY <1>2, <1>3, <1>8, <3>1, ReplyTaken
  <2> QED BY <1>1, <1>5, <1>6, <2>2, <2>3, <2>4 DEF DInv
<1>9. ASSUME clients[p.to] # Nobody, SendTo(clients[p.to], p), UNCHANGED relayUp PROVE DInv'
  <2>1. PICK c \in Conns : c = clients[p.to] /\ cid[c] = p.to /\ cid[c] # Nobody
    BY <1>4, <1>9, MapFacts, IdKinds
  <2>2. /\ failing' \subseteq Conns /\ \A d \in failing' : Gone(d)
        /\ \A d \in Conns \ {c} : r2c'[d] = r2c[d]
        /\ \/ \A j \in DOMAIN r2c'[c] : \/ j \in DOMAIN r2c[c] /\ r2c'[c][j] = r2c[c][j]
                                        \/ j = Len(r2c[c]) + 1 /\ r2c'[c][j] = p
           \/ UNCHANGED r2c
    BY <1>9, <2>1, SentTo
  <2>3. NoneLost'
    BY <1>2, <1>3, <1>7, <1>9, <2>2 DEF DInv, NoneLost, Rekeyed, Gone
  <2>4. ReachesOwn'
    <3> SUFFICES ASSUME NEW d \in Conns, NEW j \in DOMAIN r2c'[d]
                 PROVE  /\ r2c'[d][j].to = cid'[d]
                        /\ r2c'[d][j].type \in LoginReplies \ {"ACCEPT_LOG_IN"} => r2c'[d][j].to \in Keys
      BY DEF ReachesOwn
    <3>1. CASE j \in DOMAIN r2c[d] /\ r2c'[d][j] = r2c[d][j]
      BY <1>2, <3>1 DEF DInv, ReachesOwn
    <3>2. CASE d = c /\ r2c'[d][j] = p
      BY <1>2, <1>4, <2>1, <3>2
    <3> QED BY <2>2, <3>1, <3>2
  <2>5. OneLoginEach'
    <3> SUFFICES ASSUME NEW d \in Conns PROVE \E at \in LoginStages, i \in Int : LoginAt(d, at, i)'
      BY DEF OneLoginEach
    <3>1. types \subseteq LoginReplies \cup GameReplies
      OBVIOUS
    <3> HIDE DEF types
    <3>2. CASE d # c \/ p.type \notin LoginReplies \/ UNCHANGED r2c
      <4>1. \A j \in DOMAIN r2c'[d] : \/ j \in DOMAIN r2c[d] /\ r2c'[d][j] = r2c[d][j]
                                      \/ r2c'[d][j].type \notin LoginReplies
        BY <2>2, <3>2
      <4> QED BY <1>2, <1>3, <3>1, <4>1, ReplyTaken
    <3>3. CASE d = c /\ p.type \in LoginReplies /\ ~UNCHANGED r2c
      <4>1. PICK at \in LoginStages, i \in Int : LoginAt(c, at, i)
        BY DEF DInv, OneLoginEach
      <4>2. at = "reply" /\ i = 1
        BY <1>3, <1>4, <2>1, <3>3, <4>1 DEF LoginAt
      <4>3. \A j \in DOMAIN relayQ' : \E k \in DOMAIN relayQ : relayQ'[j] = relayQ[k] /\ k # i
        BY <1>3, <4>2
      <4> QED BY <1>2, <1>3, <2>2, <3>3, <4>1, <4>2, <4>3, AnswerSent
    <3> QED BY <3>2, <3>3
  <2> QED BY <1>1, <1>5, <1>6, <2>3, <2>4, <2>5 DEF DInv
<1> QED BY <1>2, <1>3, <1>4, <1>8, <1>9

\* A connection is given its account while nothing else is under way for it.
LEMMA BeginRekeyDelivers ==
  ASSUME DInv, RelayStep(BeginRekey)
  PROVE  DInv'
<1> DEFINE types == {"ACCEPT_LOG_IN"}
<1>1. IInv'
  BY NextIInv DEF DInv, Next, RelayStep, HandleRelayPacket
<1>2. PICK p : p = Head(relayQ).pb
  OBVIOUS
<1>3. /\ PopRelay(types) /\ clients' = [clients EXCEPT ![p.to] = Nobody]
      /\ \/ /\ clients[p.to] # Nobody /\ cid' = [cid EXCEPT ![clients[p.to]] = p.id]
            /\ rekey' = [c |-> clients[p.to], id |-> p.id] /\ UNCHANGED relayUp
         \/ clients[p.to] = Nobody /\ relayUp' = FALSE /\ UNCHANGED <<cid, rekey>>
      /\ UNCHANGED <<main, io, me, rooms, gameUp, now, failing, conn, c2r, r2c, loginQ, l2r, gameQ, g2r>>
  BY <1>2 DEF RelayStep, BeginRekey, RemoveClient, clientVars, gameVars, links
<1>4. /\ rekey = Nobody /\ 1 \in DOMAIN relayQ /\ p = relayQ[1].pb /\ p.type = "ACCEPT_LOG_IN"
      /\ \A j \in DOMAIN relayQ' : j \in Int /\ 1 <= j /\ j + 1 \in DOMAIN relayQ /\ relayQ'[j] = relayQ[j + 1]
      /\ \A j \in DOMAIN relayQ : j \in Int
  BY <1>2, <1>3, RelayPopped
<1>5. p \in LoginReply /\ p.to \in Keys /\ p.to \in Ids /\ p.id \in Users /\ p.type \in LoginReplies
  <2>1. p.type \in LoginReplies
    BY <1>4 DEF LoginReplies
  <2>2. p \in LoginReply
    BY <1>4, <2>1, QueuedFacts, ServerPacketKinds
  <2> QED BY <1>4, <2>1, <2>2, ReplyFacts DEF LoginReply
<1>6. types \subseteq LoginReplies \cup GameReplies
  BY DEF LoginReplies
<1> HIDE DEF types
<1>7. SomeGone' <=> SomeGone
  BY <1>3 DEF SomeGone, Gone
<1>8. CASE clients[p.to] = Nobody /\ relayUp' = FALSE /\ UNCHANGED <<cid, rekey>>
  <2>1. UNCHANGED clients
    BY <1>3, <1>5, <1>8, RelayTypes
  <2>2. AnswersKeyed' /\ RequestsSigned' /\ PlayersKnown' /\ OwnLogins'
    BY <1>3, <1>4, <1>8, RelayShrinks
  <2>3. KeysOK' /\ AccountsFindable' /\ ReachesOwn'
    BY <1>3, <1>8, <2>1, DFrame DEF DInv
  <2>4. SomeGone
    BY <1>3, <1>4, <1>6, <1>8, LostReply
  <2>5. NoneLost'
    BY <1>3, <1>7, <2>4 DEF DInv, NoneLost, Gone
  <2>6. OneLoginEach'
    BY <1>3, <1>4, <1>6, <1>8, ReplyTaken DEF OneLoginEach
  <2> QED BY <1>1, <2>2, <2>3, <2>5, <2>6 DEF DInv
<1>9. ASSUME clients[p.to] # Nobody, cid' = [cid EXCEPT ![clients[p.to]] = p.id],
             rekey' = [c |-> clients[p.to], id |-> p.id], UNCHANGED relayUp
      PROVE  DInv'
  <2>1. PICK c \in Conns : c = clients[p.to] /\ cid[c] = p.to
    BY <1>5, <1>9, MapFacts
  <2>2. cid'[c] = p.id /\ \A d \in Conns \ {c} : cid'[d] = cid[d] /\ cid[d] # p.to
    BY <1>5, <1>9, <2>1, RelayTypes DEF DInv, KeysOK
  <2>3. rekey' # Nobody /\ rekey'.c = c
    BY <1>5, <1>9, <2>1, RelayAssumption DEF Rekeying
  <2>4. cid[c] \notin Users /\ me[c] = Nobody /\ p.id \notin Keys
    BY <1>5, <2>1, ConnFacts, IdKinds
  <2>5. PICK at \in LoginStages, i \in Int : LoginAt(c, at, i)
    BY DEF DInv, OneLoginEach
  <2>6. at = "reply" /\ i = 1
    BY <1>4, <1>5, <2>1, <2>5 DEF LoginAt
  <2>7. /\ \A j \in DOMAIN loginQ : loginQ[j].key # p.to
        /\ \A j \in DOMAIN l2r : l2r[j].to # p.to
    BY <2>1, <2>5, <2>6 DEF LoginAt
  <2>8. \A j \in DOMAIN relayQ' : relayQ'[j].pb.type \in LoginReplies => relayQ'[j].pb.to # p.to
    <3> SUFFICES ASSUME NEW j \in DOMAIN relayQ', relayQ'[j].pb.type \in LoginReplies, relayQ'[j].pb.to = p.to
                 PROVE  FALSE
      OBVIOUS
    <3>1. j + 1 = 1
      BY <1>4, <2>1, <2>5, <2>6 DEF LoginAt
    <3> QED BY <1>4, <3>1
  <2>9. r2c[c] = <<>>
    <3> SUFFICES ASSUME r2c[c] # <<>> PROVE FALSE
      OBVIOUS
    <3>1. 1 \in DOMAIN r2c[c] /\ r2c[c][1] \in PacketToClient
      BY RelayTypes, QueuePositions, QueueTypes
    <3>2. r2c[c][1].type \notin LoginReplies
      BY <2>5, <2>6, <3>1 DEF LoginAt
    <3>3. r2c[c][1].to \in Users
      BY <3>1, <3>2 DEF PacketToClient, GamePacket, LoginReplies
    <3> QED BY <2>1, <2>4, <3>1, <3>3 DEF DInv, ReachesOwn
  <2>10. KeysOK'
    BY <1>3, <2>2, <2>4 DEF DInv, KeysOK
  <2>11. AnswersKeyed'
    <3>1. \A k : IsKey(k) /\ k # p.to => IsKey(k)'
      BY <2>1, <2>2 DEF IsKey
    <3> QED BY <1>3, <1>4, <2>7, <2>8, <3>1 DEF DInv, AnswersKeyed
  <2>12. ReachesOwn'
    BY <1>3, <2>2, <2>9 DEF DInv, ReachesOwn
  <2>13. \A u : IsAccount(u) => IsAccount(u)'
    BY <2>2, <2>4 DEF IsAccount
  <2>14. RequestsSigned'
    <3>1. \A j \in DOMAIN c2r[c] : c2r[c][j].type \notin GameRequests
      BY <2>4, ConnFacts
    <3>2. \A j \in DOMAIN relayQ : relayQ[j].pb.type \in GameRequests => relayQ[j].from \in Conns \ {c}
      <4> SUFFICES ASSUME NEW j \in DOMAIN relayQ, relayQ[j].pb.type \in GameRequests
                   PROVE  relayQ[j].from \in Conns \ {c}
        OBVIOUS
      <4>1. relayQ[j].from \in Conns /\ relayQ[j].pb.id \in Users
        BY QueuedFacts, RelayPacketKinds, GameRequestKinds
      <4>2. relayQ[j].pb.id = cid[relayQ[j].from]
        BY DEF DInv, RequestsSigned
      <4> QED BY <2>4, <4>1, <4>2
    <3>3. \A j \in DOMAIN relayQ' : relayQ'[j].pb.type \in GameRequests => relayQ'[j].pb.id = cid'[relayQ'[j].from]
      BY <1>4, <2>2, <3>2 DEF DInv, RequestsSigned
    <3>4. \A d \in Conns : me'[d] # Nobody => me'[d].id = cid'[d]
      BY <1>3, <2>2, <2>4 DEF DInv, RequestsSigned
    <3>5. \A d \in Conns : \A j \in DOMAIN c2r'[d] : c2r'[d][j].type \in GameRequests => c2r'[d][j].id = cid'[d]
      BY <1>3, <2>2, <3>1 DEF DInv, RequestsSigned
    <3> QED BY <1>3, <2>13, <3>3, <3>4, <3>5 DEF DInv, RequestsSigned
  <2>15. PlayersKnown'
    BY <1>3, <1>4, <2>13 DEF DInv, PlayersKnown
  <2>16. OwnLogins'
    <3>1. p.id \in Owns[c]
      BY <1>4, <1>5, <2>1 DEF DInv, OwnLogins
    <3>2. /\ \A j \in DOMAIN loginQ : loginQ[j].key # p.id
          /\ \A j \in DOMAIN l2r : l2r[j].to # p.id
          /\ \A j \in DOMAIN relayQ : relayQ[j].pb.type \in LoginReplies => relayQ[j].pb.to # p.id
      BY <2>4 DEF DInv, AnswersKeyed, IsKey
    <3>3. ASSUME NEW d \in Conns
          PROVE  /\ cid'[d] \in Users => cid'[d] \in Owns[d]
                 /\ \A j \in DOMAIN loginQ : loginQ[j].key = cid'[d] => loginQ[j].id \in Owns[d]
                 /\ \A j \in DOMAIN l2r : l2r[j].to = cid'[d] => l2r[j].id \in Owns[d]
                 /\ \A j \in DOMAIN relayQ :
                      relayQ[j].pb.type \in LoginReplies /\ relayQ[j].pb.to = cid'[d] => relayQ[j].pb.id \in Owns[d]
      <4>1. CASE d = c
        BY <2>2, <3>1, <3>2, <4>1
      <4>2. CASE d # c
        BY <2>2, <4>2 DEF DInv, OwnLogins
      <4> QED BY <4>1, <4>2
    <3> QED BY <1>3, <1>4, <3>3 DEF DInv, OwnLogins
  <2>17. NoneLost'
    <3>1. ASSUME NEW d \in Conns, ~SomeGone', cid'[d] # Nobody, ~Rekeyed(d)' PROVE clients'[cid'[d]] # Nobody
      <4>1. d # c
        BY <2>3, <3>1 DEF Rekeyed
      <4>2. clients[cid[d]] # Nobody
        BY <1>4, <1>7, <2>2, <3>1, <4>1 DEF DInv, NoneLost, Rekeyed
      <4> QED BY <1>3, <1>5, <2>2, <3>1, <4>1, <4>2, RelayTypes
    <3> QED BY <1>3, <1>7, <1>9, <3>1, RelayTypes DEF DInv, NoneLost, Gone
  <2>18. AccountsFindable'
    <3>1. SharedAccount => SharedAccount'
      BY <2>2, <2>4 DEF SharedAccount
    <3>2. ASSUME NEW d \in Conns, conn'[d] = "up", cid'[d] \in Users, ~Rekeyed(d)', ~SharedAccount'
          PROVE  clients'[cid'[d]] = d
      <4>1. d # c
        BY <2>3, <3>2 DEF Rekeyed
      <4>2. clients[cid[d]] = d
        BY <1>3, <1>4, <2>2, <3>1, <3>2, <4>1 DEF DInv, AccountsFindable, Rekeyed
      <4> QED BY <1>3, <1>5, <2>2, <3>2, <4>1, <4>2, RelayTypes, IdKinds
    <3> QED BY <3>2 DEF AccountsFindable
  <2>19. OneLoginEach'
    <3> SUFFICES ASSUME NEW d \in Conns PROVE \E to \in LoginStages, k \in Int : LoginAt(d, to, k)'
      BY DEF OneLoginEach
    <3>1. CASE d = c
      <4>1. PICK to \in LoginStages : to = "rekey"
        BY DEF LoginStages
      <4>2. /\ \A j \in DOMAIN loginQ : loginQ[j].key # p.id
            /\ \A j \in DOMAIN l2r : l2r[j].to # p.id
            /\ \A j \in DOMAIN relayQ : relayQ[j].pb.type \in LoginReplies => relayQ[j].pb.to # p.id
        BY <2>4 DEF DInv, AnswersKeyed, IsKey
      <4>3. conn[c] # "none"
        BY <1>5, <2>1, ConnFacts, IdKinds
      <4>4. LoginAt(c, to, i)'
        BY <1>3, <1>4, <2>2, <2>4, <2>5, <2>6, <4>1, <4>2, <4>3 DEF LoginAt
      <4> QED BY <3>1, <4>4
    <3>2. CASE d # c
      <4>1. PICK to \in LoginStages, k \in Int : LoginAt(d, to, k)
        BY DEF DInv, OneLoginEach
      <4> DEFINE l == IF to \in {"relayQ", "reply"} THEN k - 1 ELSE k
      <4>2. cid'[d] = cid[d] /\ cid[d] # p.to
        BY <2>2, <3>2
      <4>3. LoginAt(d, to, l)'
        BY <1>3, <1>4, <2>3, <3>2, <4>1, <4>2 DEF LoginAt
      <4>4. l \in Int
        OBVIOUS
      <4> HIDE DEF l
      <4> QED BY <4>3, <4>4
    <3> QED BY <3>1, <3>2
  <2> QED BY <1>1, <2>10, <2>11, <2>12, <2>14, <2>15, <2>16, <2>17, <2>18, <2>19 DEF DInv
<1> QED BY <1>3, <1>8, <1>9

LEMMA FinishRekeyDelivers ==
  ASSUME DInv, RelayStep(FinishRekey)
  PROVE  DInv'
<1>1. IInv'
  BY NextIInv DEF DInv, Next, RelayStep, HandleRelayPacket
<1>2. PICK c \in Conns, u \in Users : rekey # Nobody /\ rekey.c = c /\ rekey.id = u /\ cid[c] = u
  <2>1. rekey # Nobody
    BY DEF RelayStep, FinishRekey
  <2>2. rekey.c \in Conns
    BY <2>1, RelayTypes DEF Rekeying
  <2> QED BY <2>1, <2>2, ConnFacts
<1>3. PICK p \in PacketToClient : p = [type |-> "ACCEPT_LOG_IN", to |-> u]
  BY DEF PacketToClient
<1>4. /\ rekey' = Nobody /\ clients' = [clients EXCEPT ![u] = c] /\ SendTo(c, p)
      /\ UNCHANGED <<main, io, me, rooms, gameUp, cid, now, relayQ, relayUp, conn, c2r, loginQ, l2r, gameQ, g2r>>
  BY <1>2, <1>3 DEF RelayStep, FinishRekey, AddClient, clientVars, gameVars
<1>5. /\ failing' \subseteq Conns /\ \A d \in failing' : Gone(d)
      /\ \A d \in Conns \ {c} : r2c'[d] = r2c[d]
      /\ \/ \A j \in DOMAIN r2c'[c] : \/ j \in DOMAIN r2c[c] /\ r2c'[c][j] = r2c[c][j]
                                      \/ j = Len(r2c[c]) + 1 /\ r2c'[c][j] = p
         \/ UNCHANGED r2c
  BY <1>2, <1>4, SentTo, IdKinds
<1>6. u \in Ids /\ u # Nobody /\ c # Nobody
  BY IdKinds
<1>7. KeysOK' /\ AnswersKeyed' /\ RequestsSigned' /\ PlayersKnown' /\ OwnLogins'
  BY <1>4, DFrame DEF DInv
<1>8. NoneLost'
  <2>1. SomeGone' <=> SomeGone
    BY <1>4 DEF SomeGone, Gone
  <2>2. ASSUME NEW d \in Conns, ~SomeGone', cid'[d] # Nobody PROVE clients'[cid'[d]] # Nobody
    <3>1. CASE cid[d] = u
      BY <1>4, <1>6, <3>1, RelayTypes
    <3>2. CASE cid[d] # u
      <4>1. clients[cid[d]] # Nobody
        BY <1>2, <1>4, <2>1, <2>2, <3>2 DEF DInv, NoneLost, Rekeyed
      <4> QED BY <1>4, <1>6, <2>2, <3>2, <4>1, RelayTypes
    <3> QED BY <3>1, <3>2
  <2> QED BY <1>4, <1>5, <2>1, <2>2 DEF DInv, NoneLost, Gone
<1>9. AccountsFindable'
  <2> SUFFICES ASSUME NEW d \in Conns, conn'[d] = "up", cid'[d] \in Users, ~SharedAccount' PROVE clients'[cid'[d]] = d
    BY DEF AccountsFindable
  <2>1. CASE d = c
    BY <1>2, <1>4, <1>6, <2>1, RelayTypes
  <2>2. CASE d # c
    <3>1. cid[d] # u
      BY <1>2, <1>4, <2>2 DEF SharedAccount
    <3>2. clients[cid[d]] = d
      BY <1>2, <1>4, <2>2 DEF DInv, AccountsFindable, SharedAccount, Rekeyed
    <3> QED BY <1>4, <1>6, <2>2, <3>1, <3>2, RelayTypes, IdKinds
  <2> QED BY <2>1, <2>2
<1>10. ReachesOwn'
  <2> SUFFICES ASSUME NEW d \in Conns, NEW j \in DOMAIN r2c'[d]
               PROVE  /\ r2c'[d][j].to = cid'[d]
                      /\ r2c'[d][j].type \in LoginReplies \ {"ACCEPT_LOG_IN"} => r2c'[d][j].to \in Keys
    BY DEF ReachesOwn
  <2>1. CASE j \in DOMAIN r2c[d] /\ r2c'[d][j] = r2c[d][j]
    BY <1>4, <2>1 DEF DInv, ReachesOwn
  <2>2. CASE d = c /\ r2c'[d][j] = p
    BY <1>2, <1>3, <1>4, <2>2
  <2> QED BY <1>5, <2>1, <2>2
<1>11. OneLoginEach'
  <2> SUFFICES ASSUME NEW d \in Conns PROVE \E to \in LoginStages, k \in Int : LoginAt(d, to, k)'
    BY DEF OneLoginEach
  <2>1. PICK at \in LoginStages, i \in Int : LoginAt(d, at, i)
    BY DEF DInv, OneLoginEach
  <2>2. CASE d = c
    <3>1. at = "rekey"
      BY <1>2, <2>1, <2>2 DEF LoginAt
    <3>2. CASE UNCHANGED r2c
      <4>1. PICK to \in LoginStages : to = "none"
        BY DEF LoginStages
      <4>2. LoginAt(d, to, i)'
        BY <1>4, <2>1, <3>1, <3>2, <4>1 DEF LoginAt
      <4> QED BY <4>2
    <3>3. CASE \A j \in DOMAIN r2c'[c] : \/ j \in DOMAIN r2c[c] /\ r2c'[c][j] = r2c[c][j]
                                         \/ j = Len(r2c[c]) + 1 /\ r2c'[c][j] = p
      <4>1. at \in {"reply", "rekey"} /\ \A j \in DOMAIN relayQ' : \E k \in DOMAIN relayQ :
              relayQ'[j] = relayQ[k] /\ (at = "reply" => k # i)
        BY <1>4, <3>1
      <4> QED BY <1>4, <2>1, <2>2, <3>3, <4>1, AnswerSent
    <3> QED BY <1>5, <3>2, <3>3
  <2>3. CASE d # c
    <3>1. LoginAt(d, at, i)'
      BY <1>2, <1>4, <1>5, <2>1, <2>3 DEF LoginAt
    <3> QED BY <3>1
  <2> QED BY <2>2, <2>3
<1> QED BY <1>1, <1>7, <1>8, <1>9, <1>10, <1>11 DEF DInv

\* The packet a thread pushes, and where the others of the queue are then.
LEMMA RelayPushed ==
  ASSUME DInv, NEW e \in RelayPacket, relayQ' = Append(relayQ, e)
  PROVE  \E n \in Int : \A j \in DOMAIN relayQ' :
           \/ j \in DOMAIN relayQ /\ relayQ'[j] = relayQ[j]
           \/ j = n /\ relayQ'[j] = e
<1>1. PICK n \in Int : n = Len(relayQ) + 1
  BY RelayTypes, QueuePositions
<1>2. \A j \in DOMAIN Append(relayQ, e) :
        \/ j \in DOMAIN relayQ /\ Append(relayQ, e)[j] = relayQ[j]
        \/ j = n /\ Append(relayQ, e)[j] = e
  BY <1>1, RelayTypes, QueuePositions
<1> QED BY <1>2

LEMMA ReceiveFromClientDelivers ==
  ASSUME DInv, NEW c \in Conns, RelayStep(ReceiveFromClient(c))
  PROVE  DInv'
<1>1. IInv'
  BY NextIInv DEF DInv, Next, RelayStep, RelayWorker
<1>2. /\ conn[c] \in {"up", "reset", "eof"} /\ c2r[c] # <<>> /\ c2r' = [c2r EXCEPT ![c] = Tail(@)]
      /\ relayQ' = Append(relayQ, [pb |-> Head(c2r[c]), from |-> c])
      /\ conn' = conn \/ (conn[c] = "reset" /\ conn' = [conn EXCEPT ![c] = "stale"])
      /\ UNCHANGED <<main, io, me, rooms, gameUp, clients, cid, now, rekey, failing, relayUp, r2c, loginQ, l2r, gameQ, g2r>>
  BY DEF RelayStep, ReceiveFromClient, clientVars, gameVars
<1>3. c2r[c] \in Seq(ClientPacket)
  BY RelayTypes
<1>4. PICK p \in ClientPacket : p = Head(c2r[c]) /\ p = c2r[c][1] /\ 1 \in DOMAIN c2r[c]
  BY <1>2, <1>3, QueueTypes, QueuePositions
<1>5. \A j \in DOMAIN c2r'[c] : j \in Int /\ 1 <= j /\ j + 1 \in DOMAIN c2r[c] /\ c2r'[c][j] = c2r[c][j + 1]
  <2>1. c2r'[c] = Tail(c2r[c]) /\ Tail(c2r[c]) \in Seq(ClientPacket)
    BY <1>2, <1>3, QueueTypes, RelayTypes
  <2>2. \A j \in DOMAIN Tail(c2r[c]) : j \in Int /\ 1 <= j
    BY <2>1, QueuePositions
  <2>3. c2r[c] # <<>>
    BY <1>2
  <2>4. \A j \in DOMAIN Tail(c2r[c]) : j + 1 \in DOMAIN c2r[c] /\ Tail(c2r[c])[j] = c2r[c][j + 1]
    BY <1>3, <2>3, QueuePositions
  <2> QED BY <2>1, <2>2, <2>4
<1>6. \A d \in Conns \ {c} : c2r'[d] = c2r[d]
  BY <1>2, RelayTypes
<1>7. PICK e \in RelayPacket : e.pb = p /\ e.from = c /\ relayQ' = Append(relayQ, e)
  BY <1>2, <1>4 DEF RelayPacket
<1>8. PICK n \in Int : \A j \in DOMAIN relayQ' : \/ j \in DOMAIN relayQ /\ relayQ'[j] = relayQ[j]
                                                 \/ j = n /\ relayQ'[j] = e
  BY <1>7, RelayPushed
<1>9. p.type \in LoginRequests \cup GameRequests /\ p.type \notin LoginReplies \cup GameReplies
  BY ClientPacketKinds, TypesDiffer
<1>10. KeysOK' /\ ReachesOwn'
  BY <1>2, DFrame DEF DInv
<1>11. AnswersKeyed'
  BY <1>2, <1>7, <1>8, <1>9 DEF DInv, AnswersKeyed, IsKey
<1>12. RequestsSigned'
  <2>1. p.type \in GameRequests => p.id = cid[c]
    BY <1>4 DEF DInv, RequestsSigned
  <2>2. \A d \in Conns : \A j \in DOMAIN c2r'[d] : c2r'[d][j].type \in GameRequests => c2r'[d][j].id = cid'[d]
    BY <1>2, <1>5, <1>6 DEF DInv, RequestsSigned
  <2>3. \A j \in DOMAIN relayQ' : relayQ'[j].pb.type \in GameRequests => relayQ'[j].pb.id = cid'[relayQ'[j].from]
    BY <1>2, <1>7, <1>8, <2>1 DEF DInv, RequestsSigned
  <2> QED BY <1>2, <2>2, <2>3 DEF DInv, RequestsSigned, IsAccount
<1>13. PlayersKnown'
  BY <1>2, <1>7, <1>8, <1>9 DEF DInv, PlayersKnown, IsAccount
<1>14. OwnLogins'
  <2>1. p.type \in LoginRequests => p.id \in Owns[c]
    BY <1>4 DEF DInv, OwnLogins
  <2>2. \A d \in Conns : \A j \in DOMAIN c2r'[d] : c2r'[d][j].type \in LoginRequests => c2r'[d][j].id \in Owns[d]
    BY <1>5, <1>6 DEF DInv, OwnLogins
  <2> QED BY <1>2, <1>7, <1>8, <1>9, <2>1, <2>2 DEF DInv, OwnLogins
<1>15. \A d \in Conns : (Gone(d)' <=> Gone(d)) /\ (conn'[d] = "up" => conn[d] = "up")
                        /\ (conn'[d] = "none" => conn[d] = "none")
  BY <1>2, RelayTypes DEF Gone
<1>16. NoneLost'
  <2>1. SomeGone' <=> SomeGone
    BY <1>15 DEF SomeGone
  <2> QED BY <1>2, <1>15, <2>1, RelayTypes DEF DInv, NoneLost, Rekeyed
<1>17. AccountsFindable'
  BY <1>2, <1>15 DEF DInv, AccountsFindable, SharedAccount, Rekeyed
<1>18. OneLoginEach'
  <2> SUFFICES ASSUME NEW d \in Conns PROVE \E to \in LoginStages, k \in Int : LoginAt(d, to, k)'
    BY DEF OneLoginEach
  <2>1. PICK at \in LoginStages, i \in Int : LoginAt(d, at, i)
    BY DEF DInv, OneLoginEach
  <2>2. CASE d # c
    <3>1. LoginAt(d, at, i)'
      BY <1>2, <1>6, <1>7, <1>8, <1>9, <1>15, <2>1, <2>2 DEF LoginAt
    <3> QED BY <3>1
  <2>3. CASE d = c /\ p.type \in LoginRequests
    <3>1. at = "c2r" /\ i = 1
      BY <1>4, <2>1, <2>3 DEF LoginAt
    <3>2. \A j \in DOMAIN c2r'[c] : c2r'[c][j].type \notin LoginRequests
      <4> SUFFICES ASSUME NEW j \in DOMAIN c2r'[c], c2r'[c][j].type \in LoginRequests PROVE FALSE
        OBVIOUS
      <4>1. j + 1 = 1
        BY <1>5, <2>1, <2>3, <3>1 DEF LoginAt
      <4> QED BY <1>5, <4>1
    <3>3. PICK to \in LoginStages : to = "relayQ"
      BY DEF LoginStages
    <3>4. LoginAt(d, to, n)'
      BY <1>2, <1>7, <1>8, <1>9, <1>15, <2>1, <2>3, <3>1, <3>2, <3>3 DEF LoginAt
    <3> QED BY <3>4
  <2>4. CASE d = c /\ p.type \notin LoginRequests
    <3> DEFINE l == IF at = "c2r" THEN i - 1 ELSE i
    <3>1. l \in Int /\ (at # "c2r" => l = i)
      OBVIOUS
    <3>2. \A j \in DOMAIN c2r'[c] : c2r'[c][j].type \in LoginRequests => at = "c2r" /\ l = j
      BY <1>5, <2>1, <2>4 DEF LoginAt
    <3> HIDE DEF l
    <3>3. LoginAt(d, at, l)'
      BY <1>2, <1>7, <1>8, <1>9, <1>15, <2>1, <2>4, <3>1, <3>2 DEF LoginAt
    <3> QED BY <3>1, <3>3
  <2> QED BY <2>2, <2>3, <2>4
<1> QED BY <1>1, <1>10, <1>11, <1>12, <1>13, <1>14, <1>16, <1>17, <1>18 DEF DInv

LEMMA ReceiveFromLoginDelivers ==
  ASSUME DInv, RelayStep(ReceiveFromLogin)
  PROVE  DInv'
<1>1. IInv'
  BY NextIInv DEF DInv, Next
<1>2. /\ l2r # <<>> /\ l2r' = Tail(l2r) /\ relayQ' = Append(relayQ, [pb |-> Head(l2r), from |-> Nobody])
      /\ UNCHANGED <<main, io, me, rooms, gameUp, clients, cid, now, rekey, failing, relayUp,
                     conn, c2r, r2c, loginQ, gameQ, g2r>>
  BY DEF RelayStep, ReceiveFromLogin, clientVars, gameVars
<1>3. PICK p \in LoginReply : p = Head(l2r) /\ p = l2r[1] /\ 1 \in DOMAIN l2r
  BY <1>2, RelayTypes, QueueTypes, QueuePositions
<1>4. \A j \in DOMAIN l2r' : j \in Int /\ 1 <= j /\ j + 1 \in DOMAIN l2r /\ l2r'[j] = l2r[j + 1]
  <2>1. Tail(l2r) \in Seq(LoginReply)
    BY <1>2, QueueTypes, RelayTypes
  <2>2. \A j \in DOMAIN Tail(l2r) : j \in Int /\ 1 <= j
    BY <2>1, QueuePositions
  <2> QED BY <1>2, <2>1, <2>2, QueuePositions, RelayTypes
<1>5. PICK e \in RelayPacket : e.pb = p /\ e.from = Nobody /\ relayQ' = Append(relayQ, e)
  BY <1>2, <1>3 DEF RelayPacket, ServerPacket
<1>6. PICK n \in Int : \A j \in DOMAIN relayQ' : \/ j \in DOMAIN relayQ /\ relayQ'[j] = relayQ[j]
                                                 \/ j = n /\ relayQ'[j] = e
  BY <1>5, RelayPushed
<1>7. p.type \in LoginReplies /\ p.type \notin LoginRequests \cup GameRequests \cup GameReplies
  BY TypesDiffer DEF LoginReply
<1>8. KeysOK' /\ ReachesOwn' /\ NoneLost' /\ AccountsFindable'
  BY <1>2, DFrame DEF DInv
<1>9. AnswersKeyed'
  BY <1>2, <1>3, <1>4, <1>5, <1>6 DEF DInv, AnswersKeyed, IsKey
<1>10. RequestsSigned'
  BY <1>2, <1>5, <1>6, <1>7 DEF DInv, RequestsSigned, IsAccount
<1>11. PlayersKnown'
  BY <1>2, <1>5, <1>6, <1>7 DEF DInv, PlayersKnown, IsAccount
<1>12. OwnLogins'
  <2>1. \A d \in Conns : p.to = cid[d] => p.id \in Owns[d]
    BY <1>3 DEF DInv, OwnLogins
  <2>2. \A d \in Conns : \A j \in DOMAIN l2r' : l2r'[j].to = cid[d] => l2r'[j].id \in Owns[d]
    BY <1>4 DEF DInv, OwnLogins
  <2>3. \A d \in Conns : \A j \in DOMAIN relayQ' :
          relayQ'[j].pb.type \in LoginReplies /\ relayQ'[j].pb.to = cid[d] => relayQ'[j].pb.id \in Owns[d]
    BY <1>5, <1>6, <2>1 DEF DInv, OwnLogins
  <2>4. \A d \in Conns : \A j \in DOMAIN relayQ' :
          relayQ'[j].pb.type \in LoginRequests /\ relayQ'[j].from = d => relayQ'[j].pb.id \in Owns[d]
    BY <1>5, <1>6, <1>7 DEF DInv, OwnLogins
  <2> QED BY <1>2, <2>2, <2>3, <2>4 DEF DInv, OwnLogins
<1>13. OneLoginEach'
  <2> SUFFICES ASSUME NEW d \in Conns PROVE \E to \in LoginStages, k \in Int : LoginAt(d, to, k)'
    BY DEF OneLoginEach
  <2>1. PICK at \in LoginStages, i \in Int : LoginAt(d, at, i)
    BY DEF DInv, OneLoginEach
  <2>2. CASE p.to = cid[d]
    <3>1. at = "l2r" /\ i = 1
      BY <1>3, <2>1, <2>2 DEF LoginAt
    <3>2. \A j \in DOMAIN l2r' : l2r'[j].to # cid[d]
      <4> SUFFICES ASSUME NEW j \in DOMAIN l2r', l2r'[j].to = cid[d] PROVE FALSE
        OBVIOUS
      <4>1. j + 1 = 1
        BY <1>4, <2>1, <3>1 DEF LoginAt
      <4> QED BY <1>4, <4>1
    <3>3. PICK to \in LoginStages : to = "reply"
      BY DEF LoginStages
    <3>4. LoginAt(d, to, n)'
      BY <1>2, <1>5, <1>6, <1>7, <2>1, <3>1, <3>2, <3>3 DEF LoginAt
    <3> QED BY <3>4
  <2>3. CASE p.to # cid[d]
    <3> DEFINE l == IF at = "l2r" THEN i - 1 ELSE i
    <3>1. LoginAt(d, at, l)'
      BY <1>2, <1>4, <1>5, <1>6, <1>7, <2>1, <2>3 DEF LoginAt
    <3>2. l \in Int
      OBVIOUS
    <3> HIDE DEF l
    <3> QED BY <3>1, <3>2
  <2> QED BY <2>2, <2>3
<1> QED BY <1>1, <1>8, <1>9, <1>10, <1>11, <1>12, <1>13 DEF DInv

LEMMA ReceiveFromGameDelivers ==
  ASSUME DInv, RelayStep(ReceiveFromGame)
  PROVE  DInv'
<1>1. IInv'
  BY NextIInv DEF DInv, Next
<1>2. /\ g2r # <<>> /\ g2r' = Tail(g2r) /\ relayQ' = Append(relayQ, [pb |-> Head(g2r), from |-> Nobody])
      /\ UNCHANGED <<main, io, me, rooms, gameUp, clients, cid, now, rekey, failing, relayUp,
                     conn, c2r, r2c, loginQ, l2r, gameQ>>
  BY DEF RelayStep, ReceiveFromGame, clientVars, gameVars
<1>3. PICK p \in GamePacket : p = Head(g2r) /\ p = g2r[1] /\ 1 \in DOMAIN g2r
  BY <1>2, RelayTypes, QueueTypes, QueuePositions
<1>4. \A j \in DOMAIN g2r' : \E k \in DOMAIN g2r : g2r'[j] = g2r[k]
  BY <1>2, RelayTypes, QueueElements
<1>5. PICK e \in RelayPacket : e.pb = p /\ e.from = Nobody /\ relayQ' = Append(relayQ, e)
  BY <1>2, <1>3 DEF RelayPacket, ServerPacket
<1>6. PICK n \in Int : \A j \in DOMAIN relayQ' : \/ j \in DOMAIN relayQ /\ relayQ'[j] = relayQ[j]
                                                 \/ j = n /\ relayQ'[j] = e
  BY <1>5, RelayPushed
<1>7. p.type \in GameReplies /\ p.type \notin LoginRequests \cup GameRequests \cup LoginReplies
  BY TypesDiffer DEF GamePacket, GameReplies
<1>8. KeysOK' /\ ReachesOwn' /\ NoneLost' /\ AccountsFindable'
  BY <1>2, DFrame DEF DInv
<1>9. AnswersKeyed'
  BY <1>2, <1>5, <1>6, <1>7 DEF DInv, AnswersKeyed, IsKey
<1>10. RequestsSigned'
  BY <1>2, <1>5, <1>6, <1>7 DEF DInv, RequestsSigned, IsAccount
<1>11. PlayersKnown'
  BY <1>2, <1>3, <1>4, <1>5, <1>6 DEF DInv, PlayersKnown, IsAccount
<1>12. OwnLogins'
  BY <1>2, <1>5, <1>6, <1>7 DEF DInv, OwnLogins
<1>13. OneLoginEach'
  <2> SUFFICES ASSUME NEW d \in Conns PROVE \E to \in LoginStages, k \in Int : LoginAt(d, to, k)'
    BY DEF OneLoginEach
  <2>1. PICK at \in LoginStages, i \in Int : LoginAt(d, at, i)
    BY DEF DInv, OneLoginEach
  <2>2. LoginAt(d, at, i)'
    BY <1>2, <1>5, <1>6, <1>7, <2>1 DEF LoginAt
  <2> QED BY <2>2
<1> QED BY <1>1, <1>8, <1>9, <1>10, <1>11, <1>12, <1>13 DEF DInv

\* The worker notices that a client is gone, and closes the connection or not.
LEMMA WorkerDelivers ==
  ASSUME DInv, NEW c \in Conns,
         RelayStep(NoticeReset(c)) \/ RelayStep(NoticeEof(c)) \/ RelayStep(NoticeFailedWrite(c))
  PROVE  DInv'
<1>1. IInv'
  BY NextIInv DEF DInv, Next, RelayStep, RelayWorker
<1>2. Gone(c)
  <2>1. conn[c] \in {"reset", "eof"} \/ c \in failing
    BY DEF RelayStep, NoticeReset, NoticeEof, NoticeFailedWrite
  <2> QED BY <2>1 DEF Gone, DInv, NoneLost
<1>3. /\ \/ conn' = conn
         \/ conn' = [conn EXCEPT ![c] = "closed"]
         \/ conn' = [conn EXCEPT ![c] = "stale"]
      /\ \/ UNCHANGED c2r
         \/ c2r' = [c2r EXCEPT ![c] = <<>>]
      /\ \/ UNCHANGED clients
         \/ clients' = [clients EXCEPT ![cid[c]] = Nobody]
      /\ failing' \subseteq failing
      /\ UNCHANGED <<main, io, me, rooms, gameUp, cid, now, relayQ, rekey, r2c, loginQ, l2r, gameQ, g2r>>
  <2> USE DEF RelayStep, Drop, RemoveClient, clientVars, gameVars
  <2>1. CASE RelayStep(NoticeReset(c))
    BY <2>1 DEF NoticeReset
  <2>2. CASE RelayStep(NoticeEof(c))
    BY <2>2 DEF NoticeEof
  <2>3. CASE RelayStep(NoticeFailedWrite(c))
    BY <2>3 DEF NoticeFailedWrite
  <2> QED BY <2>1, <2>2, <2>3
<1>4. /\ \A d \in Conns \ {c} : conn'[d] = conn[d] /\ c2r'[d] = c2r[d]
      /\ c2r'[c] = c2r[c] \/ c2r'[c] = <<>>
      /\ conn'[c] \in {conn[c], "closed", "stale"}
  BY <1>3, RelayTypes
<1>5. \A d \in Conns : Gone(d) => Gone(d)'
  BY <1>4 DEF Gone
<1>6. \A d \in Conns : conn'[d] = "up" => conn[d] = "up" /\ d # c
  BY <1>2, <1>4 DEF Gone
<1>7. KeysOK' /\ AnswersKeyed' /\ ReachesOwn' /\ PlayersKnown'
  BY <1>3, DFrame DEF DInv
<1>8. RequestsSigned'
  <2>1. \A d \in Conns : \A j \in DOMAIN c2r'[d] : c2r'[d][j].type \in GameRequests => c2r'[d][j].id = cid'[d]
    BY <1>3, <1>4 DEF DInv, RequestsSigned
  <2> QED BY <1>3, <2>1 DEF DInv, RequestsSigned, IsAccount
<1>9. OwnLogins'
  <2>1. \A d \in Conns : \A j \in DOMAIN c2r'[d] : c2r'[d][j].type \in LoginRequests => c2r'[d][j].id \in Owns[d]
    BY <1>4 DEF DInv, OwnLogins
  <2> QED BY <1>3, <2>1 DEF DInv, OwnLogins
<1>10. NoneLost'
  <2>1. SomeGone'
    BY <1>2, <1>5 DEF SomeGone
  <2> QED BY <1>3, <1>5, <2>1, RelayTypes DEF DInv, NoneLost
<1>11. AccountsFindable'
  <2> SUFFICES ASSUME NEW d \in Conns, conn'[d] = "up", cid'[d] \in Users, ~Rekeyed(d)', ~SharedAccount'
               PROVE  clients'[cid'[d]] = d
    BY DEF AccountsFindable
  <2>1. clients[cid[d]] = d
    BY <1>3, <1>6 DEF DInv, AccountsFindable, SharedAccount, Rekeyed
  <2>2. cid[c] # cid[d]
    BY <1>3, <1>6 DEF SharedAccount
  <2> QED BY <1>3, <2>1, <2>2, RelayTypes, IdKinds
<1>12. OneLoginEach'
  <2> SUFFICES ASSUME NEW d \in Conns PROVE \E to \in LoginStages, k \in Int : LoginAt(d, to, k)'
    BY DEF OneLoginEach
  <2>1. PICK at \in LoginStages, i \in Int : LoginAt(d, at, i)
    BY DEF DInv, OneLoginEach
  <2>2. conn'[d] = "none" => conn[d] = "none"
    BY <1>2, <1>4 DEF Gone
  <2>3. \A j \in DOMAIN c2r'[d] : c2r'[d][j].type \in LoginRequests => at = "c2r" /\ i = j
    BY <1>4, <2>1 DEF LoginAt
  <2>4. LoginAt(d, at, i)'
    BY <1>3, <2>1, <2>2, <2>3 DEF LoginAt
  <2> QED BY <2>4
<1> QED BY <1>1, <1>7, <1>8, <1>9, <1>10, <1>11, <1>12 DEF DInv

\* The game server is down, and the relay ends after it.
LEMMA GameServerEndDelivers ==
  ASSUME DInv, RelayStep(NoticeGameServerEnd)
  PROVE  DInv'
<1>1. /\ UNCHANGED <<main, io, me, rooms, gameUp, clients, cid, now, relayQ, rekey, failing,
                     conn, c2r, r2c, loginQ, l2r, gameQ, g2r>>
      /\ ~gameUp
  BY DEF RelayStep, NoticeGameServerEnd, clientVars, gameVars, links
<1>2. IInv'
  BY NoticeGameServerEndInv DEF DInv
<1>3. OneLoginEach'
  BY <1>1 DEF DInv, OneLoginEach, LoginAt
<1>4. NoneLost'
  BY <1>1 DEF DInv, NoneLost, SomeGone, Gone, Rekeyed
<1> QED BY <1>1, <1>2, <1>3, <1>4, DFrame DEF DInv

(***************************************************************************)
(* The theorems.                                                           *)
(***************************************************************************)

LEMMA InitDInv == Init => DInv
<1> SUFFICES ASSUME Init PROVE DInv
  OBVIOUS
<1> USE DEF Init, LinksInit, ClientInit, LoginInit, RelayInit, GameInit
<1> USE IdKinds
<1>1. IInv
  BY InitIInv
<1>2. KeysOK /\ AnswersKeyed /\ ReachesOwn
  BY DEF KeysOK, AnswersKeyed, ReachesOwn
<1>3. RequestsSigned /\ PlayersKnown /\ OwnLogins
  BY DEF RequestsSigned, PlayersKnown, OwnLogins, NewRoom
<1>4. NoneLost /\ AccountsFindable
  BY DEF NoneLost, AccountsFindable
<1>5. OneLoginEach
  <2>1. PICK at \in LoginStages, i \in Int : at = "none" /\ i = 0
    BY DEF LoginStages
  <2>2. \A c \in Conns : LoginAt(c, at, i)
    BY <2>1 DEF LoginAt
  <2> QED BY <2>2 DEF OneLoginEach
<1> QED BY <1>1, <1>2, <1>3, <1>4, <1>5 DEF DInv

LEMMA NextDInv ==
  ASSUME OwnMillis, DInv, [Next]_vars
  PROVE  DInv'
<1>1. ASSUME NEW c \in Conns, ClientStep(UserStep(c)) PROVE DInv'
  <2>1. CASE ClientStep(Connect(c))
    BY <2>1, ConnectDelivers
  <2>2. CASE ClientStep(LogInOrRegister(c))
    BY <2>2, LogInOrRegisterDelivers
  <2>3. CASE \/ ClientStep(WrongInput(c)) \/ ClientStep(Quit(c))
             \/ ClientStep(HostOrJoin(c)) \/ ClientStep(FinishTurn(c))
    BY <2>3, QuietUserDelivers
  <2> QED BY <1>1, <2>1, <2>2, <2>3 DEF ClientStep, UserStep
<1>2. ASSUME NEW c \in Conns, ClientStep(HandleIO(c)) PROVE DInv'
  <2>1. CASE ClientStep(HandleAcceptLogIn(c))
    BY <2>1, HandleAcceptLogInDelivers
  <2>2. CASE ClientStep(HandleAcceptRegister(c)) \/ ClientStep(HandleRejectLogin(c))
    BY <2>2, HandleLoginRefusalDelivers
  <2>3. CASE \/ ClientStep(HandleAllowRoom(c)) \/ ClientStep(HandleRejectRoom(c)) \/ ClientStep(HandlePlayGame(c))
             \/ ClientStep(HandleDealCards(c)) \/ ClientStep(HandlePlayerTurn(c))
    BY <2>3, QuietHandlerDelivers
  <2> QED BY <1>2, <2>1, <2>2, <2>3 DEF ClientStep, HandleIO
<1>3. CASE RelayStep(HandleRelayPacket)
  <2>1. CASE RelayStep(ForwardToLogin)
    BY <2>1, ForwardToLoginDelivers
  <2>2. CASE RelayStep(ForwardToGame)
    BY <2>2, ForwardToGameDelivers
  <2>3. CASE RelayStep(ForwardToClient)
    BY <2>3, ForwardToClientDelivers
  <2>4. CASE RelayStep(BeginRekey)
    BY <2>4, BeginRekeyDelivers
  <2>5. CASE RelayStep(FinishRekey)
    BY <2>5, FinishRekeyDelivers
  <2> QED BY <1>3, <2>1, <2>2, <2>3, <2>4, <2>5 DEF RelayStep, HandleRelayPacket
<1>4. ASSUME NEW c \in Conns, RelayStep(RelayWorker(c)) PROVE DInv'
  <2>1. CASE RelayStep(ReceiveFromClient(c))
    BY <2>1, ReceiveFromClientDelivers
  <2>2. CASE RelayStep(NoticeReset(c)) \/ RelayStep(NoticeEof(c)) \/ RelayStep(NoticeFailedWrite(c))
    BY <2>2, WorkerDelivers
  <2> QED BY <1>4, <2>1, <2>2 DEF RelayStep, RelayWorker
<1>5. ASSUME NEW c \in Conns, RelayStep(Accept(c)) PROVE DInv'
  BY <1>5, AcceptDelivers
<1>6. CASE UNCHANGED vars
  <2>1. UNCHANGED <<conn, c2r, r2c, loginQ, l2r, gameQ, g2r, main, io, me, clients, cid, now, relayQ, rekey,
                    failing, relayUp, rooms, gameUp>>
    BY <1>6 DEF vars, links, clientVars, relayVars, gameVars
  <2>2. IInv'
    BY NextIInv DEF DInv
  <2>3. OneLoginEach'
    BY <2>1 DEF DInv, OneLoginEach, LoginAt
  <2> QED BY <2>1, <2>2, <2>3, DFrame DEF DInv
<1> QED BY <1>1, <1>2, <1>3, <1>4, <1>5, <1>6, LoginServerDelivers, GameServerDelivers,
           ReceiveFromLoginDelivers, ReceiveFromGameDelivers, GameServerEndDelivers DEF Next

LEMMA DInductive ==
  ASSUME OwnMillis
  PROVE  Spec => []DInv
<1>1. Init => DInv
  BY InitDInv
<1>2. DInv /\ [Next]_vars => DInv'
  BY NextDInv
<1> QED BY <1>1, <1>2, PTL DEF Spec

(***************************************************************************)
(* Who is logged in keeps an entry while no other window of the account is *)
(* gone.                                                                   *)
(***************************************************************************)
LostWith(c) == \E d \in Conns \ {c} : Gone(d) /\ cid[d] = cid[c]
EntriesKept ==
  \A c \in Conns : conn[c] = "up" /\ cid[c] \in Users /\ ~Rekeyed(c) => clients[cid[c]] # Nobody \/ LostWith(c)

LEMMA OnceGone ==
  ASSUME DInv, [Next]_vars, NEW c \in Conns, Gone(c)
  PROVE  Gone(c)'
<1>1. conn \in [Conns -> ConnStates]
  BY RelayTypes
<1>2. ASSUME NEW d \in Conns, ClientStep(UserStep(d)) \/ ClientStep(HandleIO(d)) PROVE Gone(c)'
  BY <1>2, LocalFacts DEF LocalStep, Gone
<1>3. CASE LoginStep(HandleLoginPacket) \/ GameStep(HandleGamePacket) \/ UNCHANGED vars
  <2>1. UNCHANGED conn
    BY <1>3, GameParts DEF LoginStep, HandleLoginPacket, HandleLogIn, HandleRegister, vars, links
  <2> QED BY <2>1 DEF Gone
<1>4. CASE RelayStep(HandleRelayPacket)
  <2>1. UNCHANGED conn
    BY <1>4 DEF RelayStep, HandleRelayPacket, ForwardToLogin, ForwardToGame, ForwardToClient, BeginRekey, FinishRekey, links
  <2> QED BY <2>1 DEF Gone
<1>5. CASE RelayStep(ReceiveFromLogin) \/ RelayStep(ReceiveFromGame) \/ RelayStep(NoticeGameServerEnd)
  <2>1. UNCHANGED conn
    BY <1>5 DEF RelayStep, ReceiveFromLogin, ReceiveFromGame, NoticeGameServerEnd, links
  <2> QED BY <2>1 DEF Gone
<1>6. ASSUME NEW d \in Conns, RelayStep(Accept(d)) \/ RelayStep(RelayWorker(d)) PROVE Gone(c)'
  BY <1>1, <1>6 DEF RelayStep, Accept, RelayWorker, ReceiveFromClient, NoticeReset, NoticeEof, NoticeFailedWrite,
                    Drop, Gone
<1> QED BY <1>2, <1>3, <1>4, <1>5, <1>6 DEF Next

\* An entry that a step leaves alone.
LEMMA EntryLeft ==
  ASSUME DInv, EntriesKept, [Next]_vars, \A d \in Conns : cid[d] \in Users => cid'[d] = cid[d],
         NEW c \in Conns, conn[c] = "up", cid[c] \in Users, ~Rekeyed(c), clients'[cid[c]] = clients[cid[c]]
  PROVE  clients'[cid'[c]] # Nobody \/ LostWith(c)'
<1>1. cid'[c] = cid[c]
  OBVIOUS
<1>2. CASE clients[cid[c]] # Nobody
  BY <1>1, <1>2
<1>3. ASSUME NEW d \in Conns \ {c}, Gone(d), cid[d] = cid[c] PROVE LostWith(c)'
  <2>1. Gone(d)' /\ cid'[d] = cid'[c]
    BY <1>1, <1>3, OnceGone
  <2> QED BY <2>1 DEF LostWith
<1> QED BY <1>2, <1>3 DEF EntriesKept, LostWith

LEMMA EntriesStay ==
  ASSUME DInv, EntriesKept, [Next]_vars, UNCHANGED <<clients, cid, rekey>>,
         \A c \in Conns : conn'[c] = "up" => conn[c] = "up"
  PROVE  EntriesKept'
<1>1. \A c \in Conns : Rekeyed(c)' <=> Rekeyed(c)
  BY DEF Rekeyed
<1> QED BY <1>1, EntryLeft DEF EntriesKept

LEMMA NextEntries ==
  ASSUME OwnMillis, DInv, EntriesKept, [Next]_vars
  PROVE  EntriesKept'
<1>1. ASSUME NEW c \in Conns, ClientStep(UserStep(c)) \/ ClientStep(HandleIO(c)) PROVE EntriesKept'
  <2>1. UNCHANGED <<clients, cid, rekey>> /\ \A d \in Conns : conn'[d] = "up" => conn[d] = "up"
    BY <1>1, LocalFacts DEF LocalStep, relayVars
  <2> QED BY <2>1, EntriesStay
<1>2. CASE LoginStep(HandleLoginPacket) \/ GameStep(HandleGamePacket) \/ UNCHANGED vars
  <2>1. UNCHANGED <<clients, cid, rekey, conn>>
    BY <1>2, GameParts DEF LoginStep, HandleLoginPacket, HandleLogIn, HandleRegister, vars, links, relayVars
  <2> QED BY <2>1, EntriesStay
<1>3. CASE \/ RelayStep(ForwardToLogin) \/ RelayStep(ForwardToGame) \/ RelayStep(ForwardToClient)
           \/ RelayStep(ReceiveFromLogin) \/ RelayStep(ReceiveFromGame) \/ RelayStep(NoticeGameServerEnd)
  <2>1. UNCHANGED <<clients, cid, rekey, conn>>
    BY <1>3 DEF RelayStep, ForwardToLogin, ForwardToGame, ForwardToClient, ReceiveFromLogin, ReceiveFromGame,
                NoticeGameServerEnd, links
  <2> QED BY <2>1, EntriesStay
<1>4. CASE RelayStep(BeginRekey)
  <2> DEFINE p == Head(relayQ).pb
             d == clients[p.to]
  <2>1. /\ PopRelay({"ACCEPT_LOG_IN"}) /\ clients' = [clients EXCEPT ![p.to] = Nobody] /\ UNCHANGED conn
        /\ \/ d # Nobody /\ cid' = [cid EXCEPT ![d] = p.id] /\ rekey' = [c |-> d, id |-> p.id]
           \/ UNCHANGED <<cid, rekey>>
    BY <1>4 DEF RelayStep, BeginRekey, RemoveClient, links
  <2>2. rekey = Nobody /\ Head(relayQ) = relayQ[1] /\ 1 \in DOMAIN relayQ /\ p.type = "ACCEPT_LOG_IN"
    BY <2>1, RelayPopped
  <2>3. p.to \in Keys /\ p.to \in Ids /\ p.to \notin Users /\ p.id \in Users
    <3>1. p.type \in LoginReplies
      BY <2>2 DEF LoginReplies
    <3>2. p \in LoginReply
      BY <2>2, <3>1, QueuedFacts, ServerPacketKinds
    <3> QED BY <2>2, <3>1, <3>2, ReplyFacts, IdKinds DEF LoginReply
  <2>4. d # Nobody => cid[d] = p.to /\ d \in Conns
    BY <2>3, RelayTypes DEF DInv, IInv, RoutingInv, MapConsistent
  <2> HIDE DEF p, d
  <2>5. \A e \in Conns : cid[e] \in Users => cid'[e] = cid[e]
    BY <2>1, <2>3, <2>4, RelayTypes
  <2>6. ASSUME NEW c \in Conns, conn'[c] = "up", cid'[c] \in Users, ~Rekeyed(c)'
        PROVE  clients'[cid'[c]] # Nobody \/ LostWith(c)'
    <3>1. cid[c] = cid'[c]
      <4>1. CASE d # Nobody /\ cid' = [cid EXCEPT ![d] = p.id] /\ rekey' = [c |-> d, id |-> p.id]
        <5>1. rekey' \in Rekeying /\ rekey' # Nobody /\ rekey'.c = d
          BY <2>3, <2>4, <4>1, RelayAssumption DEF Rekeying
        <5> QED BY <2>6, <4>1, <5>1, RelayTypes DEF Rekeyed
      <4>2. CASE UNCHANGED <<cid, rekey>>
        BY <4>2
      <4> QED BY <2>1, <4>1, <4>2
    <3>2. ~Rekeyed(c)
      BY <2>2 DEF Rekeyed
    <3>3. clients'[cid[c]] = clients[cid[c]]
      BY <2>1, <2>3, <2>6, <3>1, RelayTypes
    <3> QED BY <2>1, <2>5, <2>6, <3>1, <3>2, <3>3, EntryLeft
  <2> QED BY <2>6 DEF EntriesKept
<1>5. CASE RelayStep(FinishRekey)
  <2>1. /\ rekey # Nobody /\ rekey' = Nobody /\ clients' = [clients EXCEPT ![rekey.id] = rekey.c]
        /\ UNCHANGED <<cid, conn>>
    BY <1>5 DEF RelayStep, FinishRekey, AddClient
  <2>2. rekey.c \in Conns /\ rekey.c # Nobody /\ rekey.id \in Users /\ cid[rekey.c] = rekey.id
    BY <2>1, RelayTypes, ConnFacts, IdKinds DEF Rekeying
  <2>3. ASSUME NEW c \in Conns, conn'[c] = "up", cid'[c] \in Users
        PROVE  clients'[cid'[c]] # Nobody \/ LostWith(c)'
    <3>1. CASE cid[c] = rekey.id
      BY <2>1, <2>2, <2>3, <3>1, RelayTypes, IdKinds
    <3>2. CASE cid[c] # rekey.id
      <4>1. ~Rekeyed(c) /\ clients'[cid[c]] = clients[cid[c]]
        BY <2>1, <2>2, <2>3, <3>2, RelayTypes, IdKinds DEF Rekeyed
      <4> QED BY <2>1, <2>3, <4>1, EntryLeft
    <3> QED BY <3>1, <3>2
  <2> QED BY <2>3 DEF EntriesKept
<1>6. ASSUME NEW e \in Conns, RelayStep(Accept(e)) PROVE EntriesKept'
  <2>1. PICK t \in NextMillis :
          clients' = [clients EXCEPT ![t] = e] /\ cid' = [cid EXCEPT ![e] = t]
    BY <1>6 DEF RelayStep, Accept, AddClient
  <2>2. conn[e] = "pending" /\ conn' = [conn EXCEPT ![e] = "up"] /\ UNCHANGED rekey
    BY <1>6 DEF RelayStep, Accept
  <2>3. t \notin Users /\ cid[e] = Nobody /\ Nobody \notin Users
    BY <2>2, ConnFacts, IdKinds DEF NextMillis
  <2>4. \A d \in Conns : cid[d] \in Users => cid'[d] = cid[d]
    BY <2>1, <2>3, RelayTypes
  <2>5. ASSUME NEW c \in Conns, conn'[c] = "up", cid'[c] \in Users, ~Rekeyed(c)'
        PROVE  clients'[cid'[c]] # Nobody \/ LostWith(c)'
    <3>1. c # e
      BY <2>1, <2>3, <2>5, RelayTypes
    <3>2. conn[c] = "up" /\ cid'[c] = cid[c] /\ ~Rekeyed(c) /\ clients'[cid[c]] = clients[cid[c]]
      BY <2>1, <2>2, <2>3, <2>5, <3>1, RelayTypes, IdKinds DEF Rekeyed
    <3> QED BY <2>4, <2>5, <3>2, EntryLeft
  <2> QED BY <2>5 DEF EntriesKept
<1>7. ASSUME NEW e \in Conns, RelayStep(RelayWorker(e)) PROVE EntriesKept'
  <2>1. CASE RelayStep(ReceiveFromClient(e)) \/ UNCHANGED <<clients, conn>>
    <3>1. UNCHANGED <<clients, cid, rekey>> /\ \A c \in Conns : conn'[c] = "up" => conn[c] = "up"
      BY <1>7, <2>1, RelayTypes DEF RelayStep, RelayWorker, ReceiveFromClient, NoticeReset, NoticeEof, NoticeFailedWrite
    <3> QED BY <3>1, EntriesStay
  <2>2. CASE /\ \/ RelayStep(NoticeReset(e)) \/ RelayStep(NoticeEof(e)) \/ RelayStep(NoticeFailedWrite(e))
             /\ ~UNCHANGED <<clients, conn>>
    <3>1. Gone(e)
      <4>1. conn[e] \in {"reset", "eof"} \/ e \in failing
        BY <2>2 DEF RelayStep, NoticeReset, NoticeEof, NoticeFailedWrite
      <4> QED BY <4>1 DEF Gone, DInv, NoneLost
    <3>2. /\ conn' = [conn EXCEPT ![e] = "closed"] \/ conn' = [conn EXCEPT ![e] = "stale"]
          /\ UNCHANGED clients \/ clients' = [clients EXCEPT ![cid[e]] = Nobody]
          /\ UNCHANGED <<cid, rekey>>
      BY <2>2 DEF RelayStep, NoticeReset, NoticeEof, NoticeFailedWrite, Drop, RemoveClient
    <3>3. ASSUME NEW c \in Conns, conn'[c] = "up", cid'[c] \in Users, ~Rekeyed(c)'
          PROVE  clients'[cid'[c]] # Nobody \/ LostWith(c)'
      <4>1. c # e /\ conn[c] = "up" /\ ~Rekeyed(c)
        BY <3>2, <3>3, RelayTypes DEF Rekeyed
      <4>2. CASE cid[c] = cid[e]
        <5>1. Gone(e)' /\ cid'[e] = cid'[c]
          BY <3>1, <3>2, <4>2, OnceGone
        <5> QED BY <4>1, <5>1 DEF LostWith
      <4>3. CASE cid[c] # cid[e]
        <5>1. clients'[cid[c]] = clients[cid[c]]
          BY <3>2, <3>3, <4>3, RelayTypes, IdKinds
        <5> QED BY <3>2, <3>3, <4>1, <5>1, EntryLeft
      <4> QED BY <4>2, <4>3
    <3> QED BY <3>3 DEF EntriesKept
  <2> QED BY <1>7, <2>1, <2>2 DEF RelayStep, RelayWorker
<1> QED BY <1>1, <1>2, <1>3, <1>4, <1>5, <1>6, <1>7 DEF Next, RelayStep, HandleRelayPacket

\* Where no two clients are accepted in one millisecond nobody is ever sent
\* what is addressed to another, whatever accounts are shared and whoever is gone.
THEOREM DeliveredToAddressee ==
  ASSUME OwnMillis
  PROVE  Spec => []Addressed
<1>1. DInv => Addressed
  BY DEF DInv, ReachesOwn, Addressed, ToSet
<1>2. Spec => []DInv
  BY DInductive
<1> QED BY <1>1, <1>2, PTL

\* The relay then ends only after a client or the game server did: no order of
\* logins, rooms and turns makes it look up a client that is not in its map.
THEOREM RelayEndsAfterOthers ==
  ASSUME OwnMillis
  PROVE  Spec => []RelaySurvives
<1>1. DInv => RelaySurvives
  BY DEF DInv, NoneLost, SomeGone, RelaySurvives
<1>2. Spec => []DInv
  BY DInductive
<1> QED BY <1>1, <1>2, PTL

\* A connection that is logged in, on whatever account and however often, has an
\* entry in the relay's map, but while its id is changed, until another window of
\* the same account is gone.
THEOREM EntriesLostTogether ==
  ASSUME OwnMillis
  PROVE  Spec => []LostOnlyWithItsAccount
<1>1. Init => DInv /\ EntriesKept
  <2>1. Init => EntriesKept
    BY DEF Init, LinksInit, EntriesKept
  <2> QED BY <2>1, InitDInv
<1>2. DInv /\ EntriesKept /\ [Next]_vars => DInv' /\ EntriesKept'
  BY NextDInv, NextEntries
<1>3. EntriesKept => LostOnlyWithItsAccount
  BY DEF EntriesKept, LostOnlyWithItsAccount, LostWith, Rekeyed
<1> QED BY <1>1, <1>2, <1>3, PTL DEF Spec

\* If moreover nobody uses the account of another, the relay finds every player
\* who is logged in under the account the player's program believes in.
THEOREM PlayersFound ==
  ASSUME OwnMillis, OwnAccountEach
  PROVE  Spec => []PlayersFindable
<1>1. DInv => PlayersFindable
  <2> SUFFICES ASSUME DInv, NEW c \in Conns, conn[c] = "up", me[c] # Nobody PROVE clients[me[c].id] = c
    BY DEF PlayersFindable, LoggedIn
  <2>1. me[c].id = cid[c] /\ cid[c] \in Users
    BY ConnFacts
  <2>2. ~SharedAccount
    BY DEF DInv, OwnLogins, SharedAccount, OwnAccountEach
  <2>3. PICK at \in LoginStages, i \in Int : LoginAt(c, at, i)
    BY DEF DInv, OneLoginEach
  <2>4. ~Rekeyed(c)
    BY <2>3 DEF LoginAt, Rekeyed
  <2> QED BY <2>1, <2>2, <2>4 DEF DInv, AccountsFindable
<1>2. Spec => []DInv
  BY DInductive
<1> QED BY <1>1, <1>2, PTL
=============================================================================
