------------------------- MODULE ReserveSetupProofs -------------------------
(***************************************************************************)
(* ReserveSetup, for any networks whose markets PlanAssumption describes,  *)
(* and any number of faults: a run without accidental failures sets up     *)
(* everything, whatever earlier runs have left, and a run ends in an error *)
(* of its own only for the causes that are known.                          *)
(*                                                                         *)
(* The reserves of a market have an order, which the groups of 20 and the  *)
(* transactions of 4 follow.  The invariant says what is done of it, as a  *)
(* function of the place in that order a run has reached.                  *)
(***************************************************************************)
EXTENDS ReserveSetup, TLAPS

-----------------------------------------------------------------------------
(* Chunks of a sequence.                                                   *)

ChunkSize(seq, size, c) ==
    IF c * size < Len(seq) THEN size ELSE Len(seq) - (c - 1) * size

\* How many chunks there are.
LEMMA ChunkDomain ==
    ASSUME NEW seq \in Seq(STRING), NEW size \in {4, 20}
    PROVE  /\ (Len(seq) + size - 1) \div size \in Nat
           /\ DOMAIN chunk(seq, size) = 1 .. (Len(seq) + size - 1) \div size
           /\ Len(chunk(seq, size)) = (Len(seq) + size - 1) \div size
  <1> DEFINE k == (Len(seq) + size - 1) \div size
  <1>1. k \in Nat
    OBVIOUS
  <1>2. DOMAIN chunk(seq, size) = 1 .. k
    BY DEF chunk
  <1>3. Len(chunk(seq, size)) = k
    BY <1>1, <1>2 DEF chunk
  <1> QED
    BY <1>1, <1>2, <1>3

\* What a chunk holds: all of them are full but the last one.
LEMMA ChunkElements ==
    ASSUME NEW seq \in Seq(STRING), NEW size \in {4, 20},
           NEW c \in 1 .. (Len(seq) + size - 1) \div size
    PROVE  /\ ChunkSize(seq, size, c) \in 1 .. size
           /\ chunk(seq, size)[c] \in Seq(STRING)
           /\ Len(chunk(seq, size)[c]) = ChunkSize(seq, size, c)
           /\ \A p \in 1 .. ChunkSize(seq, size, c) :
                /\ (c - 1) * size + p \in 1 .. Len(seq)
                /\ chunk(seq, size)[c][p] = seq[(c - 1) * size + p]
  <1> DEFINE k == ChunkSize(seq, size, c)
             first == (c - 1) * size + 1
             last == IF c * size < Len(seq) THEN c * size ELSE Len(seq)
  <1>1. /\ first \in 1 .. Len(seq) /\ last \in first .. Len(seq) /\ k = last - first + 1
        /\ k \in 1 .. size
    <2> DEFINE n == Len(seq)
               m == (c - 1) * size
    <2>1. n \in Nat /\ c \in Nat /\ c # 0
      OBVIOUS
    <2>2. m \in Nat /\ m < n /\ c * size = m + size
      <3>1. CASE size = 4
        <4>1. c <= (n + 3) \div 4 /\ m = (c - 1) * 4 /\ c * size = c * 4
          BY <3>1
        <4> HIDE DEF n, m
        <4> QED
          BY <2>1, <3>1, <4>1
      <3>2. CASE size = 20
        <4>1. c <= (n + 19) \div 20 /\ m = (c - 1) * 20 /\ c * size = c * 20
          BY <3>2
        <4> HIDE DEF n, m
        <4> QED
          BY <2>1, <3>2, <4>1
      <3> QED
        BY <3>1, <3>2
    <2>3. /\ k = IF m + size < n THEN size ELSE n - m
          /\ first = m + 1
          /\ last = IF m + size < n THEN m + size ELSE n
      BY <2>2 DEF ChunkSize
    <2> HIDE DEF n, m, k, first, last
    <2> QED
      BY <2>1, <2>2, <2>3 DEF n
  <1>2. chunk(seq, size)[c] = SubSeq(seq, first, last)
    BY DEF chunk
  <1> HIDE DEF k, first, last
  <1>3. /\ SubSeq(seq, first, last) \in Seq(STRING)
        /\ Len(SubSeq(seq, first, last)) = last - first + 1
        /\ \A p \in 1 .. last - first + 1 : SubSeq(seq, first, last)[p] = seq[first + p - 1]
    BY <1>1
  <1>4. ASSUME NEW p \in 1 .. k
        PROVE  /\ (c - 1) * size + p \in 1 .. Len(seq)
               /\ chunk(seq, size)[c][p] = seq[(c - 1) * size + p]
    <2>1. first + p - 1 = (c - 1) * size + p
      BY DEF first
    <2>2. first + p - 1 \in 1 .. Len(seq) /\ p \in 1 .. last - first + 1
      BY <1>1
    <2> QED
      BY <2>1, <2>2, <1>2, <1>3
  <1> QED
    <2>1. k = last - first + 1 /\ k \in 1 .. size
      BY <1>1
    <2>2. chunk(seq, size)[c] \in Seq(STRING) /\ Len(chunk(seq, size)[c]) = k
      BY <1>2, <1>3, <2>1
    <2> QED
      BY <1>4, <2>1, <2>2 DEF k

-----------------------------------------------------------------------------
(* The reserves of a network in their order, and the groups and            *)
(* transactions they come in.                                              *)

Order(n) == Reserves(Markets[n])

\* The number of the initReserves transaction that lists the i-th reserve.
Block(i) == (i + 3) \div 4

\* What PlanAssumption says of the order.
LEMMA OrderFacts ==
    ASSUME NEW n \in Networks
    PROVE  /\ Order(n) \in Seq(STRING)
           /\ Len(Order(n)) \in Nat \ {0}
           /\ \A i, j \in 1 .. Len(Order(n)) : Order(n)[i] = Order(n)[j] => i = j
           /\ ReservesOf[n] = {Order(n)[i] : i \in 1 .. Len(Order(n))}
  <1>1. Order(n) \in Seq(STRING) \ {<< >>} /\ IsInjective(Order(n))
    BY PlanAssumption DEF Order
  <1>2. Len(Order(n)) \in Nat \ {0} /\ DOMAIN Order(n) = 1 .. Len(Order(n))
    BY <1>1
  <1>3. \A i, j \in 1 .. Len(Order(n)) : Order(n)[i] = Order(n)[j] => i = j
    BY <1>1, <1>2 DEF IsInjective
  <1>4. ReservesOf[n] = {Order(n)[i] : i \in 1 .. Len(Order(n))}
    BY <1>2 DEF ReservesOf, ToSet, Order
  <1> QED
    BY <1>1, <1>2, <1>3, <1>4

\* The groups are the order, 20 by 20: all of them are full but the last one.
LEMMA GroupFacts ==
    ASSUME NEW n \in Networks
    PROVE  /\ Len(GroupsOf[n]) \in Nat \ {0}
           /\ \A g \in 1 .. Len(GroupsOf[n]) :
                /\ GroupsOf[n][g] \in Seq(STRING)
                /\ Len(GroupsOf[n][g]) \in 1 .. 20
                /\ \A p \in 1 .. Len(GroupsOf[n][g]) :
                     /\ (g - 1) * 20 + p \in 1 .. Len(Order(n))
                     /\ GroupsOf[n][g][p] = Order(n)[(g - 1) * 20 + p]
                /\ g < Len(GroupsOf[n]) => Len(GroupsOf[n][g]) = 20
                /\ g = Len(GroupsOf[n]) => (g - 1) * 20 + Len(GroupsOf[n][g]) = Len(Order(n))
  <1> DEFINE N == Len(Order(n))
  <1>1. GroupsOf[n] = chunk(Order(n), 20)
    BY DEF GroupsOf, Groups, Order
  <1>2. N \in Nat \ {0} /\ Order(n) \in Seq(STRING)
    BY OrderFacts
  <1>3. Len(GroupsOf[n]) = (N + 20 - 1) \div 20
    BY <1>1, <1>2, ChunkDomain
  <1>4. Len(GroupsOf[n]) \in Nat \ {0}
    <2> HIDE DEF N
    <2> QED
      BY <1>2, <1>3
  <1>5. ASSUME NEW g \in 1 .. Len(GroupsOf[n])
        PROVE  /\ ChunkSize(Order(n), 20, g) \in 1 .. 20
               /\ GroupsOf[n][g] \in Seq(STRING)
               /\ Len(GroupsOf[n][g]) = ChunkSize(Order(n), 20, g)
               /\ \A p \in 1 .. ChunkSize(Order(n), 20, g) :
                    /\ (g - 1) * 20 + p \in 1 .. Len(Order(n))
                    /\ GroupsOf[n][g][p] = Order(n)[(g - 1) * 20 + p]
    BY <1>1, <1>2, <1>3, ChunkElements
  <1>6. ASSUME NEW g \in 1 .. Len(GroupsOf[n])
        PROVE  /\ g < Len(GroupsOf[n]) => ChunkSize(Order(n), 20, g) = 20
               /\ g = Len(GroupsOf[n]) => (g - 1) * 20 + ChunkSize(Order(n), 20, g) = N
    <2>1. ChunkSize(Order(n), 20, g) = IF g * 20 < N THEN 20 ELSE N - (g - 1) * 20
      BY DEF ChunkSize
    <2> HIDE DEF N
    <2> QED
      BY <1>2, <1>3, <1>4, <2>1
  <1> QED
    BY <1>4, <1>5, <1>6

\* The reserves of a group.
LEMMA GroupMembers ==
    ASSUME NEW n \in Networks, NEW g \in 1 .. Len(GroupsOf[n])
    PROVE  /\ ToSet(GroupsOf[n][g]) =
                {Order(n)[i] : i \in (g - 1) * 20 + 1 .. (g - 1) * 20 + Len(GroupsOf[n][g])}
           /\ ToSet(GroupsOf[n][g]) \subseteq ReservesOf[n]
  <1> DEFINE G == GroupsOf[n][g]
             b == (g - 1) * 20
             N == Len(Order(n))
  <1>1. /\ G \in Seq(STRING) /\ Len(G) \in 1 .. 20
        /\ \A p \in 1 .. Len(G) : b + p \in 1 .. N /\ G[p] = Order(n)[b + p]
    BY GroupFacts
  <1>2. b \in Nat
    BY GroupFacts
  <1>3. ToSet(G) = {G[p] : p \in 1 .. Len(G)}
    BY <1>1 DEF ToSet
  <1>4. ReservesOf[n] = {Order(n)[i] : i \in 1 .. N}
    BY OrderFacts
  <1> HIDE DEF G, b, N
  <1>5. {G[p] : p \in 1 .. Len(G)} = {Order(n)[i] : i \in b + 1 .. b + Len(G)}
    <2>1. ASSUME NEW i \in b + 1 .. b + Len(G)
          PROVE  i - b \in 1 .. Len(G) /\ Order(n)[i] = G[i - b]
      <3>1. Len(G) \in Nat
        BY <1>1
      <3>2. i - b \in 1 .. Len(G) /\ b + (i - b) = i
        BY <1>2, <3>1
      <3> QED
        BY <1>1, <3>2
    <2>2. ASSUME NEW p \in 1 .. Len(G)
          PROVE  b + p \in b + 1 .. b + Len(G) /\ G[p] = Order(n)[b + p]
      BY <1>1, <1>2
    <2>3. {G[p] : p \in 1 .. Len(G)} \subseteq {Order(n)[i] : i \in b + 1 .. b + Len(G)}
      BY <2>2
    <2>4. {Order(n)[i] : i \in b + 1 .. b + Len(G)} \subseteq {G[p] : p \in 1 .. Len(G)}
      BY <2>1
    <2> QED
      BY <2>3, <2>4
  <1>6. ToSet(G) \subseteq ReservesOf[n]
    BY <1>1, <1>3, <1>4
  <1> QED
    BY <1>3, <1>5, <1>6 DEF G, b

\* One transaction lists the reserves with the number of the last that was prepared.
LEMMA ChunkMembers ==
    ASSUME NEW n \in Networks, NEW g \in 1 .. Len(GroupsOf[n]),
           NEW p \in 2 .. Len(GroupsOf[n][g]) + 1
    PROVE  LET place == (g - 1) * 20 + p
           IN  ToSet(chunk(GroupsOf[n][g], 4)[(p + 2) \div 4]) =
                 {Order(n)[i] : i \in {j \in 1 .. Len(Order(n)) : Block(j) = Block(place - 1)}}
  <1> DEFINE G == GroupsOf[n][g]
             b == (g - 1) * 20
             N == Len(Order(n))
             c == (p + 2) \div 4
             k == ChunkSize(G, 4, c)
             S == {j \in 1 .. N : Block(j) = Block(b + p - 1)}
  <1>1. /\ G \in Seq(STRING) /\ Len(G) \in 1 .. 20
        /\ \A q \in 1 .. Len(G) : b + q \in 1 .. N /\ G[q] = Order(n)[b + q]
        /\ Len(G) < 20 => b + Len(G) = N
        /\ N \in Nat
        /\ p \in 2 .. Len(G) + 1
    <2>0. Len(GroupsOf[n]) \in Nat /\ Len(G) \in 1 .. 20 /\ (g < Len(GroupsOf[n]) => Len(G) = 20)
      BY GroupFacts
    <2>1. Len(G) \in 1 .. 20 /\ (Len(G) < 20 => g = Len(GroupsOf[n]))
      <3> DEFINE l == Len(G)
                 L == Len(GroupsOf[n])
      <3>1. L \in Nat /\ l \in 1 .. 20 /\ g \in 1 .. L /\ (g < L => l = 20)
        BY <2>0
      <3> HIDE DEF l, L
      <3>2. l \in 1 .. 20 /\ (l < 20 => g = L)
        BY <3>1
      <3> QED
        BY <3>2 DEF l, L
    <2>2. Len(G) < 20 => b + Len(G) = N
      BY <2>1, GroupFacts
    <2>3. N \in Nat
      BY OrderFacts
    <2> QED
      BY <2>1, <2>2, <2>3, GroupFacts
  <1>2. g \in Nat /\ g >= 1 /\ b = (g - 1) * 20
    BY GroupFacts
  <1>3. c \in 1 .. (Len(G) + 4 - 1) \div 4
    <2> HIDE DEF G
    <2> QED
      BY <1>1
  <1>4. /\ k \in 1 .. 4
        /\ chunk(G, 4)[c] \in Seq(STRING)
        /\ Len(chunk(G, 4)[c]) = k
        /\ \A q \in 1 .. k : /\ (c - 1) * 4 + q \in 1 .. Len(G)
                              /\ chunk(G, 4)[c][q] = G[(c - 1) * 4 + q]
    <2> HIDE DEF G, c
    <2> QED
      BY <1>1, <1>3, ChunkElements DEF k
  <1>5. k = IF c * 4 < Len(G) THEN 4 ELSE Len(G) - (c - 1) * 4
    BY DEF ChunkSize
  <1>6. ToSet(chunk(G, 4)[c]) = {chunk(G, 4)[c][q] : q \in 1 .. k}
    <2> HIDE DEF c, k
    <2>1. DOMAIN chunk(G, 4)[c] = 1 .. k
      BY <1>4
    <2> QED
      BY <2>1 DEF ToSet
  <1>7. c \in Nat /\ c >= 1 /\ 4 * c <= p + 2 /\ p + 2 < 4 * c + 4 /\ p \in 2 .. Len(G) + 1
    <2> HIDE DEF G
    <2> QED
      BY <1>1
  <1>8. ASSUME NEW j \in 1 .. N
        PROVE  Block(j) = Block(b + p - 1) <=> j \in b + (c - 1) * 4 + 1 .. b + (c - 1) * 4 + 4
    <2> HIDE DEF G, N, c, k
    <2>1. Block(b + p - 1) = (g - 1) * 5 + c
      BY <1>1, <1>2, <1>7 DEF Block
    <2> HIDE DEF b
    <2> QED
      BY <1>1, <1>2, <1>7, <2>1 DEF Block
  <1>9. ASSUME NEW q \in 1 .. k
        PROVE  /\ b + (c - 1) * 4 + q \in S
               /\ chunk(G, 4)[c][q] = Order(n)[b + (c - 1) * 4 + q]
    <2>1. (c - 1) * 4 + q \in 1 .. Len(G) /\ chunk(G, 4)[c][q] = G[(c - 1) * 4 + q]
      BY <1>4
    <2>2. b + ((c - 1) * 4 + q) \in 1 .. N /\ G[(c - 1) * 4 + q] = Order(n)[b + ((c - 1) * 4 + q)]
      BY <1>1, <2>1
    <2>3. b + ((c - 1) * 4 + q) = b + (c - 1) * 4 + q
      <3> HIDE DEF G, N, c, k
      <3> QED
        BY <1>2, <1>4, <1>7
    <2>4. b + (c - 1) * 4 + q \in b + (c - 1) * 4 + 1 .. b + (c - 1) * 4 + 4
      <3> HIDE DEF G, N, c, k
      <3> QED
        BY <1>2, <1>4, <1>7
    <2> QED
      BY <2>1, <2>2, <2>3, <2>4, <1>8
  <1>10. ASSUME NEW j \in S
         PROVE  j - b - (c - 1) * 4 \in 1 .. k
    <2>1. j \in 1 .. N /\ j \in b + (c - 1) * 4 + 1 .. b + (c - 1) * 4 + 4
      BY <1>8
    <2>2. Len(G) < 20 => j <= b + Len(G)
      <3> HIDE DEF G, N, c, k, S, b
      <3> QED
        BY <1>1, <2>1
    <2>3. Len(G) \in 1 .. 20 /\ b \in Nat
      BY <1>1, <1>2
    <2> DEFINE l == Len(G)
    <2>4. k = IF c * 4 < l THEN 4 ELSE l - (c - 1) * 4
      BY <1>5
    <2>5. c \in Nat /\ c >= 1 /\ 4 * c <= l + 3 /\ l \in 1 .. 20 /\ (l < 20 => j <= b + l)
      <3>1. l \in 1 .. 20 /\ p \in 2 .. l + 1 /\ c \in Nat /\ c >= 1 /\ 4 * c <= p + 2
        BY <1>7, <2>3
      <3>2. l < 20 => j <= b + l
        BY <2>2
      <3> HIDE DEF l, c, b
      <3> QED
        BY <3>1, <3>2
    <2> HIDE DEF G, N, c, k, S, b, l
    <2> QED
      BY <2>1, <2>3, <2>4, <2>5
  <1>11. ASSUME NEW j \in S
         PROVE  \E q \in 1 .. k : Order(n)[j] = chunk(G, 4)[c][q]
    <2> DEFINE q == j - b - (c - 1) * 4
    <2>1. b + (c - 1) * 4 + q = j /\ q \in 1 .. k
      <3>1. j \in Nat
        BY <1>1
      <3> HIDE DEF G, N, c, k, S
      <3> QED
        BY <1>2, <1>7, <1>10, <3>1
    <2> HIDE DEF G, N, c, k, S, q, b
    <2> QED
      BY <1>9, <2>1
  <1>12. {chunk(G, 4)[c][q] : q \in 1 .. k} = {Order(n)[i] : i \in S}
    <2> HIDE DEF G, N, c, k, S, b
    <2>1. {chunk(G, 4)[c][q] : q \in 1 .. k} \subseteq {Order(n)[i] : i \in S}
      BY <1>9
    <2>2. {Order(n)[i] : i \in S} \subseteq {chunk(G, 4)[c][q] : q \in 1 .. k}
      BY <1>11
    <2> QED
      BY <2>1, <2>2
  <1> HIDE DEF k
  <1>13. ToSet(chunk(G, 4)[c]) = {Order(n)[i] : i \in S}
    BY <1>6, <1>12
  <1> QED
    BY <1>13

-----------------------------------------------------------------------------
(* The invariant.                                                          *)

Configuring == {"plan", "addAdmin", "configure", "removeAdmin"}
Working == {"prepare", "init"} \union Configuring

\* The place of the run in the order, and how many reserves there are.
Place == (group - 1) * 20 + pos
Count == Len(Order(network))

\* Where a run can be, and what the variables can hold.
PlaceOK ==
    /\ network \in Networks
    /\ pc \in Working \union {"oracle", "done", "aborted", "crashed"}
    /\ group \in 1 .. Len(GroupsOf[network])
    /\ pos \in Nat
    /\ pc = "prepare" => pos \in 1 .. Len(Group)
    /\ pc = "init" => /\ pos \in 2 .. Len(Group) + 1
                      /\ pos = Len(Group) + 1 \/ (pos - 1) % 4 = 0
    /\ pc \in Configuring => pos = Len(Group) + 1
    /\ pc = "oracle" => group = 1 /\ pos = 1

ChainOK ==
    /\ listed \subseteq ReservesOf[network]
    /\ configured \subseteq ReservesOf[network]
    /\ supplied \subseteq listed
    /\ faults \in Nat
    /\ priced \in BOOLEAN /\ clean \in BOOLEAN /\ helperIsPoolAdmin \in BOOLEAN

\* What is different from a run without any accident has one.
AccidentsCount ==
    /\ ~clean => faults > 0
    /\ pc = "crashed" => faults > 0
    /\ helperIsPoolAdmin => faults > 0 \/ pc \in {"configure", "removeAdmin"}

\* No reserve before the prices.
OracleFirst ==
    /\ pc = "oracle" => ~priced
    /\ pc \in Working \union {"done"} => priced
    /\ priced => OracleCanBeDeployed(market)
    /\ ~priced => listed = {} /\ apeProxies = {}

\* The reserves of one transaction are listed together.
WholeChunks ==
    \A i, j \in 1 .. Count :
        Block(i) = Block(j) /\ Order(network)[i] \in listed => Order(network)[j] \in listed

ListedUpTo(k) == \A i \in 1 .. Count : i <= k => Order(network)[i] \in listed

\* A run without accidental failures has listed what it has passed.
ListedSoFar ==
    clean =>
      /\ pc = "prepare" => ListedUpTo(4 * ((Place - 1) \div 4))
      /\ pc = "init" => ListedUpTo(4 * ((Place - 2) \div 4))
      /\ pc \in Configuring => ListedUpTo(Place - 1)
      /\ pc = "done" => ListedUpTo(Count)

GroupConfigured(g) ==
    ToSet(GroupsOf[network][g]) \cap supplied = {}
      => ToSet(GroupsOf[network][g]) \subseteq configured

\* And it has configured the groups behind it.
ConfiguredSoFar ==
    clean =>
      /\ pc \in Working => \A g \in 1 .. Len(GroupsOf[network]) : g < group => GroupConfigured(g)
      /\ pc = "removeAdmin" => GroupConfigured(group)
      /\ pc = "done" => \A g \in 1 .. Len(GroupsOf[network]) : GroupConfigured(g)

\* What is left out of the configuration of a group is configured.
PlanComplete ==
    pc \in {"addAdmin", "configure"} =>
        todo \subseteq ToSet(Group) /\ ToSet(Group) \ todo \subseteq configured

\* Without an accident and without a supply no run is repeated once it has the prices: it
\* meets every vault for the first time.
FirstRun ==
    faults = 0 /\ supplied = {} /\ priced =>
      /\ pc # "aborted"
      /\ pc \in Working =>
            apeProxies \subseteq {Order(network)[i] : i \in {j \in 1 .. Count : j < Place}}

SetupInv ==
    /\ PlaceOK /\ ChainOK /\ AccidentsCount /\ OracleFirst /\ WholeChunks
    /\ ListedSoFar /\ ConfiguredSoFar /\ PlanComplete /\ FirstRun /\ AbortHasCause

-----------------------------------------------------------------------------
(* What the actions need of the place they are at.                         *)

\* The group a run is at.
LEMMA GroupHere ==
    ASSUME PlaceOK
    PROVE  /\ Count \in Nat \ {0}
           /\ group \in Nat \ {0} /\ Len(GroupsOf[network]) \in Nat \ {0}
           /\ Len(Group) \in 1 .. 20
           /\ group < Len(GroupsOf[network]) => Len(Group) = 20
           /\ group = Len(GroupsOf[network]) => (group - 1) * 20 + Len(Group) = Count
           /\ \A p \in 1 .. Len(Group) :
                /\ (group - 1) * 20 + p \in 1 .. Count
                /\ Group[p] = Order(network)[(group - 1) * 20 + p]
  <1>1. network \in Networks /\ group \in 1 .. Len(GroupsOf[network])
    BY DEF PlaceOK
  <1>2. Len(GroupsOf[network]) \in Nat \ {0} /\ Count \in Nat \ {0}
    BY <1>1, GroupFacts, OrderFacts DEF Count
  <1>3. group \in Nat \ {0}
    BY <1>1, <1>2
  <1> QED
    BY <1>1, <1>2, <1>3, GroupFacts DEF Group, Count

\* Before the first run.
LEMMA InitInv == Init => SetupInv
  <1> SUFFICES ASSUME Init PROVE SetupInv
    OBVIOUS
  <1>1. network \in Networks /\ pc = "oracle" /\ group = 1 /\ pos = 1
    BY DEF Init
  <1>2. Len(GroupsOf[network]) \in Nat \ {0}
    BY <1>1, GroupFacts
  <1>3. PlaceOK
    BY <1>1, <1>2 DEF PlaceOK, Working, Configuring
  <1>4. ChainOK /\ AccidentsCount
    BY DEF Init, ChainOK, AccidentsCount
  <1>5. OracleFirst
    BY DEF Init, OracleFirst, Working, Configuring
  <1>6. WholeChunks
    BY DEF Init, WholeChunks
  <1>7. ListedSoFar /\ ConfiguredSoFar
    BY <1>1 DEF ListedSoFar, ConfiguredSoFar, Working, Configuring
  <1>8. PlanComplete /\ FirstRun /\ AbortHasCause
    BY <1>1 DEF Init, PlanComplete, FirstRun, AbortHasCause
  <1> QED
    BY <1>3, <1>4, <1>5, <1>6, <1>7, <1>8 DEF SetupInv

-----------------------------------------------------------------------------
(* The steps of the script.                                                *)

\* Step 10: with a source for every token the oracle has the feed of the network too.
LEMMA DeployOracleInv ==
    ASSUME SetupInv, DeployOracle
    PROVE  SetupInv'
  <1> USE DEF SetupInv
  <1>1. /\ pc = "oracle" /\ ~priced /\ group = 1 /\ pos = 1 /\ network \in Networks
        /\ listed = {} /\ apeProxies = {}
    BY DEF DeployOracle, PlaceOK, OracleFirst
  <1>2. /\ group' = group /\ pos' = pos /\ todo' = todo /\ network' = network
        /\ listed' = listed /\ configured' = configured /\ apeProxies' = apeProxies
        /\ helperIsPoolAdmin' = helperIsPoolAdmin /\ supplied' = supplied
        /\ faults' = faults /\ clean' = clean
    BY DEF DeployOracle
  <1>3. \/ pc' = "prepare" /\ priced' = TRUE /\ OracleCanBeDeployed(market)
        \/ pc' = "aborted" /\ priced' = priced /\ ~OracleCanBeDeployed(market)
    <2>1. OracleCanBeDeployed(market) => HasNetworkFeed(market)
      BY <1>1, PlanAssumption DEF market
    <2> QED
      BY <2>1 DEF DeployOracle
  <1>4. Len(Group) \in 1 .. 20
    BY GroupHere
  <1>5. PlaceOK'
    <2>1. Group' = Group /\ pos \in 1 .. Len(Group)
      <3>1. Group' = Group
        BY <1>2 DEF Group
      <3>2. pos = 1 /\ Len(Group) \in 1 .. 20
        BY <1>1, <1>4
      <3>3. pos \in 1 .. Len(Group)
        BY <3>2
      <3> QED
        BY <3>1, <3>3
    <2> HIDE DEF Group
    <2> QED
      BY <1>1, <1>2, <1>3, <2>1 DEF PlaceOK, Working, Configuring
  <1>6. ChainOK' /\ AccidentsCount'
    BY <1>1, <1>2, <1>3 DEF ChainOK, AccidentsCount
  <1>7. OracleFirst'
    BY <1>1, <1>2, <1>3 DEF OracleFirst, Working, Configuring, market
  <1>8. WholeChunks'
    BY <1>1, <1>2 DEF WholeChunks
  <1>9. ListedSoFar'
    BY <1>1, <1>2, <1>3 DEF ListedSoFar, Configuring, ListedUpTo, Place, Count
  <1>10. ConfiguredSoFar'
    BY <1>1, <1>2, <1>3 DEF ConfiguredSoFar, Configuring, Working
  <1>11. PlanComplete'
    BY <1>3 DEF PlanComplete
  <1>12. FirstRun'
    BY <1>1, <1>2, <1>3 DEF FirstRun
  <1>13. AbortHasCause'
    <2>1. CASE pc' = "prepare"
      BY <2>1 DEF AbortHasCause
    <2>2. CASE ~OracleCanBeDeployed(market)
      <3>1. \E s \in getAllTokens(Markets[network]) : PriceSource(Markets[network], s) = "none"
        BY <2>2 DEF OracleCanBeDeployed, market
      <3>2. deployAllAggregators[network] =
              [s \in getAllTokens(Markets[network]) |-> PriceSource(Markets[network], s)]
        BY <1>1 DEF deployAllAggregators
      <3>3. \E s \in DOMAIN deployAllAggregators[network] : deployAllAggregators[network][s] = "none"
        BY <3>1, <3>2
      <3> QED
        BY <1>2, <3>3 DEF AbortHasCause
    <2> QED
      BY <1>3, <2>1, <2>2
  <1> QED
    BY <1>5, <1>6, <1>7, <1>8, <1>9, <1>10, <1>11, <1>12, <1>13

\* Where PrepareReserve stops for good, when it does.
LEMMA PrepareFails ==
    ASSUME SetupInv, pc = "prepare", ~CanPrepare(Group[pos])
    PROVE  \/ apeProxies # {} /\ (faults > 0 \/ supplied # {})
           \/ ~clean /\ ~({"BAYC", "MAYC"} \subseteq listed)
  <1> USE DEF SetupInv
  <1> DEFINE s == Group[pos]
             R == Order(network)
  <1>1. /\ Place \in 1 .. Count /\ s = R[Place] /\ network \in Networks
        /\ Count \in Nat /\ DOMAIN R = 1 .. Count
    BY GroupHere, OrderFacts DEF PlaceOK, Place, Count
  <1>2. CASE s \in {"cAPE", "yAPE"} /\ s \in apeProxies
    <2>1. ASSUME faults = 0, supplied = {}
          PROVE  FALSE
      <3>1. s \in {R[i] : i \in {j \in 1 .. Count : j < Place}}
        BY <1>2, <2>1 DEF FirstRun, OracleFirst, Working
      <3>2. PICK i \in 1 .. Count : i < Place /\ R[i] = R[Place]
        BY <1>1, <3>1
      <3>3. i = Place
        BY <1>1, <3>2, OrderFacts DEF Count
      <3> QED
        BY <1>1, <3>2, <3>3
    <2> QED
      BY <1>2, <2>1 DEF ChainOK
  <1>3. CASE s \in {"sAPE", "BAKC"} /\ ~({"BAYC", "MAYC"} \subseteq listed)
    <2>1. ASSUME clean
          PROVE  {"BAYC", "MAYC"} \subseteq listed
      <3>1. ListedUpTo(4 * ((Place - 1) \div 4))
        BY <2>1 DEF ListedSoFar
      <3>2. {"BAYC", "MAYC"} \subseteq {R[j] : j \in 1 .. 4 * ((Place - 1) \div 4)}
        <4>1. ApesComeFirst(R)
          BY <1>1, PlanAssumption DEF Order
        <4> QED
          BY <1>1, <1>3, <4>1 DEF ApesComeFirst
      <3>3. \A j \in 1 .. 4 * ((Place - 1) \div 4) :
              j \in 1 .. Count /\ j <= 4 * ((Place - 1) \div 4)
        BY <1>1
      <3> QED
        BY <3>1, <3>2, <3>3 DEF ListedUpTo
    <2> QED
      BY <1>3, <2>1 DEF ChainOK
  <1>4. \/ s \in {"cAPE", "yAPE"} /\ s \in apeProxies
        \/ s \in {"sAPE", "BAKC"} /\ ~({"BAYC", "MAYC"} \subseteq listed)
    BY DEF CanPrepare
  <1> QED
    BY <1>2, <1>3, <1>4

\* The contracts of one reserve are deployed, or the run ends.
LEMMA PrepareReserveInv ==
    ASSUME SetupInv, PrepareReserve
    PROVE  SetupInv'
  <1> USE DEF SetupInv
  <1>1. /\ pc = "prepare" /\ priced /\ network \in Networks
        /\ pos \in 1 .. Len(Group) /\ Len(Group) \in 1 .. 20 /\ group \in Nat \ {0}
        /\ Place \in 1 .. Count /\ Count \in Nat /\ Group[pos] = Order(network)[Place]
    BY GroupHere DEF PrepareReserve, PlaceOK, Place, OracleFirst, Working
  <1>2. /\ group' = group /\ network' = network
        /\ listed' = listed /\ configured' = configured /\ priced' = priced
        /\ helperIsPoolAdmin' = helperIsPoolAdmin /\ supplied' = supplied
        /\ faults' = faults /\ clean' = clean
        /\ Group' = Group /\ Count' = Count
    BY DEF PrepareReserve, Throw, Group, Count
  <1>3. CASE ~CanPrepare(Group[pos])
    <2>1. pc' = "aborted" /\ pos' = pos /\ apeProxies' = apeProxies
      BY <1>3 DEF PrepareReserve, Throw
    <2>2. \/ apeProxies # {} /\ (faults > 0 \/ supplied # {})
          \/ ~clean /\ ~({"BAYC", "MAYC"} \subseteq listed)
      BY <1>1, <1>3, PrepareFails
    <2>3. PlaceOK'
      BY <1>2, <2>1 DEF PlaceOK, Working, Configuring
    <2>4. ChainOK' /\ AccidentsCount' /\ OracleFirst' /\ WholeChunks'
      BY <1>1, <1>2, <2>1 DEF ChainOK, AccidentsCount, OracleFirst, WholeChunks, Working,
                              Configuring, market
    <2>5. ListedSoFar' /\ ConfiguredSoFar' /\ PlanComplete'
      BY <2>1 DEF ListedSoFar, ConfiguredSoFar, PlanComplete, Working, Configuring
    <2>6. FirstRun'
      BY <1>2, <2>1, <2>2 DEF FirstRun, AccidentsCount, ChainOK
    <2>7. AbortHasCause'
      BY <1>2, <2>1, <2>2 DEF AbortHasCause
    <2> QED
      BY <2>3, <2>4, <2>5, <2>6, <2>7
  <1>4. CASE CanPrepare(Group[pos])
    <2>1. /\ pos' = pos + 1
          /\ apeProxies' \subseteq apeProxies \union {Group[pos]}
          /\ \/ pc' = "init" /\ (pos % 4 = 0 \/ pos = Len(Group))
             \/ pc' = "prepare" /\ pos % 4 # 0 /\ pos # Len(Group)
      BY <1>4 DEF PrepareReserve
    <2>2. Place' = Place + 1
      BY <1>1, <1>2, <2>1 DEF Place
    <2>3. PlaceOK'
      <3>1. CASE pc' = "init"
        BY <1>1, <1>2, <2>1, <3>1 DEF PlaceOK, Working, Configuring
      <3>2. CASE pc' = "prepare"
        BY <1>1, <1>2, <2>1, <3>2 DEF PlaceOK, Working, Configuring
      <3> QED
        BY <2>1, <3>1, <3>2
    <2>4. ChainOK' /\ AccidentsCount' /\ OracleFirst' /\ WholeChunks'
      BY <1>1, <1>2, <2>1 DEF ChainOK, AccidentsCount, OracleFirst, WholeChunks, Working,
                              Configuring, market
    <2>5. ListedSoFar'
      <3> DEFINE k == 4 * ((Place - 1) \div 4)
      <3>1. clean => ListedUpTo(k)
        BY <1>1 DEF ListedSoFar
      <3>2. clean' => \A i \in 1 .. Count' : i <= k => Order(network)'[i] \in listed'
        BY <1>2, <3>1 DEF ListedUpTo
      <3>3. pc' = "init" => 4 * ((Place' - 2) \div 4) = k
        BY <1>1, <2>2
      <3>4. pc' = "prepare" => 4 * ((Place' - 1) \div 4) = k
        BY <1>1, <2>1, <2>2 DEF Place
      <3> HIDE DEF k
      <3> QED
        BY <2>1, <3>2, <3>3, <3>4 DEF ListedSoFar, ListedUpTo, Configuring
    <2>6. ConfiguredSoFar' /\ PlanComplete'
      BY <1>1, <1>2, <2>1 DEF ConfiguredSoFar, GroupConfigured, PlanComplete, Working, Configuring
    <2>7. FirstRun'
      <3>1. ASSUME faults' = 0, supplied' = {}
            PROVE  apeProxies' \subseteq {Order(network)[i] : i \in {j \in 1 .. Count : j < Place + 1}}
        <4>1. apeProxies \subseteq {Order(network)[i] : i \in {j \in 1 .. Count : j < Place}}
          BY <1>1, <1>2, <3>1 DEF FirstRun, Working
        <4> QED
          BY <1>1, <2>1, <4>1
      <3> QED
        BY <1>2, <2>1, <2>2, <3>1 DEF FirstRun
    <2>8. AbortHasCause'
      BY <2>1 DEF AbortHasCause
    <2> QED
      BY <2>3, <2>4, <2>5, <2>6, <2>7, <2>8
  <1> QED
    BY <1>3, <1>4

\* The reserves of the transaction that InitReserves sends.
LEMMA ChunkHere ==
    ASSUME PlaceOK, pc = "init"
    PROVE  /\ Place - 1 \in 1 .. Count
           /\ Chunk = {Order(network)[i] : i \in {j \in 1 .. Count : Block(j) = Block(Place - 1)}}
           /\ \A j \in 1 .. Count : Order(network)[j] \in Chunk <=> Block(j) = Block(Place - 1)
  <1>1. network \in Networks /\ group \in 1 .. Len(GroupsOf[network])
    BY DEF PlaceOK
  <1>2. pos \in 2 .. Len(Group) + 1 /\ Len(Group) \in 1 .. 20 /\ pos - 1 \in 1 .. Len(Group)
    BY GroupHere DEF PlaceOK
  <1>3. (group - 1) * 20 + (pos - 1) \in 1 .. Count
    BY <1>2, GroupHere
  <1>4. Place - 1 \in 1 .. Count
    <2>1. group \in Nat /\ pos \in Nat
      BY <1>2, GroupHere
    <2> QED
      BY <1>3, <2>1 DEF Place
  <1>5. Chunk = {Order(network)[i] : i \in {j \in 1 .. Count : Block(j) = Block(Place - 1)}}
    <2>1. pos \in 2 .. Len(GroupsOf[network][group]) + 1
      BY <1>2 DEF Group
    <2> QED
      BY <1>1, <2>1, ChunkMembers DEF Chunk, Group, Place, Count
  <1>6. \A j \in 1 .. Count : Order(network)[j] \in Chunk <=> Block(j) = Block(Place - 1)
    BY <1>1, <1>5, OrderFacts DEF Count
  <1> QED
    BY <1>4, <1>5, <1>6

\* One transaction of initReserves: what an earlier run listed of it is all of it.
LEMMA InitReservesInv ==
    ASSUME SetupInv, InitReserves
    PROVE  SetupInv'
  <1> USE DEF SetupInv
  <1>1. /\ pc = "init" /\ priced /\ network \in Networks
        /\ pos \in 2 .. Len(Group) + 1 /\ Len(Group) \in 1 .. 20 /\ group \in Nat \ {0}
        /\ pos = Len(Group) + 1 \/ (pos - 1) % 4 = 0
        /\ Count \in Nat
    BY GroupHere DEF InitReserves, PlaceOK, OracleFirst, Working
  <1>2. /\ group' = group /\ network' = network /\ pos' = pos /\ todo' = todo
        /\ configured' = configured /\ priced' = priced /\ apeProxies' = apeProxies
        /\ helperIsPoolAdmin' = helperIsPoolAdmin /\ supplied' = supplied
        /\ Group' = Group /\ Count' = Count /\ Place' = Place /\ Order(network)' = Order(network)
    BY DEF InitReserves, Group, Count, Place
  <1>3. \/ pc' = "plan" /\ pos = Len(Group) + 1
        \/ pc' = "prepare" /\ pos \in 1 .. Len(Group)
    BY <1>1 DEF InitReserves
  <1>4. \/ /\ listed' = IF Chunk \cap listed = {} THEN listed \union Chunk ELSE listed
           /\ faults' = faults /\ clean' = clean
        \/ listed' = listed /\ faults' = faults + 1 /\ clean' = FALSE
    BY DEF InitReserves
  <1>5. PlaceOK'
    BY <1>1, <1>2, <1>3 DEF PlaceOK, Working, Configuring
  <1>6. ChainOK' /\ AccidentsCount' /\ OracleFirst'
    <2>1. Chunk \subseteq ReservesOf[network]
      BY <1>1, ChunkHere, OrderFacts DEF Count
    <2>2. ChainOK'
      <3>1. listed \subseteq listed' /\ listed' \subseteq ReservesOf[network]
        BY <1>4, <2>1 DEF ChainOK
      <3>2. faults' \in Nat /\ clean' \in BOOLEAN
        <4>1. faults \in Nat /\ clean \in BOOLEAN
          BY DEF ChainOK
        <4>2. faults' = faults \/ faults' = faults + 1
          BY <1>4
        <4>3. clean' = clean \/ clean' = FALSE
          BY <1>4
        <4>4. faults' \in Nat
          BY <4>1, <4>2
        <4>5. clean' \in BOOLEAN
          BY <4>1, <4>3
        <4> QED
          BY <4>4, <4>5
      <3> QED
        BY <1>2, <3>1, <3>2 DEF ChainOK
    <2>3. AccidentsCount'
      BY <1>1, <1>2, <1>3, <1>4 DEF AccidentsCount, ChainOK
    <2>4. OracleFirst'
      BY <1>1, <1>2, <1>3 DEF OracleFirst, Working, Configuring, market
    <2> QED
      BY <2>2, <2>3, <2>4
  <1>7. WholeChunks'
    <2>1. ASSUME NEW i \in 1 .. Count, NEW j \in 1 .. Count, Block(i) = Block(j),
                 Order(network)[i] \in listed'
          PROVE  Order(network)[j] \in listed'
      <3>1. CASE Order(network)[i] \in listed
        BY <1>4, <2>1, <3>1 DEF WholeChunks
      <3>2. CASE Order(network)[i] \notin listed
        BY <1>1, <1>4, <2>1, <3>2, ChunkHere
      <3> QED
        BY <3>1, <3>2
    <2> QED
      BY <1>2, <2>1 DEF WholeChunks
  <1>8. ListedSoFar'
    <2>1. ASSUME clean'
          PROVE  \A i \in 1 .. Count : i <= Place - 1 => Order(network)[i] \in listed'
      <3>1. clean /\ listed' = IF Chunk \cap listed = {} THEN listed \union Chunk ELSE listed
        BY <1>4, <2>1
      <3>2. ASSUME NEW i \in 1 .. Count, i <= Place - 1
            PROVE  Order(network)[i] \in listed'
        <4>1. CASE i <= 4 * ((Place - 2) \div 4)
          BY <1>1, <3>1, <4>1 DEF ListedSoFar, ListedUpTo
        <4>2. CASE Block(i) = Block(Place - 1)
          <5>1. Order(network)[i] \in Chunk
            BY <1>1, <4>2, ChunkHere
          <5>2. CASE Chunk \cap listed # {}
            <6>1. PICK j \in 1 .. Count : Block(j) = Block(Place - 1) /\ Order(network)[j] \in listed
              BY <1>1, <5>2, ChunkHere
            <6> QED
              BY <3>1, <4>2, <6>1 DEF WholeChunks
          <5> QED
            BY <3>1, <5>1, <5>2
        <4>3. i <= 4 * ((Place - 2) \div 4) \/ Block(i) = Block(Place - 1)
          <5>1. Place - 1 \in 1 .. Count /\ Place \in Nat
            BY <1>1, ChunkHere DEF Place
          <5> QED
            BY <3>2, <5>1, <1>1 DEF Block
        <4> QED
          BY <4>1, <4>2, <4>3
      <3> QED
        BY <3>2
    <2>2. pc' = "prepare" => 4 * ((Place - 1) \div 4) = Place - 1
      BY <1>1, <1>3 DEF Place
    <2> QED
      BY <1>2, <1>3, <2>1, <2>2 DEF ListedSoFar, ListedUpTo, Configuring
  <1>9. ConfiguredSoFar' /\ PlanComplete' /\ AbortHasCause'
    <2>1. clean' => clean
      BY <1>4
    <2>2. ConfiguredSoFar'
      BY <1>1, <1>2, <1>3, <2>1 DEF ConfiguredSoFar, GroupConfigured, Working, Configuring
    <2> QED
      BY <1>3, <2>2 DEF PlanComplete, AbortHasCause
  <1>10. FirstRun'
    BY <1>1, <1>2, <1>3, <1>4 DEF FirstRun, Working, Configuring, ChainOK
  <1> QED
    BY <1>5, <1>6, <1>7, <1>8, <1>9, <1>10

\* Behind a group that is dealt with, the run is as far as before it.
LEMMA NextGroupInv ==
    ASSUME SetupInv, pc \in {"plan", "removeAdmin"}, NextGroup,
           network' = network, listed' = listed, configured' = configured, priced' = priced,
           apeProxies' = apeProxies, supplied' = supplied, faults' = faults, clean' = clean,
           helperIsPoolAdmin' = helperIsPoolAdmin \/ helperIsPoolAdmin' = FALSE,
           pc = "plan" \/ helperIsPoolAdmin' = FALSE,
           clean => GroupConfigured(group)
    PROVE  SetupInv'
  <1> USE DEF SetupInv
  <1> DEFINE m == Len(GroupsOf[network])
  <1>1. /\ priced /\ network \in Networks /\ group \in 1 .. m /\ m \in Nat \ {0}
        /\ pos = Len(Group) + 1 /\ Len(Group) \in 1 .. 20 /\ group \in Nat \ {0}
        /\ Count \in Nat /\ Place = (group - 1) * 20 + Len(Group) + 1
        /\ group < m => Len(Group) = 20
        /\ group = m => (group - 1) * 20 + Len(Group) = Count
    <2>1. priced /\ network \in Networks /\ group \in 1 .. m /\ pos = Len(Group) + 1
      BY DEF PlaceOK, OracleFirst, Working, Configuring
    <2>2. /\ m \in Nat \ {0} /\ Len(Group) \in 1 .. 20 /\ group \in Nat \ {0} /\ Count \in Nat
          /\ group < m => Len(Group) = 20
          /\ group = m => (group - 1) * 20 + Len(Group) = Count
      BY GroupHere
    <2>3. Place = (group - 1) * 20 + Len(Group) + 1
      BY <2>1, <2>2 DEF Place
    <2> QED
      BY <2>1, <2>2, <2>3
  <1>2. /\ pos' = 1 /\ todo' = {}
        /\ \/ pc' = "prepare" /\ group < m /\ group' = group + 1
           \/ pc' = "done" /\ group = m /\ group' = group
    <2>1. group < m \/ group = m
      BY <1>1
    <2> QED
      BY <1>1, <2>1 DEF NextGroup
  <1>3. Count' = Count /\ Order(network)' = Order(network) /\ GroupsOf[network]' = GroupsOf[network]
    BY DEF Count
  <1>4. group' \in 1 .. m
    BY <1>1, <1>2
  <1>5. PlaceOK'
    <2>1. pc' = "prepare" => pos' \in 1 .. Len(Group')
      <3>1. Len(GroupsOf[network][group']) \in 1 .. 20
        BY <1>1, <1>4, GroupFacts
      <3>2. pos' = 1 /\ Len(Group') \in 1 .. 20
        BY <1>2, <3>1 DEF Group
      <3>3. pos' \in 1 .. Len(Group')
        BY <3>2
      <3> QED
        BY <3>3
    <2> QED
      BY <1>1, <1>2, <1>4, <2>1 DEF PlaceOK, Working, Configuring
  <1>6. ChainOK' /\ AccidentsCount' /\ OracleFirst' /\ WholeChunks'
    <2>1. ChainOK'
      BY DEF ChainOK
    <2>2. AccidentsCount'
      BY <1>2 DEF AccidentsCount
    <2>3. OracleFirst'
      BY <1>1, <1>2 DEF OracleFirst, market, Working, Configuring
    <2>4. WholeChunks'
      BY <1>3 DEF WholeChunks
    <2> QED
      BY <2>1, <2>2, <2>3, <2>4
  <1>7. ListedSoFar'
    <2>1. clean => ListedUpTo(Place - 1)
      BY DEF ListedSoFar, Configuring
    <2>2. pc' = "prepare" => 4 * ((Place' - 1) \div 4) = Place - 1
      <3> SUFFICES ASSUME pc' = "prepare"
                   PROVE  4 * ((Place' - 1) \div 4) = Place - 1
        OBVIOUS
      <3>1. group < m /\ group' = group + 1 /\ pos' = 1
        BY <1>2
      <3>2. Place' = group * 20 + 1
        BY <1>1, <3>1 DEF Place
      <3>3. Place = (group - 1) * 20 + 20 + 1
        BY <1>1, <3>1
      <3>4. Place = group * 20 + 1
        BY <1>1, <3>3
      <3>5. Place' - 1 = group * 20
        <4>1. group \in Nat
          BY <1>1
        <4> QED
          BY <3>2, <4>1
      <3>6. Place - 1 = group * 20
        <4>1. group \in Nat
          BY <1>1
        <4> QED
          BY <3>4, <4>1
      <3>7. 4 * ((group * 20) \div 4) = group * 20
        BY <1>1
      <3> QED
        BY <3>5, <3>6, <3>7
    <2>3. group = m => Place - 1 = Count
      <3>1. group = m => Place - 1 = (group - 1) * 20 + Len(Group)
        BY <1>1
      <3> QED
        BY <1>1, <3>1
    <2>4. pc' = "done" => Count' = Place - 1
      BY <1>2, <1>3, <2>3
    <2>5. clean' => \A i \in 1 .. Count' : i <= Place - 1 => Order(network)'[i] \in listed'
      BY <1>3, <2>1 DEF ListedUpTo
    <2> QED
      BY <1>2, <2>2, <2>4, <2>5 DEF ListedSoFar, ListedUpTo, Configuring
  <1>8. ConfiguredSoFar'
    <2>1. clean => \A g \in 1 .. m : g < group => GroupConfigured(g)
      BY DEF ConfiguredSoFar, Working, Configuring
    <2>2. \A g \in 1 .. m : GroupConfigured(g)' <=> GroupConfigured(g)
      BY DEF GroupConfigured
    <2>3. clean' => \A g \in 1 .. m : g < group + 1 => GroupConfigured(g)'
      <3> HIDE DEF m
      <3> QED
        BY <1>1, <2>1, <2>2
    <2>4. pc' = "done" => \A g \in 1 .. m : g < group + 1
      BY <1>1, <1>2
    <2> QED
      BY <1>2, <1>3, <2>3, <2>4 DEF ConfiguredSoFar, Working, Configuring
  <1>9. PlanComplete' /\ AbortHasCause'
    BY <1>2 DEF PlanComplete, AbortHasCause
  <1>10. FirstRun'
    <2>1. ASSUME pc' = "prepare", faults = 0, supplied = {}
          PROVE  apeProxies \subseteq {Order(network)[i] : i \in {j \in 1 .. Count : j < Place'}}
      <3>1. apeProxies \subseteq {Order(network)[i] : i \in {j \in 1 .. Count : j < Place}}
        BY <1>1, <2>1 DEF FirstRun, Working, Configuring
      <3>2. Place' = Place
        <4>1. group < m /\ group' = group + 1 /\ pos' = 1
          BY <1>2, <2>1
        <4>2. Place' = group * 20 + 1
          BY <1>1, <4>1 DEF Place
        <4>3. Place = (group - 1) * 20 + 20 + 1
          BY <1>1, <4>1
        <4> QED
          BY <1>1, <4>2, <4>3
      <3> QED
        BY <3>1, <3>2
    <2> QED
      BY <1>2, <1>3, <2>1 DEF FirstRun, Working, Configuring
  <1> QED
    BY <1>5, <1>6, <1>7, <1>8, <1>9, <1>10

\* The reserves of the group that are not collateral yet are gathered.
LEMMA PlanConfigurationInv ==
    ASSUME SetupInv, PlanConfiguration
    PROVE  SetupInv'
  <1> DEFINE rest == {s \in ToSet(Group) : ~usageAsCollateralEnabled(s)}
  <1>1. /\ pc = "plan" /\ network' = network
        /\ listed' = listed /\ configured' = configured /\ priced' = priced
        /\ apeProxies' = apeProxies /\ supplied' = supplied
        /\ helperIsPoolAdmin' = helperIsPoolAdmin /\ faults' = faults /\ clean' = clean
    BY DEF PlanConfiguration, chain
  <1>2. ToSet(Group) \ rest \subseteq configured
    BY DEF usageAsCollateralEnabled
  <1>3. CASE rest = {}
    <2>1. NextGroup
      BY <1>3 DEF PlanConfiguration
    <2>2. GroupConfigured(group)
      BY <1>2, <1>3 DEF GroupConfigured, Group
    <2> QED
      BY <1>1, <2>1, <2>2, NextGroupInv
  <1>4. CASE rest # {}
    <2> USE DEF SetupInv
    <2>1. pc' = "addAdmin" /\ todo' = rest /\ group' = group /\ pos' = pos
      BY <1>4 DEF PlanConfiguration
    <2>2. /\ Group' = Group /\ Count' = Count /\ Place' = Place
          /\ Order(network)' = Order(network)
      BY <1>1, <2>1 DEF Group, Count, Place
    <2>3. PlaceOK'
      BY <1>1, <2>1, <2>2 DEF PlaceOK, Working, Configuring
    <2>4. ChainOK' /\ AccidentsCount' /\ OracleFirst' /\ WholeChunks'
      BY <1>1, <2>1, <2>2 DEF ChainOK, AccidentsCount, OracleFirst, WholeChunks, Working,
                              Configuring, market
    <2>5. ListedSoFar' /\ ConfiguredSoFar'
      BY <1>1, <2>1, <2>2 DEF ListedSoFar, ListedUpTo, ConfiguredSoFar, GroupConfigured, Working,
                              Configuring
    <2>6. PlanComplete'
      BY <1>1, <1>2, <2>1, <2>2 DEF PlanComplete
    <2>7. FirstRun' /\ AbortHasCause'
      BY <1>1, <2>1, <2>2 DEF FirstRun, AbortHasCause, Working, Configuring
    <2> QED
      BY <2>3, <2>4, <2>5, <2>6, <2>7
  <1> QED
    BY <1>3, <1>4

\* The helper becomes a pool admin.
LEMMA AddPoolAdminInv ==
    ASSUME SetupInv, AddPoolAdmin
    PROVE  SetupInv'
  <1> USE DEF SetupInv
  <1>1. /\ pc = "addAdmin" /\ pc' = "configure" /\ helperIsPoolAdmin' = TRUE
        /\ network' = network /\ group' = group /\ pos' = pos /\ todo' = todo
        /\ listed' = listed /\ configured' = configured /\ priced' = priced
        /\ apeProxies' = apeProxies /\ supplied' = supplied /\ faults' = faults /\ clean' = clean
    BY DEF AddPoolAdmin
  <1>2. Group' = Group /\ Count' = Count /\ Place' = Place /\ Order(network)' = Order(network)
    BY <1>1 DEF Group, Count, Place
  <1>3. PlaceOK'
    BY <1>1, <1>2 DEF PlaceOK, Working, Configuring
  <1>4. ChainOK' /\ AccidentsCount' /\ OracleFirst' /\ WholeChunks'
    BY <1>1, <1>2 DEF ChainOK, AccidentsCount, OracleFirst, WholeChunks, Working, Configuring,
                      market
  <1>5. ListedSoFar' /\ ConfiguredSoFar' /\ PlanComplete'
    BY <1>1, <1>2 DEF ListedSoFar, ListedUpTo, ConfiguredSoFar, GroupConfigured, PlanComplete,
                      Working, Configuring
  <1>6. FirstRun' /\ AbortHasCause'
    BY <1>1, <1>2 DEF FirstRun, AbortHasCause, Working, Configuring
  <1> QED
    BY <1>3, <1>4, <1>5, <1>6

\* In a run without accidental failures the configurator refuses no group that nobody has
\* supplied a reserve of.
LEMMA GroupAccepted ==
    ASSUME SetupInv, pc = "configure", clean, ToSet(Group) \cap supplied = {}
    PROVE  \A s \in todo : ConfiguratorAccepts(s, ConfigureReserveInput[network][s])
  <1> USE DEF SetupInv
  <1>1. /\ network \in Networks /\ group \in 1 .. Len(GroupsOf[network])
        /\ pos = Len(Group) + 1 /\ todo \subseteq ToSet(Group)
    BY DEF PlaceOK, PlanComplete, Configuring
  <1>2. /\ ToSet(Group) = {Order(network)[i] :
                             i \in (group - 1) * 20 + 1 .. (group - 1) * 20 + Len(Group)}
        /\ ToSet(Group) \subseteq ReservesOf[network]
    BY <1>1, GroupMembers DEF Group
  <1>3. ListedUpTo(Place - 1)
    BY DEF ListedSoFar, Configuring
  <1>4. ToSet(Group) \subseteq listed
    <2>1. ASSUME NEW i \in (group - 1) * 20 + 1 .. (group - 1) * 20 + Len(Group)
          PROVE  Order(network)[i] \in listed
      <3> DEFINE l == Len(Group)
                 p == i - (group - 1) * 20
      <3>1. group \in Nat \ {0} /\ l \in 1 .. 20
        BY GroupHere
      <3>2. p \in 1 .. l /\ (group - 1) * 20 + p = i
        <4> HIDE DEF l
        <4>1. i \in (group - 1) * 20 + 1 .. (group - 1) * 20 + l
          BY <2>1 DEF l
        <4> QED
          BY <3>1, <4>1
      <3>3. i \in 1 .. Count
        BY <3>2, GroupHere
      <3>4. i <= Place - 1
        <4>1. Place = (group - 1) * 20 + (l + 1)
          BY <1>1 DEF Place
        <4> HIDE DEF l
        <4> QED
          BY <3>1, <3>2, <4>1
      <3> QED
        BY <1>3, <3>3, <3>4 DEF ListedUpTo
    <2> QED
      BY <1>2, <2>1
  <1>5. \A s \in ReservesOf[network] : ValidRisk(ConfigureReserveInput[network][s])
    BY <1>1, PlanAssumption
  <1> QED
    BY <1>1, <1>2, <1>4, <1>5 DEF ConfiguratorAccepts

\* One transaction for the reserves that are not collateral yet.
LEMMA ConfigureReservesInv ==
    ASSUME SetupInv, ConfigureReserves
    PROVE  SetupInv'
  <1> USE DEF SetupInv
  <1>1. /\ pc = "configure" /\ pc' = "removeAdmin" /\ helperIsPoolAdmin' = helperIsPoolAdmin
        /\ network' = network /\ group' = group /\ pos' = pos /\ todo' = todo
        /\ listed' = listed /\ priced' = priced
        /\ apeProxies' = apeProxies /\ supplied' = supplied
    BY DEF ConfigureReserves
  <1>2. \/ /\ faults' = faults /\ clean' = clean
           /\ configured' = IF \A s \in todo :
                                ConfiguratorAccepts(s, ConfigureReserveInput[network][s])
                            THEN configured \union todo ELSE configured
        \/ faults' = faults + 1 /\ clean' = FALSE /\ configured' = configured
    BY DEF ConfigureReserves
  <1>3. Group' = Group /\ Count' = Count /\ Place' = Place /\ Order(network)' = Order(network)
    BY <1>1 DEF Group, Count, Place
  <1>4. configured \subseteq configured' /\ configured' \subseteq configured \union todo
    BY <1>2
  <1>5. PlaceOK'
    BY <1>1, <1>3 DEF PlaceOK, Working, Configuring
  <1>6. ChainOK'
    <2>1. todo \subseteq ReservesOf[network]
      BY <1>1, GroupMembers DEF PlaceOK, PlanComplete, Group
    <2>2. faults' \in Nat
      <3>1. faults' = faults \/ faults' = faults + 1
        BY <1>2
      <3> QED
        BY <3>1 DEF ChainOK
    <2>3. clean' \in BOOLEAN
      <3>1. clean' = clean \/ clean' = FALSE
        BY <1>2
      <3> QED
        BY <3>1 DEF ChainOK
    <2> QED
      BY <1>1, <1>4, <2>1, <2>2, <2>3 DEF ChainOK
  <1>7. AccidentsCount'
    <2>1. faults \in Nat
      BY DEF ChainOK
    <2>2. ~clean' => faults' > 0
      BY <1>2, <2>1 DEF AccidentsCount
    <2> QED
      BY <1>1, <2>2 DEF AccidentsCount
  <1>8. OracleFirst' /\ WholeChunks'
    BY <1>1, <1>3 DEF OracleFirst, WholeChunks, Working, Configuring, market
  <1>9. clean' => clean
    BY <1>2
  <1>10. ListedSoFar'
    BY <1>1, <1>3, <1>9 DEF ListedSoFar, ListedUpTo, Configuring
  <1>11. ConfiguredSoFar'
    <2>1. ASSUME clean', ToSet(Group) \cap supplied = {}
          PROVE  ToSet(Group) \subseteq configured'
      <3>1. \A s \in todo : ConfiguratorAccepts(s, ConfigureReserveInput[network][s])
        BY <1>1, <1>9, <2>1, GroupAccepted
      <3>2. configured' = configured \union todo
        BY <1>2, <2>1, <3>1
      <3> QED
        BY <1>1, <3>2 DEF PlanComplete
    <2>2. clean' => GroupConfigured(group)'
      BY <1>1, <2>1 DEF GroupConfigured, Group
    <2>3. \A g : GroupConfigured(g) => GroupConfigured(g)'
      BY <1>1, <1>4 DEF GroupConfigured
    <2>4. clean => \A g \in 1 .. Len(GroupsOf[network]) : g < group => GroupConfigured(g)
      BY <1>1 DEF ConfiguredSoFar, Working, Configuring
    <2>5. clean' => \A g \in 1 .. Len(GroupsOf[network])' : g < group' => GroupConfigured(g)'
      BY <1>1, <1>9, <2>3, <2>4
    <2> QED
      BY <1>1, <2>2, <2>5 DEF ConfiguredSoFar
  <1>12. PlanComplete' /\ AbortHasCause'
    BY <1>1 DEF PlanComplete, AbortHasCause
  <1>13. FirstRun'
    <2>1. faults' = 0 => faults = 0
      BY <1>2 DEF ChainOK
    <2> QED
      BY <1>1, <1>3, <2>1 DEF FirstRun, Working, Configuring
  <1> QED
    BY <1>5, <1>6, <1>7, <1>8, <1>10, <1>11, <1>12, <1>13

\* The helper is no pool admin any more, and the next group begins.
LEMMA RemovePoolAdminInv ==
    ASSUME SetupInv, RemovePoolAdmin
    PROVE  SetupInv'
  <1>1. clean => GroupConfigured(group)
    BY DEF RemovePoolAdmin, SetupInv, ConfiguredSoFar
  <1> QED
    BY <1>1, NextGroupInv DEF RemovePoolAdmin

-----------------------------------------------------------------------------
(* The end of a run, and the steps of the others.                          *)

\* The groups leave no reserve out.
LEMMA GroupsCover ==
    ASSUME NEW n \in Networks, NEW s \in ReservesOf[n]
    PROVE  \E g \in 1 .. Len(GroupsOf[n]) : s \in ToSet(GroupsOf[n][g])
  <1> DEFINE N == Len(Order(n))
             m == Len(GroupsOf[n])
  <1>1. PICK i \in 1 .. N : s = Order(n)[i]
    BY OrderFacts
  <1>2. N \in Nat \ {0} /\ m \in Nat \ {0} /\ m = (N + 19) \div 20
    <2>1. N \in Nat \ {0} /\ Order(n) \in Seq(STRING)
      BY OrderFacts
    <2>2. m = (N + 20 - 1) \div 20
      BY <2>1, ChunkDomain DEF GroupsOf, Groups, Order
    <2>3. m \in Nat \ {0}
      BY GroupFacts
    <2> HIDE DEF N, m
    <2> QED
      BY <2>1, <2>2, <2>3
  <1> DEFINE g == (i - 1) \div 20 + 1
  <1>3. g \in 1 .. m
    <2> HIDE DEF N, m
    <2> QED
      BY <1>2
  <1> DEFINE l == Len(GroupsOf[n][g])
  <1>4. l \in 1 .. 20 /\ (g < m => l = 20) /\ (g = m => (g - 1) * 20 + l = N)
    BY <1>3, GroupFacts
  <1>5. i \in (g - 1) * 20 + 1 .. (g - 1) * 20 + l
    <2>1. g \in Nat \ {0} /\ (g - 1) * 20 < i /\ i <= (g - 1) * 20 + 20
      <3> HIDE DEF N, m, l
      <3> QED
        BY <1>2
    <2>2. g < m \/ g = m
      BY <1>2, <1>3
    <2> HIDE DEF N, m, g, l
    <2> QED
      BY <1>2, <1>4, <2>1, <2>2
  <1>6. s \in {Order(n)[j] : j \in (g - 1) * 20 + 1 .. (g - 1) * 20 + l}
    <2> HIDE DEF N, m, g, l
    <2> QED
      BY <1>1, <1>5
  <1> HIDE DEF N, m, g
  <1>7. s \in ToSet(GroupsOf[n][g])
    BY <1>3, <1>6, GroupMembers DEF m
  <1> QED
    BY <1>3, <1>7 DEF m

\* What a run without accidental failures leaves.
LEMMA RunComplete ==
    ASSUME SetupInv, pc = "done", clean
    PROVE  /\ ReservesOf[network] \subseteq listed
           /\ \A g \in 1 .. Len(GroupsOf[network]) : GroupConfigured(g)
           /\ supplied = {} => ReservesOf[network] \subseteq configured
  <1> USE DEF SetupInv
  <1>1. network \in Networks
    BY DEF PlaceOK
  <1>2. ReservesOf[network] \subseteq listed
    <2>1. ListedUpTo(Count) /\ Count \in Nat
      BY GroupHere DEF ListedSoFar, Configuring
    <2>2. ReservesOf[network] = {Order(network)[i] : i \in 1 .. Count}
      BY <1>1, OrderFacts DEF Count
    <2> QED
      BY <2>1, <2>2 DEF ListedUpTo
  <1>3. \A g \in 1 .. Len(GroupsOf[network]) : GroupConfigured(g)
    BY DEF ConfiguredSoFar
  <1>4. supplied = {} => ReservesOf[network] \subseteq configured
    BY <1>1, <1>3, GroupsCover DEF GroupConfigured
  <1> QED
    BY <1>2, <1>3, <1>4

\* The process dies.
LEMMA CrashInv ==
    ASSUME SetupInv, Crash
    PROVE  SetupInv'
  <1> USE DEF SetupInv
  <1>1. /\ pc' = "crashed" /\ faults' = faults + 1 /\ helperIsPoolAdmin' = helperIsPoolAdmin
        /\ network' = network /\ group' = group /\ pos' = pos /\ todo' = todo
        /\ listed' = listed /\ configured' = configured /\ priced' = priced
        /\ apeProxies' = apeProxies /\ supplied' = supplied /\ clean' = clean
    BY DEF Crash, chain
  <1>2. faults \in Nat /\ faults' \in Nat /\ faults' > 0
    BY <1>1 DEF ChainOK
  <1>3. PlaceOK' /\ ChainOK' /\ AccidentsCount'
    BY <1>1, <1>2 DEF PlaceOK, ChainOK, AccidentsCount, Working, Configuring
  <1>4. OracleFirst' /\ WholeChunks'
    BY <1>1 DEF OracleFirst, WholeChunks, Working, Configuring, market, Count
  <1>5. ListedSoFar' /\ ConfiguredSoFar' /\ PlanComplete'
    BY <1>1 DEF ListedSoFar, ConfiguredSoFar, PlanComplete, Working, Configuring
  <1>6. FirstRun' /\ AbortHasCause'
    BY <1>1, <1>2 DEF FirstRun, AbortHasCause
  <1> QED
    BY <1>3, <1>4, <1>5, <1>6

\* A run that is repeated begins before everything it will find done.
LEMMA RerunInv ==
    ASSUME SetupInv, Rerun
    PROVE  SetupInv'
  <1> USE DEF SetupInv
  <1>1. /\ group' = 1 /\ pos' = 1 /\ todo' = {} /\ clean' = TRUE /\ faults' = faults
        /\ helperIsPoolAdmin' = helperIsPoolAdmin /\ network' = network
        /\ listed' = listed /\ configured' = configured /\ priced' = priced
        /\ apeProxies' = apeProxies /\ supplied' = supplied
        /\ pc \in {"crashed", "aborted", "done"} /\ (pc = "done" => ~AllSetUp)
    BY DEF Rerun, chain
  <1>2. pc' = IF priced THEN "prepare" ELSE "oracle"
    BY DEF Rerun
  <1>3. network \in Networks /\ Len(GroupsOf[network]) \in Nat \ {0}
    BY GroupHere DEF PlaceOK
  <1>4. PlaceOK'
    <2>1. 1 \in 1 .. Len(GroupsOf[network])
      BY <1>3
    <2>2. Len(GroupsOf[network][1]) \in 1 .. 20
      BY <1>3, <2>1, GroupFacts
    <2>3. Len(Group') \in 1 .. 20 /\ pos' = 1
      BY <1>1, <2>2 DEF Group
    <2>4. pos' \in 1 .. Len(Group')
      <3>1. \A l \in 1 .. 20 : 1 \in 1 .. l
        OBVIOUS
      <3>2. 1 \in 1 .. Len(Group')
        BY <2>3, <3>1
      <3> QED
        BY <2>3, <3>2
    <2> QED
      BY <1>1, <1>2, <1>3, <2>1, <2>4 DEF PlaceOK, Working, Configuring
  <1>5. ChainOK'
    BY <1>1 DEF ChainOK
  <1>6. AccidentsCount'
    BY <1>1, <1>2 DEF AccidentsCount
  <1>7. OracleFirst' /\ WholeChunks'
    BY <1>1, <1>2 DEF OracleFirst, WholeChunks, Working, Configuring, market, Count
  <1>8. Place' = 1 /\ Count' \in Nat
    BY <1>1, GroupHere DEF Place, Count
  <1>9. ListedSoFar' /\ ConfiguredSoFar' /\ PlanComplete'
    <2>1. 4 * ((Place' - 1) \div 4) = 0
      BY <1>8
    <2>2. ListedUpTo(0)'
      BY <1>8 DEF ListedUpTo
    <2>3. ListedSoFar'
      BY <1>2, <2>1, <2>2 DEF ListedSoFar, Configuring, ListedUpTo
    <2>4. \A g \in 1 .. Len(GroupsOf[network]) : ~(g < 1)
      BY <1>3
    <2>5. ConfiguredSoFar'
      BY <1>1, <1>2, <2>4 DEF ConfiguredSoFar
    <2>6. PlanComplete'
      BY <1>2 DEF PlanComplete
    <2> QED
      BY <2>3, <2>5, <2>6
  <1>10. FirstRun'
    <2>1. ASSUME faults = 0, supplied = {}, priced
          PROVE  FALSE
      <3>1. clean /\ pc # "crashed"
        BY <2>1 DEF AccidentsCount, ChainOK
      <3>2. pc # "aborted"
        BY <2>1 DEF FirstRun
      <3>3. pc = "done" /\ ~AllSetUp
        BY <1>1, <3>1, <3>2
      <3> QED
        BY <2>1, <3>1, <3>3, RunComplete DEF AllSetUp
    <2> QED
      BY <1>1, <2>1 DEF FirstRun
  <1>11. AbortHasCause'
    BY <1>2 DEF AbortHasCause
  <1> QED
    BY <1>4, <1>5, <1>6, <1>7, <1>9, <1>10, <1>11

\* A user supplies a listed reserve.
LEMMA SupplyInv ==
    ASSUME SetupInv, NEW s \in listed, Supply(s)
    PROVE  SetupInv'
  <1> USE DEF SetupInv
  <1>1. /\ supplied' = supplied \union {s} /\ faults' = faults /\ clean' = clean
        /\ network' = network /\ pc' = pc /\ group' = group /\ pos' = pos /\ todo' = todo
        /\ listed' = listed /\ configured' = configured /\ priced' = priced
        /\ apeProxies' = apeProxies /\ helperIsPoolAdmin' = helperIsPoolAdmin
    BY DEF Supply, progress
  <1>2. Group' = Group /\ Count' = Count /\ Place' = Place /\ Order(network)' = Order(network)
    BY <1>1 DEF Group, Count, Place
  <1>3. PlaceOK'
    BY <1>1, <1>2 DEF PlaceOK
  <1>4. ChainOK' /\ AccidentsCount' /\ OracleFirst' /\ WholeChunks'
    BY <1>1, <1>2 DEF ChainOK, AccidentsCount, OracleFirst, WholeChunks, market
  <1>5. ListedSoFar' /\ PlanComplete'
    BY <1>1, <1>2 DEF ListedSoFar, ListedUpTo, PlanComplete
  <1>6. ConfiguredSoFar'
    <2>1. \A g : GroupConfigured(g) => GroupConfigured(g)'
      BY <1>1 DEF GroupConfigured
    <2> QED
      BY <1>1, <2>1 DEF ConfiguredSoFar
  <1>7. FirstRun' /\ AbortHasCause'
    BY <1>1 DEF FirstRun, AbortHasCause
  <1> QED
    BY <1>3, <1>4, <1>5, <1>6, <1>7

\* A step that changes nothing.
LEMMA StutterInv ==
    ASSUME SetupInv, UNCHANGED vars
    PROVE  SetupInv'
  <1>1. /\ network' = network /\ pc' = pc /\ group' = group /\ pos' = pos /\ todo' = todo
        /\ listed' = listed /\ configured' = configured /\ priced' = priced
        /\ apeProxies' = apeProxies /\ helperIsPoolAdmin' = helperIsPoolAdmin
        /\ supplied' = supplied /\ faults' = faults /\ clean' = clean
    BY DEF vars, progress, chain
  <1>2. Group' = Group /\ Count' = Count /\ Place' = Place /\ Order(network)' = Order(network)
    BY <1>1 DEF Group, Count, Place
  <1>3. PlaceOK' /\ ChainOK' /\ AccidentsCount' /\ OracleFirst' /\ WholeChunks'
    BY <1>1, <1>2 DEF SetupInv, PlaceOK, ChainOK, AccidentsCount, OracleFirst, WholeChunks, market
  <1>4. ListedSoFar' /\ ConfiguredSoFar'
    BY <1>1, <1>2 DEF SetupInv, ListedSoFar, ListedUpTo, ConfiguredSoFar, GroupConfigured
  <1>5. PlanComplete' /\ FirstRun' /\ AbortHasCause'
    BY <1>1, <1>2 DEF SetupInv, PlanComplete, FirstRun, AbortHasCause
  <1> QED
    BY <1>3, <1>4, <1>5 DEF SetupInv

\* Every step.
LEMMA StepInv == SetupInv /\ [Next]_vars => SetupInv'
  <1> SUFFICES ASSUME SetupInv, [Next]_vars PROVE SetupInv'
    OBVIOUS
  <1>1. CASE ScriptStep
    BY <1>1, DeployOracleInv, PrepareReserveInv, InitReservesInv, PlanConfigurationInv,
       AddPoolAdminInv, ConfigureReservesInv, RemovePoolAdminInv DEF ScriptStep
  <1>2. CASE Crash
    BY <1>2, CrashInv
  <1>3. CASE Rerun
    BY <1>3, RerunInv
  <1>4. CASE \E s \in listed : Supply(s)
    BY <1>4, SupplyInv
  <1>5. CASE UNCHANGED vars
    BY <1>5, StutterInv
  <1> QED
    BY <1>1, <1>2, <1>3, <1>4, <1>5 DEF Next

-----------------------------------------------------------------------------
\* The bookkeeping of step 11 is right at every point of every run, whatever the markets are
\* and however often it is repeated: where a run is, what its clean predecessors have left
\* listed and configured, and that a transaction lists all of its reserves or none.
THEOREM SetupInvHolds == Spec => []SetupInv
  <1>1. Init => SetupInv
    BY InitInv
  <1>2. SetupInv /\ [Next]_vars => SetupInv'
    BY StepInv
  <1> QED
    BY <1>1, <1>2, PTL DEF Spec

\* No reserve is open before the prices are set, and none that the market does not have.
THEOREM ListedReservesAreOfTheMarket ==
    Spec => [](listed \subseteq ReservesOf[network] /\ (listed # {} => priced))
  <1>1. SetupInv => listed \subseteq ReservesOf[network] /\ (listed # {} => priced)
    BY DEF SetupInv, ChainOK, OracleFirst
  <1> QED
    BY <1>1, SetupInvHolds, PTL

\* A run of steps 10 and 11 ends in an error of its own for a token without a price source, a
\* vault that an earlier run has initialized, or the apes missing after a failed transaction:
\* the order of the reserves gives no other.
THEOREM AbortHasCauseHolds == Spec => []AbortHasCause
  <1>1. SetupInv => AbortHasCause
    BY DEF SetupInv
  <1> QED
    BY <1>1, SetupInvHolds, PTL

\* A run without accidental failures lists every reserve and configures every group that has
\* no supply of a reserve which is not to be collateral, whatever the runs before it have left.
THEOREM CompleteRunSetsUpAllHolds == Spec => []CompleteRunSetsUpAll
  <1>1. SetupInv => CompleteRunSetsUpAll
    <2> SUFFICES ASSUME SetupInv, pc = "done", clean PROVE CompleteRunSetsUpAll
      BY DEF CompleteRunSetsUpAll
    <2>1. helperIsPoolAdmin => faults > 0
      BY DEF SetupInv, AccidentsCount
    <2> QED
      BY <2>1, RunComplete DEF CompleteRunSetsUpAll, GroupConfigured
  <1> QED
    BY <1>1, SetupInvHolds, PTL

=============================================================================
