-------------------------- MODULE NTokenLedgerProofs --------------------------
(***************************************************************************)
(* NTokenLedger, for any users, tokens and lengths of a batch: the hand-   *)
(* made enumerations and counters are exact, inside a loop as well, and    *)
(* the ledger implements NToken.                                           *)
(***************************************************************************)
EXTENDS NTokenLedger, FiniteSetTheorems, TLAPS

-----------------------------------------------------------------------------
(* The enumeration of one owner, of n tokens, in the arrays by themselves. *)

Owners == [Tokens -> Users \cup {NoOwner}]
SlotsOf == [Users -> [Slots -> Tokens \cup {NoToken}]]
Indexes == [Tokens -> Slots]

\* The tokens of u are in the slots 0 .. n - 1, each at its index.
OwnerEnum(own, slots, index, u, n) ==
    /\ \A t \in Tokens : own[t] = u => index[t] < n /\ slots[u][index[t]] = t
    /\ \A i \in Slots : i < n => /\ slots[u][i] \in Tokens
                                 /\ own[slots[u][i]] = u
                                 /\ index[slots[u][i]] = i
    /\ \A i \in Slots : i >= n => slots[u][i] = NoToken

\* t has been given to u and put behind its n tokens.
OwnerAdded(own, slots, index, own2, slots2, index2, u, t, n) ==
    /\ own2[t] = u /\ \A s \in Tokens \ {t} : own2[s] = own[s]
    /\ index2[t] = n /\ \A s \in Tokens \ {t} : index2[s] = index[s]
    /\ slots2[u][n] = t /\ \A i \in Slots \ {n} : slots2[u][i] = slots[u][i]
    /\ \A v \in Users \ {u} : slots2[v] = slots[v]

\* t has been taken out, and the last of the n tokens of u has filled the hole
\* unless it was t itself.
OwnerRemoved(own, slots, index, own2, slots2, index2, u, t, n) ==
    /\ own2[t] = NoOwner /\ \A s \in Tokens \ {t} : own2[s] = own[s]
    /\ slots2 \in SlotsOf /\ index2 \in Indexes
    /\ \A v \in Users \ {u} : slots2[v] = slots[v]
    /\ slots2[u][n - 1] = NoToken
    /\ \A i \in Slots \ {index[t], n - 1} : slots2[u][i] = slots[u][i]
    /\ index[t] # n - 1 => /\ slots2[u][index[t]] = slots[u][n - 1]
                           /\ index2[slots[u][n - 1]] = index[t]
    /\ \A s \in Tokens \ {t, slots[u][n - 1]} : index2[s] = index[s]

\* The number of the tokens.
LEMMA TokensAreCounted == LedgerAssumption => Cardinality(Tokens) \in Nat
  BY FS_CardinalityType DEF LedgerAssumption

\* The arrays after a token has been added to the end.
LEMMA AddKeepsOwnerEnum ==
    ASSUME LedgerAssumption, NEW own \in Owners, NEW slots \in SlotsOf, NEW index \in Indexes,
           NEW u \in Users, NEW t \in Tokens, NEW n \in Slots, n < Cardinality(Tokens),
           own[t] = NoOwner, NEW own2, NEW slots2, NEW index2,
           OwnerAdded(own, slots, index, own2, slots2, index2, u, t, n)
    PROVE  /\ OwnerEnum(own, slots, index, u, n) => OwnerEnum(own2, slots2, index2, u, n + 1)
           /\ \A v \in Users \ {u} : \A m \in Slots :
                 OwnerEnum(own, slots, index, v, m) => OwnerEnum(own2, slots2, index2, v, m)
<1>1. /\ own2[t] = u /\ \A s \in Tokens \ {t} : own2[s] = own[s]
      /\ index2[t] = n /\ \A s \in Tokens \ {t} : index2[s] = index[s]
      /\ slots2[u][n] = t /\ \A i \in Slots \ {n} : slots2[u][i] = slots[u][i]
      /\ \A v \in Users \ {u} : slots2[v] = slots[v]
      /\ \A v \in Users : own[t] # v
  BY DEF OwnerAdded, LedgerAssumption
<1>2. Slots \subseteq Nat /\ n \in Nat
  BY DEF Slots
<1>3. ASSUME OwnerEnum(own, slots, index, u, n) PROVE OwnerEnum(own2, slots2, index2, u, n + 1)
  <2>1. ASSUME NEW s \in Tokens, own2[s] = u
        PROVE  index2[s] < n + 1 /\ slots2[u][index2[s]] = s
    <3>1. CASE s = t
      BY <1>1, <1>2, <3>1
    <3>2. CASE s # t
      <4>1. own[s] = u /\ index2[s] = index[s]
        BY <1>1, <2>1, <3>2
      <4>2. index[s] < n /\ slots[u][index[s]] = s /\ index[s] \in Slots /\ index[s] \in Nat
        BY <1>2, <1>3, <4>1 DEF OwnerEnum, Indexes
      <4>3. index[s] # n /\ index[s] < n + 1
        BY <1>2, <4>2
      <4>4. QED
        BY <1>1, <4>1, <4>2, <4>3
    <3>3. QED
      BY <3>1, <3>2
  <2>2. ASSUME NEW i \in Slots, i < n + 1
        PROVE  slots2[u][i] \in Tokens /\ own2[slots2[u][i]] = u /\ index2[slots2[u][i]] = i
    <3>1. CASE i = n
      BY <1>1, <3>1
    <3>2. CASE i # n
      <4>0. i < n
        BY <1>2, <2>2, <3>2
      <4>1. i < n /\ slots2[u][i] = slots[u][i]
        BY <1>1, <3>2, <4>0
      <4>2. slots[u][i] \in Tokens /\ own[slots[u][i]] = u /\ index[slots[u][i]] = i
        BY <1>3, <4>1 DEF OwnerEnum
      <4>3. slots[u][i] # t
        BY <4>2
      <4>4. QED
        BY <1>1, <4>1, <4>2, <4>3
    <3>3. QED
      BY <3>1, <3>2
  <2>3. ASSUME NEW i \in Slots, i >= n + 1 PROVE slots2[u][i] = NoToken
    <3>1. i # n /\ i >= n
      BY <1>2, <2>3
    <3>2. QED
      BY <1>1, <1>3, <3>1 DEF OwnerEnum
  <2>4. QED
    BY <2>1, <2>2, <2>3 DEF OwnerEnum
<1>4. ASSUME NEW v \in Users \ {u}, NEW m \in Slots, OwnerEnum(own, slots, index, v, m)
      PROVE  OwnerEnum(own2, slots2, index2, v, m)
  <2>1. \A s \in Tokens : own2[s] = v <=> own[s] = v
    BY <1>1
  <2>2. \A s \in Tokens : own[s] = v => s # t
    OBVIOUS
  <2>3. slots2[v] = slots[v]
    BY <1>1
  <2>4. ASSUME NEW i \in Slots, i < m
        PROVE  slots2[v][i] \in Tokens /\ own2[slots2[v][i]] = v /\ index2[slots2[v][i]] = i
    <3>1. slots[v][i] \in Tokens /\ own[slots[v][i]] = v /\ index[slots[v][i]] = i
      BY <1>4, <2>4 DEF OwnerEnum
    <3>2. QED
      BY <1>1, <2>1, <2>2, <2>3, <3>1
  <2>5. ASSUME NEW s \in Tokens, own2[s] = v PROVE index2[s] < m /\ slots2[v][index2[s]] = s
    <3>1. index[s] < m /\ slots[v][index[s]] = s
      BY <1>4, <2>1, <2>5 DEF OwnerEnum
    <3>2. QED
      BY <1>1, <2>1, <2>2, <2>3, <2>5, <3>1
  <2>6. \A i \in Slots : i >= m => slots2[v][i] = NoToken
    BY <1>4, <2>3 DEF OwnerEnum
  <2>7. QED
    BY <2>4, <2>5, <2>6 DEF OwnerEnum
<1>5. QED
  BY <1>3, <1>4

\* The arrays after a token has been taken out and the last one has filled the
\* hole, unless it was the last one; "hole" is where it was.
LEMMA RemoveKeepsOwnerEnum ==
    ASSUME LedgerAssumption, NEW own \in Owners, NEW slots \in SlotsOf, NEW index \in Indexes,
           NEW u \in Users, NEW t \in Tokens, own[t] = u, NEW n \in Slots, n > 0,
           OwnerEnum(own, slots, index, u, n), NEW own2, NEW slots2, NEW index2,
           OwnerRemoved(own, slots, index, own2, slots2, index2, u, t, n)
    PROVE  /\ OwnerEnum(own2, slots2, index2, u, n - 1)
           /\ \A v \in Users \ {u} : \A m \in Slots :
                 OwnerEnum(own, slots, index, v, m) => OwnerEnum(own2, slots2, index2, v, m)
<1> DEFINE hole == index[t]
           moved == slots[u][n - 1]
<1>0. /\ slots2 \in SlotsOf /\ index2 \in Indexes
      /\ \A v \in Users \ {u} : slots2[v] = slots[v]
      /\ slots2[u][n - 1] = NoToken
      /\ \A i \in Slots \ {hole, n - 1} : slots2[u][i] = slots[u][i]
      /\ hole # n - 1 => slots2[u][hole] = moved /\ index2[moved] = hole
      /\ \A s \in Tokens \ {t, moved} : index2[s] = index[s]
  BY DEF OwnerRemoved
<1>1. /\ own2[t] = NoOwner /\ \A s \in Tokens \ {t} : own2[s] = own[s]
      /\ NoOwner \notin Users
  BY DEF LedgerAssumption, OwnerRemoved
<1>2. Slots \subseteq Nat /\ n \in Nat /\ n - 1 \in Slots
  BY TokensAreCounted DEF Slots
<1>3. hole \in Slots /\ hole \in Nat /\ hole < n /\ slots[u][hole] = t
  BY <1>2 DEF OwnerEnum, Indexes
<1>4. moved \in Tokens /\ own[moved] = u /\ index[moved] = n - 1
  BY <1>2 DEF OwnerEnum
<1>5. (hole = n - 1) <=> (moved = t)
  BY <1>3, <1>4
<1>6. \A s \in Tokens : own2[s] = u <=> own[s] = u /\ s # t
  BY <1>1
<1>7. ASSUME NEW s \in Tokens, own2[s] = u
      PROVE  index2[s] < n - 1 /\ slots2[u][index2[s]] = s
  <2>1. own[s] = u /\ s # t
    BY <1>6, <1>7
  <2>2. index[s] < n /\ slots[u][index[s]] = s /\ index[s] \in Slots
    BY <2>1 DEF OwnerEnum, Indexes
  <2>3. CASE s = moved
    <3>1. hole # n - 1 /\ index2[s] = hole
      BY <1>0, <1>5, <2>1, <2>3
    <3>2. slots2[u][hole] = s
      BY <1>0, <2>3, <3>1
    <3>3. hole < n - 1
      BY <1>2, <1>3, <3>1
    <3>4. QED
      BY <3>1, <3>2, <3>3
  <2>4. CASE s # moved
    <3>1. index2[s] = index[s]
      BY <1>0, <2>1, <2>4
    <3>2. index[s] # hole /\ index[s] # n - 1
      BY <1>3, <2>1, <2>2, <2>4
    <3>3. slots2[u][index[s]] = s
      BY <1>0, <2>2, <3>2
    <3>4. index[s] < n - 1
      <4>1. index[s] \in Nat
        BY <1>2, <2>2
      <4>2. QED
        BY <1>2, <2>2, <3>2, <4>1
    <3>5. QED
      BY <3>1, <3>3, <3>4
  <2>5. QED
    BY <2>3, <2>4
<1>8. ASSUME NEW i \in Slots, i < n - 1
      PROVE  slots2[u][i] \in Tokens /\ own2[slots2[u][i]] = u /\ index2[slots2[u][i]] = i
  <2>1. CASE i = hole
    <3>1. hole # n - 1 /\ slots2[u][i] = moved /\ index2[moved] = hole
      BY <1>0, <1>2, <1>8, <2>1
    <3>2. moved # t
      BY <1>5, <3>1
    <3>3. QED
      BY <1>4, <1>6, <2>1, <3>1, <3>2
  <2>2. CASE i # hole
    <3>1. i < n /\ i # n - 1
      BY <1>2, <1>8
    <3>2. slots2[u][i] = slots[u][i]
      BY <1>0, <2>2, <3>1
    <3>3. slots[u][i] \in Tokens /\ own[slots[u][i]] = u /\ index[slots[u][i]] = i
      BY <3>1 DEF OwnerEnum
    <3>4. slots[u][i] # t /\ slots[u][i] # moved
      BY <1>4, <2>2, <3>1, <3>3
    <3>5. QED
      BY <1>0, <1>6, <3>2, <3>3, <3>4
  <2>3. QED
    BY <2>1, <2>2
<1>9. ASSUME NEW i \in Slots, i >= n - 1 PROVE slots2[u][i] = NoToken
  <2>1. CASE i = n - 1
    BY <1>0, <2>1
  <2>2. CASE i # n - 1
    <3>1. i >= n /\ i # hole
      BY <1>2, <1>3, <1>9, <2>2
    <3>2. QED
      BY <1>0, <2>2, <3>1 DEF OwnerEnum
  <2>3. QED
    BY <2>1, <2>2
<1>10. ASSUME NEW v \in Users \ {u}, NEW m \in Slots, OwnerEnum(own, slots, index, v, m)
       PROVE  OwnerEnum(own2, slots2, index2, v, m)
  <2>1. \A s \in Tokens : own2[s] = v <=> own[s] = v
    BY <1>1
  <2>2. \A s \in Tokens : own[s] = v => s # t /\ s # moved
    BY <1>4
  <2>3. ASSUME NEW i \in Slots, i < m
        PROVE  slots2[v][i] \in Tokens /\ own2[slots2[v][i]] = v /\ index2[slots2[v][i]] = i
    <3>1. slots[v][i] \in Tokens /\ own[slots[v][i]] = v /\ index[slots[v][i]] = i
      BY <1>10, <2>3 DEF OwnerEnum
    <3>2. QED
      BY <1>0, <2>1, <2>2, <3>1
  <2>4. ASSUME NEW s \in Tokens, own2[s] = v PROVE index2[s] < m /\ slots2[v][index2[s]] = s
    <3>1. index[s] < m /\ slots[v][index[s]] = s
      BY <1>10, <2>1, <2>4 DEF OwnerEnum
    <3>2. QED
      BY <1>0, <2>1, <2>2, <2>4, <3>1
  <2>5. \A i \in Slots : i >= m => slots2[v][i] = NoToken
    BY <1>0, <1>10 DEF OwnerEnum
  <2>6. QED
    BY <2>3, <2>4, <2>5 DEF OwnerEnum
<1>11. OwnerEnum(own2, slots2, index2, u, n - 1)
  BY <1>7, <1>8, <1>9 DEF OwnerEnum
<1>12. QED
  BY <1>10, <1>11

-----------------------------------------------------------------------------
(* The enumeration of all tokens (a sequence: its slots start at 1).       *)

AllEnum(own, all, index) ==
    /\ \A t \in Tokens : own[t] # NoOwner => index[t] < Len(all) /\ all[index[t] + 1] = t
    /\ \A i \in 1 .. Len(all) : own[all[i]] # NoOwner /\ index[all[i]] = i - 1

\* t has been given to u and appended.
AllAdded(own, all, index, own2, all2, index2, u, t) ==
    /\ own2[t] = u /\ \A s \in Tokens \ {t} : own2[s] = own[s]
    /\ all2 = Append(all, t)
    /\ index2[t] = Len(all) /\ \A s \in Tokens \ {t} : index2[s] = index[s]

\* t has been taken out: the last token is copied over it and the end cut off.
AllRemoved(own, all, index, own2, all2, index2, t) ==
    /\ own2[t] = NoOwner /\ \A s \in Tokens \ {t} : own2[s] = own[s]
    /\ all2 = SubSeq([all EXCEPT ![index[t] + 1] = all[Len(all)]], 1, Len(all) - 1)
    /\ index2 = [index EXCEPT ![all[Len(all)]] = index[t], ![t] = 0]

\* A token is appended.
LEMMA AddKeepsAllEnum ==
    ASSUME LedgerAssumption, NEW own \in Owners, NEW all \in Seq(Tokens), NEW index \in Indexes,
           AllEnum(own, all, index),
           NEW u \in Users, NEW t \in Tokens, own[t] = NoOwner, Len(all) \in Slots,
           NEW own2, NEW all2, NEW index2, AllAdded(own, all, index, own2, all2, index2, u, t)
    PROVE  AllEnum(own2, all2, index2) /\ all2 \in Seq(Tokens) /\ Len(all2) = Len(all) + 1
<1>1. /\ own2[t] = u /\ u # NoOwner /\ \A s \in Tokens \ {t} : own2[s] = own[s]
      /\ index2[t] = Len(all) /\ \A s \in Tokens \ {t} : index2[s] = index[s]
  BY DEF AllAdded, LedgerAssumption
<1>2. /\ all2 \in Seq(Tokens) /\ Len(all2) = Len(all) + 1 /\ Len(all) \in Nat
      /\ all2[Len(all) + 1] = t
      /\ \A i \in 1 .. Len(all) : all2[i] = all[i] /\ all[i] \in Tokens
  BY DEF AllAdded
<1>3. ASSUME NEW s \in Tokens, own2[s] # NoOwner
      PROVE  index2[s] < Len(all2) /\ all2[index2[s] + 1] = s
  <2>1. CASE s = t
    BY <1>1, <1>2, <2>1
  <2>2. CASE s # t
    <3>1. own[s] # NoOwner /\ index2[s] = index[s]
      BY <1>1, <1>3, <2>2
    <3>2. index[s] < Len(all) /\ all[index[s] + 1] = s
      BY <3>1 DEF AllEnum
    <3>3. index[s] \in Nat
      BY DEF Indexes, Slots
    <3>4. index[s] + 1 \in 1 .. Len(all)
      BY <1>2, <3>2, <3>3
    <3>5. QED
      BY <1>2, <3>1, <3>2, <3>3, <3>4
  <2>3. QED
    BY <2>1, <2>2
<1>4. ASSUME NEW i \in 1 .. Len(all2)
      PROVE  own2[all2[i]] # NoOwner /\ index2[all2[i]] = i - 1
  <2>1. CASE i = Len(all) + 1
    BY <1>1, <1>2, <2>1
  <2>2. CASE i # Len(all) + 1
    <3>1. i \in 1 .. Len(all)
      BY <1>2, <2>2
    <3>2. all2[i] = all[i] /\ all[i] \in Tokens /\ own[all[i]] # NoOwner /\ index[all[i]] = i - 1
      BY <1>2, <3>1 DEF AllEnum
    <3>3. all[i] # t
      BY <3>2
    <3>4. QED
      BY <1>1, <3>2, <3>3
  <2>3. QED
    BY <2>1, <2>2
<1>5. QED
  BY <1>2, <1>3, <1>4 DEF AllEnum

\* A token is taken out.
LEMMA RemoveKeepsAllEnum ==
    ASSUME LedgerAssumption, NEW own \in Owners, NEW all \in Seq(Tokens), NEW index \in Indexes,
           AllEnum(own, all, index),
           NEW t \in Tokens, own[t] # NoOwner,
           NEW own2, NEW all2, NEW index2, AllRemoved(own, all, index, own2, all2, index2, t)
    PROVE  /\ AllEnum(own2, all2, index2)
           /\ all2 \in Seq(Tokens) /\ Len(all2) = Len(all) - 1
           /\ index2 \in Indexes
<1> DEFINE hole == index[t]
           moved == all[Len(all)]
<1>1. /\ own2[t] = NoOwner /\ \A s \in Tokens \ {t} : own2[s] = own[s]
      /\ all2 = SubSeq([all EXCEPT ![hole + 1] = moved], 1, Len(all) - 1)
      /\ index2 = [[index EXCEPT ![moved] = hole] EXCEPT ![t] = 0]
  BY DEF AllRemoved
<1>2. /\ hole \in Slots /\ hole \in Nat /\ 0 \in Slots /\ hole < Len(all) /\ all[hole + 1] = t
      /\ Len(all) \in Nat
  BY TokensAreCounted DEF AllEnum, Indexes, Slots
<1>3. moved \in Tokens /\ own[moved] # NoOwner /\ index[moved] = Len(all) - 1
  <2>1. Len(all) \in 1 .. Len(all)
    BY <1>2
  <2>2. QED
    BY <2>1 DEF AllEnum
<1>4. /\ index2 \in Indexes
      /\ \A s \in Tokens \ {t, moved} : index2[s] = index[s]
      /\ moved # t => index2[moved] = hole
  BY <1>1, <1>2, <1>3 DEF Indexes
<1> DEFINE filled == [all EXCEPT ![hole + 1] = moved]
<1>5. /\ filled \in Seq(Tokens) /\ Len(filled) = Len(all)
      /\ \A i \in 1 .. Len(all) : filled[i] = IF i = hole + 1 THEN moved ELSE all[i]
  <2>1. hole + 1 \in 1 .. Len(all)
    BY <1>2
  <2>2. QED
    BY <1>3, <2>1
<1> HIDE DEF filled
<1>6. /\ all2 \in Seq(Tokens) /\ Len(all2) = Len(all) - 1
      /\ \A i \in 1 .. Len(all) - 1 : all2[i] = IF i = hole + 1 THEN moved ELSE all[i]
  <2>1. all2 = SubSeq(filled, 1, Len(all) - 1)
    BY <1>1 DEF filled
  <2>2. Len(all) - 1 \in Nat /\ Len(all) - 1 <= Len(filled)
    BY <1>2, <1>5
  <2>3. all2 \in Seq(Tokens) /\ Len(all2) = Len(all) - 1
    BY <1>5, <2>1, <2>2
  <2>4. \A i \in 1 .. Len(all) - 1 : all2[i] = filled[i] /\ i \in 1 .. Len(all)
    BY <1>5, <2>1, <2>2
  <2>5. QED
    BY <1>5, <2>3, <2>4
<1>7. ASSUME NEW i \in 1 .. Len(all) PROVE all[i] \in Tokens /\ own[all[i]] # NoOwner /\ index[all[i]] = i - 1
  BY DEF AllEnum
<1>8. ASSUME NEW s \in Tokens, own2[s] # NoOwner
      PROVE  index2[s] < Len(all2) /\ all2[index2[s] + 1] = s
  <2>1. own[s] # NoOwner /\ s # t
    BY <1>1, <1>8
  <2>2. index[s] < Len(all) /\ all[index[s] + 1] = s /\ index[s] \in Nat
    BY <2>1 DEF AllEnum, Indexes, Slots
  <2>3. CASE s = moved
    <3>1. index2[s] = hole
      BY <1>4, <2>1, <2>3
    <3>2. hole # Len(all) - 1
      BY <1>2, <1>3, <2>1, <2>2, <2>3
    <3>3. hole + 1 \in 1 .. Len(all) - 1
      BY <1>2, <3>2
    <3>4. QED
      BY <1>2, <1>6, <2>3, <3>1, <3>2, <3>3
  <2>4. CASE s # moved
    <3>1. index2[s] = index[s]
      BY <1>4, <2>1, <2>4
    <3>2. index[s] # Len(all) - 1
      <4>1. (Len(all) - 1) + 1 = Len(all)
        BY <1>2
      <4>2. QED
        BY <2>2, <2>4, <4>1
    <3>3. index[s] # hole
      BY <1>2, <2>1, <2>2
    <3>4. index[s] + 1 \in 1 .. Len(all) - 1 /\ index[s] + 1 # hole + 1
      BY <1>2, <2>2, <3>2, <3>3
    <3>5. all2[index[s] + 1] = s
      BY <1>6, <2>2, <3>4
    <3>6. QED
      BY <1>2, <1>6, <2>2, <3>1, <3>2, <3>5
  <2>5. QED
    BY <2>3, <2>4
<1>9. ASSUME NEW i \in 1 .. Len(all2)
      PROVE  own2[all2[i]] # NoOwner /\ index2[all2[i]] = i - 1
  <2>1. i \in 1 .. Len(all) - 1 /\ i \in 1 .. Len(all) /\ i # Len(all)
    BY <1>2, <1>6
  <2>2. CASE i = hole + 1
    <3>1. all2[i] = moved /\ hole # Len(all) - 1
      BY <1>2, <1>6, <2>1, <2>2
    <3>2. moved # t
      BY <1>3, <3>1
    <3>3. own2[moved] # NoOwner /\ index2[moved] = hole
      BY <1>1, <1>3, <1>4, <3>2
    <3>4. hole = i - 1
      BY <1>2, <2>2
    <3>5. QED
      BY <3>1, <3>3, <3>4
  <2>3. CASE i # hole + 1
    <3>1. all2[i] = all[i] /\ all[i] \in Tokens /\ own[all[i]] # NoOwner /\ index[all[i]] = i - 1
      BY <1>6, <1>7, <2>1, <2>3
    <3>2. all[i] # t
      <4>1. i - 1 # hole
        BY <1>2, <2>1, <2>3
      <4>2. QED
        BY <3>1, <4>1
    <3>3. all[i] # moved
      <4>1. i - 1 # Len(all) - 1
        BY <1>2, <2>1
      <4>2. QED
        BY <1>3, <3>1, <4>1
    <3>4. QED
      BY <1>1, <1>4, <3>1, <3>2, <3>3
  <2>4. QED
    BY <2>2, <2>3
<1>10. QED
  BY <1>4, <1>6, <1>8, <1>9 DEF AllEnum

-----------------------------------------------------------------------------
(* The storage as one record: the four operations, field by field.         *)

\* The fields that no enumeration is kept in.
SameRest(e, d) ==
    /\ e.owners = d.owners
    /\ e.balance = d.balance
    /\ e.collateralizedBalance = d.collateralizedBalance
    /\ e.isUsedAsCollateral = d.isUsedAsCollateral
    /\ e.startTime = d.startTime

SameOwnerEnum(e, d) == e.ownedTokens = d.ownedTokens /\ e.ownedTokensIndex = d.ownedTokensIndex

HasAllEnum(e, all, index) == e.allTokens = all /\ e.allTokensIndex = index

SameAllEnum(e, d) == HasAllEnum(e, d.allTokens, d.allTokensIndex)

\* What AddKeepsOwnerEnum needs.
LEMMA AddedToOwner ==
    ASSUME NEW d \in Data, NEW u \in Users, NEW t \in Tokens, NEW n \in Slots,
           NEW e, e = AddTokenToOwnerEnumeration(d, u, t, n)
    PROVE  /\ e \in Data /\ SameRest(e, d) /\ SameAllEnum(e, d)
           /\ e.ownedTokens = [d.ownedTokens EXCEPT ![u] = [d.ownedTokens[u] EXCEPT ![n] = t]]
           /\ e.ownedTokensIndex = [d.ownedTokensIndex EXCEPT ![t] = n]
<1> DEFINE slots == [d.ownedTokens EXCEPT ![u] = [d.ownedTokens[u] EXCEPT ![n] = t]]
           index == [d.ownedTokensIndex EXCEPT ![t] = n]
<1>1. slots \in SlotsOf /\ index \in Indexes
  BY DEF Data, SlotsOf, Indexes
<1>2. e = [d EXCEPT !.ownedTokens = slots, !.ownedTokensIndex = index]
  BY DEF AddTokenToOwnerEnumeration
<1> HIDE DEF slots, index
<1>3. e \in Data /\ e.ownedTokens = slots /\ e.ownedTokensIndex = index
      /\ SameRest(e, d) /\ SameAllEnum(e, d)
  BY <1>1, <1>2 DEF Data, SlotsOf, Indexes, SameRest, SameAllEnum, HasAllEnum
<1>4. QED
  BY <1>3 DEF slots, index

\* What AddKeepsAllEnum needs.
LEMMA AddedToAll ==
    ASSUME NEW d \in Data, NEW t \in Tokens, NEW n \in Slots,
           NEW e, e = AddTokenToAllTokensEnumeration(d, t, n)
    PROVE  /\ e \in Data /\ SameRest(e, d) /\ SameOwnerEnum(e, d)
           /\ e.allTokens = Append(d.allTokens, t)
           /\ e.allTokensIndex = [d.allTokensIndex EXCEPT ![t] = n]
<1> DEFINE all == Append(d.allTokens, t)
           index == [d.allTokensIndex EXCEPT ![t] = n]
<1>1. all \in Seq(Tokens) /\ index \in Indexes
  BY DEF Data, Indexes
<1>2. e = [d EXCEPT !.allTokens = all, !.allTokensIndex = index]
  BY DEF AddTokenToAllTokensEnumeration
<1> HIDE DEF all, index
<1>3. e \in Data /\ e.allTokens = all /\ e.allTokensIndex = index
      /\ SameRest(e, d) /\ SameOwnerEnum(e, d)
  BY <1>1, <1>2 DEF Data, Indexes, SameRest, SameOwnerEnum
<1>4. QED
  BY <1>3 DEF all, index

\* What RemoveKeepsOwnerEnum needs.
LEMMA RemovedFromOwner ==
    ASSUME LedgerAssumption, NEW d \in Data, NEW u \in Users, NEW t \in Tokens, NEW n \in Slots, n > 0,
           d.ownedTokens[u][n - 1] \in Tokens,
           d.ownedTokensIndex[d.ownedTokens[u][n - 1]] = n - 1,
           NEW e, e = RemoveTokenFromOwnerEnumeration(d, u, t, n),
           NEW hole, hole = d.ownedTokensIndex[t], NEW moved, moved = d.ownedTokens[u][n - 1]
    PROVE  /\ e \in Data /\ SameRest(e, d) /\ SameAllEnum(e, d)
           /\ \A v \in Users \ {u} : e.ownedTokens[v] = d.ownedTokens[v]
           /\ e.ownedTokens[u][n - 1] = NoToken
           /\ \A i \in Slots \ {hole, n - 1} : e.ownedTokens[u][i] = d.ownedTokens[u][i]
           /\ hole # n - 1 => e.ownedTokens[u][hole] = moved
           /\ hole # n - 1 => e.ownedTokensIndex[moved] = hole
           /\ \A s \in Tokens \ {t, moved} : e.ownedTokensIndex[s] = d.ownedTokensIndex[s]
<1> DEFINE swapped == IF hole = n - 1 THEN d
                      ELSE [d EXCEPT !.ownedTokens[u][hole] = moved, !.ownedTokensIndex[moved] = hole]
           last == n - 1
<1>1. e = [swapped EXCEPT !.ownedTokensIndex[t] = 0, !.ownedTokens[u][last] = NoToken]
  BY DEF RemoveTokenFromOwnerEnumeration
<1>2. hole \in Slots /\ last \in Slots /\ 0 \in Slots
  BY TokensAreCounted DEF Data, Slots
<1>3. /\ swapped \in Data /\ SameRest(swapped, d) /\ SameAllEnum(swapped, d)
      /\ \A v \in Users \ {u} : swapped.ownedTokens[v] = d.ownedTokens[v]
      /\ \A i \in Slots \ {hole, last} : swapped.ownedTokens[u][i] = d.ownedTokens[u][i]
      /\ hole # last => swapped.ownedTokens[u][hole] = moved
      /\ hole # last => swapped.ownedTokensIndex[moved] = hole
      /\ \A s \in Tokens \ {moved} : swapped.ownedTokensIndex[s] = d.ownedTokensIndex[s]
  <2>1. CASE hole = last
    BY <2>1 DEF SameRest, SameAllEnum, HasAllEnum
  <2>2. CASE hole # last
    <3> DEFINE slots == [d.ownedTokens EXCEPT ![u] = [d.ownedTokens[u] EXCEPT ![hole] = moved]]
               index == [d.ownedTokensIndex EXCEPT ![moved] = hole]
    <3>1. slots \in SlotsOf /\ index \in Indexes
      BY <1>2 DEF Data, SlotsOf, Indexes
    <3>2. /\ \A v \in Users \ {u} : slots[v] = d.ownedTokens[v]
          /\ \A i \in Slots \ {hole} : slots[u][i] = d.ownedTokens[u][i]
          /\ slots[u][hole] = moved
          /\ index[moved] = hole
          /\ \A s \in Tokens \ {moved} : index[s] = d.ownedTokensIndex[s]
      BY <1>2 DEF Data
    <3>3. swapped = [d EXCEPT !.ownedTokens = slots, !.ownedTokensIndex = index]
      BY <2>2
    <3> HIDE DEF slots, index, swapped
    <3>4. /\ swapped \in Data /\ swapped.ownedTokens = slots /\ swapped.ownedTokensIndex = index
          /\ SameRest(swapped, d) /\ SameAllEnum(swapped, d)
      BY <3>1, <3>3 DEF Data, SlotsOf, Indexes, SameRest, SameAllEnum, HasAllEnum
    <3>5. QED
      BY <3>2, <3>4
  <2>3. QED
    BY <2>1, <2>2
<1> HIDE DEF swapped
<1> DEFINE slots == [swapped.ownedTokens EXCEPT ![u] = [swapped.ownedTokens[u] EXCEPT ![last] = NoToken]]
           index == [swapped.ownedTokensIndex EXCEPT ![t] = 0]
<1>4. slots \in SlotsOf /\ index \in Indexes
  BY <1>2, <1>3 DEF Data, SlotsOf, Indexes
<1>5. /\ \A v \in Users \ {u} : slots[v] = swapped.ownedTokens[v]
      /\ \A i \in Slots \ {last} : slots[u][i] = swapped.ownedTokens[u][i]
      /\ slots[u][last] = NoToken
      /\ \A s \in Tokens \ {t} : index[s] = swapped.ownedTokensIndex[s]
  BY <1>2, <1>3 DEF Data
<1>6. e = [swapped EXCEPT !.ownedTokens = slots, !.ownedTokensIndex = index]
  BY <1>1
<1> HIDE DEF slots, index
<1>7. /\ e \in Data /\ e.ownedTokens = slots /\ e.ownedTokensIndex = index
      /\ SameRest(e, swapped) /\ SameAllEnum(e, swapped)
  BY <1>3, <1>4, <1>6, ZenonT(60) DEF Data, SlotsOf, Indexes, SameRest, SameAllEnum, HasAllEnum
<1>8. SameRest(e, d) /\ SameAllEnum(e, d)
  BY <1>3, <1>7 DEF SameRest, SameAllEnum, HasAllEnum
<1>9. hole # last => moved # t
  OBVIOUS
<1>10. QED
  BY <1>2, <1>3, <1>5, <1>7, <1>8, <1>9

\* What RemoveKeepsAllEnum needs.
LEMMA RemovedFromAll ==
    ASSUME NEW d \in Data, NEW t \in Tokens, NEW own2, NEW all \in Seq(Tokens), NEW index \in Indexes,
           AllRemoved(d.owners, d.allTokens, d.allTokensIndex, own2, all, index, t),
           NEW e, e = RemoveTokenFromAllTokensEnumeration(d, t, Len(d.allTokens))
    PROVE  /\ e \in Data /\ SameRest(e, d) /\ SameOwnerEnum(e, d)
           /\ HasAllEnum(e, all, index)
<1>1. e = [d EXCEPT !.allTokens = all, !.allTokensIndex = index]
  BY DEF RemoveTokenFromAllTokensEnumeration, AllRemoved
<1>2. QED
  BY <1>1 DEF Data, Indexes, SameRest, SameOwnerEnum, HasAllEnum

-----------------------------------------------------------------------------
(* Exact storage: len[u] and coll[u] are what the counters of u should be. *)

OwnedIn(own, u) == {t \in Tokens : own[t] = u}
MarkedIn(own, marks, u) == OwnedIn(own, u) \cap marks
SuppliedIn(own) == {t \in Tokens : own[t] # NoOwner}

Enumerated(d, len) ==
    /\ \A u \in Users : OwnerEnum(d.owners, d.ownedTokens, d.ownedTokensIndex, u, len[u])
    /\ AllEnum(d.owners, d.allTokens, d.allTokensIndex)

\* No mark survives its token: the next mint counts it.
Counted(own, marks, len, coll) ==
    /\ \A u \in Users : /\ len[u] = Cardinality(OwnedIn(own, u))
                        /\ coll[u] = Cardinality(MarkedIn(own, marks, u))
    /\ marks \subseteq SuppliedIn(own)

Exact(d, len, coll) ==
    /\ d \in Data
    /\ Enumerated(d, len)
    /\ Counted(d.owners, d.isUsedAsCollateral, len, coll)
    /\ Len(d.allTokens) = Cardinality(SuppliedIn(d.owners))

\* Sets of tokens are finite, and one that lacks a token has room for it.
LEMMA TokenSets ==
    ASSUME LedgerAssumption, NEW S \in SUBSET Tokens
    PROVE  /\ IsFiniteSet(S) /\ Cardinality(S) \in Slots /\ Cardinality(S) \in Nat
           /\ \A t \in Tokens \ S : /\ Cardinality(S) < Cardinality(Tokens)
                                    /\ Cardinality(S \cup {t}) = Cardinality(S) + 1
           /\ \A t \in S : /\ Cardinality(S \ {t}) = Cardinality(S) - 1
                           /\ Cardinality(S) > 0
<1>1. /\ IsFiniteSet(S) /\ Cardinality(S) \in Nat /\ Cardinality(Tokens) \in Nat
      /\ Cardinality(S) <= Cardinality(Tokens)
      /\ Cardinality(S) = Cardinality(Tokens) => S = Tokens
  BY FS_Subset, FS_CardinalityType DEF LedgerAssumption
<1>2. Cardinality(S) \in Slots
  BY <1>1 DEF Slots
<1>3. ASSUME NEW t \in Tokens \ S
      PROVE  Cardinality(S) < Cardinality(Tokens) /\ Cardinality(S \cup {t}) = Cardinality(S) + 1
  <2>1. S # Tokens
    OBVIOUS
  <2>2. Cardinality(S \cup {t}) = Cardinality(S) + 1
    BY <1>1, FS_AddElement
  <2>3. QED
    BY <1>1, <2>1, <2>2
<1>4. ASSUME NEW t \in S PROVE Cardinality(S \ {t}) = Cardinality(S) - 1 /\ Cardinality(S) > 0
  <2>1. Cardinality(S \ {t}) = Cardinality(S) - 1
    BY <1>1, FS_RemoveElement
  <2>2. Cardinality(S) # 0
    BY <1>1, FS_EmptySet
  <2>3. QED
    BY <1>1, <2>1, <2>2
<1>5. QED
  BY <1>1, <1>2, <1>3, <1>4

\* The lengths are slots, and in range while there is a token to add.
LEMMA LengthsInRange ==
    ASSUME LedgerAssumption, NEW d, NEW len, NEW coll, Exact(d, len, coll)
    PROVE  /\ \A u \in Users : len[u] \in Slots /\ coll[u] \in Slots
           /\ Len(d.allTokens) \in Slots
           /\ \A t \in Tokens : d.owners[t] = NoOwner =>
                 /\ \A u \in Users : len[u] < Cardinality(Tokens)
                 /\ Len(d.allTokens) < Cardinality(Tokens)
           /\ \A t \in Tokens : \A u \in Users : d.owners[t] = u => len[u] > 0
<1>1. \A u \in Users : /\ OwnedIn(d.owners, u) \in SUBSET Tokens
                       /\ MarkedIn(d.owners, d.isUsedAsCollateral, u) \in SUBSET Tokens
                       /\ len[u] = Cardinality(OwnedIn(d.owners, u))
                       /\ coll[u] = Cardinality(MarkedIn(d.owners, d.isUsedAsCollateral, u))
  BY DEF Exact, Counted, OwnedIn, MarkedIn
<1>2. SuppliedIn(d.owners) \in SUBSET Tokens /\ Len(d.allTokens) = Cardinality(SuppliedIn(d.owners))
  BY DEF Exact, Counted, SuppliedIn
<1>3. \A u \in Users : len[u] \in Slots /\ coll[u] \in Slots
  BY <1>1, TokenSets
<1>4. Len(d.allTokens) \in Slots
  BY <1>2, TokenSets
<1>5. ASSUME NEW t \in Tokens, d.owners[t] = NoOwner
      PROVE  /\ \A u \in Users : len[u] < Cardinality(Tokens)
             /\ Len(d.allTokens) < Cardinality(Tokens)
  <2>1. \A u \in Users : t \in Tokens \ OwnedIn(d.owners, u)
    BY <1>5 DEF OwnedIn, LedgerAssumption
  <2>2. t \in Tokens \ SuppliedIn(d.owners)
    BY <1>5 DEF SuppliedIn
  <2>3. QED
    BY <1>1, <1>2, <2>1, <2>2, TokenSets
<1>6. ASSUME NEW t \in Tokens, NEW u \in Users, d.owners[t] = u PROVE len[u] > 0
  <2>1. t \in OwnedIn(d.owners, u)
    BY <1>6 DEF OwnedIn
  <2>2. QED
    BY <1>1, <2>1, TokenSets
<1>7. QED
  BY <1>3, <1>4, <1>5, <1>6

\* The counter of u has gone up or down by n.
Raised(f, f2, u, n) == f2[u] = f[u] + n /\ \A v \in Users \ {u} : f2[v] = f[v]
Lowered(f, f2, u, n) == f2[u] = f[u] - n /\ \A v \in Users \ {u} : f2[v] = f[v]

\* t has been given to u, with a mark or without, and the counters follow.
TokenGained(own, marks, len, coll, own2, marks2, len2, coll2, u, t, marked) ==
    /\ own2[t] = u /\ \A s \in Tokens \ {t} : own2[s] = own[s]
    /\ \A s : s \in marks2 <=> s \in marks \/ (marked /\ s = t)
    /\ Raised(len, len2, u, 1) /\ Raised(coll, coll2, u, Count(marked))

\* t has been taken from u with its mark, and the counters follow.
TokenLost(own, marks, len, coll, own2, marks2, len2, coll2, u, t) ==
    /\ own2[t] = NoOwner /\ \A s \in Tokens \ {t} : own2[s] = own[s]
    /\ \A s : s \in marks2 <=> s \in marks /\ s # t
    /\ Lowered(len, len2, u, 1) /\ Lowered(coll, coll2, u, Count(t \in marks))

\* A token gets an owner.
LEMMA CountGained ==
    ASSUME LedgerAssumption, NEW own \in Owners, NEW marks, NEW len, NEW coll,
           Counted(own, marks, len, coll),
           NEW u \in Users, NEW t \in Tokens, own[t] = NoOwner, NEW marked \in BOOLEAN,
           NEW own2, NEW marks2, NEW len2, NEW coll2,
           TokenGained(own, marks, len, coll, own2, marks2, len2, coll2, u, t, marked)
    PROVE  /\ Counted(own2, marks2, len2, coll2)
           /\ Cardinality(SuppliedIn(own2)) = Cardinality(SuppliedIn(own)) + 1
<1>1. /\ own2[t] = u /\ (\A s \in Tokens \ {t} : own2[s] = own[s]) /\ u # NoOwner
      /\ \A s : s \in marks2 <=> s \in marks \/ (marked /\ s = t)
  BY DEF TokenGained, LedgerAssumption
<1>0. /\ len2[u] = len[u] + 1 /\ \A v \in Users \ {u} : len2[v] = len[v]
      /\ coll2[u] = coll[u] + Count(marked) /\ \A v \in Users \ {u} : coll2[v] = coll[v]
  BY DEF TokenGained, Raised
<1>2. t \notin marks
  BY DEF Counted, SuppliedIn
<1>3. /\ OwnedIn(own, u) \in SUBSET Tokens /\ t \notin OwnedIn(own, u)
      /\ MarkedIn(own, marks, u) \in SUBSET Tokens /\ t \notin MarkedIn(own, marks, u)
      /\ SuppliedIn(own) \in SUBSET Tokens /\ t \notin SuppliedIn(own)
  BY <1>1 DEF OwnedIn, MarkedIn, SuppliedIn
<1>4. /\ OwnedIn(own2, u) = OwnedIn(own, u) \cup {t}
      /\ MarkedIn(own2, marks2, u) = MarkedIn(own, marks, u) \cup (IF marked THEN {t} ELSE {})
      /\ SuppliedIn(own2) = SuppliedIn(own) \cup {t}
  <2>1. OwnedIn(own2, u) = OwnedIn(own, u) \cup {t} /\ SuppliedIn(own2) = SuppliedIn(own) \cup {t}
    BY <1>1 DEF OwnedIn, SuppliedIn
  <2>2. QED
    BY <1>1, <1>2, <2>1 DEF MarkedIn
<1>5. \A v \in Users \ {u} :
         /\ OwnedIn(own2, v) = OwnedIn(own, v)
         /\ MarkedIn(own2, marks2, v) = MarkedIn(own, marks, v)
  <2>1. \A v \in Users \ {u} : OwnedIn(own2, v) = OwnedIn(own, v) /\ t \notin OwnedIn(own, v)
    BY <1>1 DEF OwnedIn, LedgerAssumption
  <2>2. QED
    BY <1>1, <2>1 DEF MarkedIn
<1>6. /\ Cardinality(OwnedIn(own2, u)) = Cardinality(OwnedIn(own, u)) + 1
      /\ Cardinality(SuppliedIn(own2)) = Cardinality(SuppliedIn(own)) + 1
  BY <1>3, <1>4, TokenSets
<1>7. Cardinality(MarkedIn(own2, marks2, u)) = Cardinality(MarkedIn(own, marks, u)) + Count(marked)
  <2>1. CASE marked
    <3>1. MarkedIn(own2, marks2, u) = MarkedIn(own, marks, u) \cup {t} /\ Count(marked) = 1
      BY <1>4, <2>1 DEF Count
    <3>2. QED
      BY <1>3, <3>1, TokenSets
  <2>2. CASE ~marked
    <3>1. MarkedIn(own2, marks2, u) = MarkedIn(own, marks, u) /\ Count(marked) = 0
      BY <1>4, <2>2 DEF Count
    <3>2. Cardinality(MarkedIn(own, marks, u)) \in Nat
      BY <1>3, TokenSets
    <3>3. QED
      BY <3>1, <3>2
  <2>3. QED
    BY <2>1, <2>2
<1>8. marks2 \subseteq SuppliedIn(own2)
  BY <1>1, <1>4 DEF Counted, SuppliedIn
<1>9. QED
  BY <1>0, <1>5, <1>6, <1>7, <1>8 DEF Counted

\* A token loses its owner and its mark.
LEMMA CountLost ==
    ASSUME LedgerAssumption, NEW own \in Owners, NEW marks, NEW len, NEW coll,
           Counted(own, marks, len, coll),
           NEW u \in Users, NEW t \in Tokens, own[t] = u,
           NEW own2, NEW marks2, NEW len2, NEW coll2,
           TokenLost(own, marks, len, coll, own2, marks2, len2, coll2, u, t)
    PROVE  /\ Counted(own2, marks2, len2, coll2)
           /\ Cardinality(SuppliedIn(own2)) = Cardinality(SuppliedIn(own)) - 1
<1> DEFINE marked == t \in marks
<1>1. /\ own2[t] = NoOwner /\ (\A s \in Tokens \ {t} : own2[s] = own[s]) /\ u # NoOwner
      /\ \A s : s \in marks2 <=> s \in marks /\ s # t
  BY DEF TokenLost, LedgerAssumption
<1>0. /\ len2[u] = len[u] - 1 /\ \A v \in Users \ {u} : len2[v] = len[v]
      /\ coll2[u] = coll[u] - Count(marked) /\ \A v \in Users \ {u} : coll2[v] = coll[v]
  BY DEF TokenLost, Lowered
<1>2. /\ OwnedIn(own, u) \in SUBSET Tokens /\ t \in OwnedIn(own, u)
      /\ MarkedIn(own, marks, u) \in SUBSET Tokens /\ (marked <=> t \in MarkedIn(own, marks, u))
      /\ SuppliedIn(own) \in SUBSET Tokens /\ t \in SuppliedIn(own)
  BY <1>1 DEF OwnedIn, MarkedIn, SuppliedIn
<1>3. /\ OwnedIn(own2, u) = OwnedIn(own, u) \ {t}
      /\ MarkedIn(own2, marks2, u) = MarkedIn(own, marks, u) \ {t}
      /\ SuppliedIn(own2) = SuppliedIn(own) \ {t}
  BY <1>1 DEF OwnedIn, MarkedIn, SuppliedIn
<1>4. \A v \in Users \ {u} :
         /\ OwnedIn(own2, v) = OwnedIn(own, v)
         /\ MarkedIn(own2, marks2, v) = MarkedIn(own, marks, v)
  <2>1. \A v \in Users \ {u} : OwnedIn(own2, v) = OwnedIn(own, v) /\ t \notin OwnedIn(own, v)
    BY <1>1 DEF OwnedIn, LedgerAssumption
  <2>2. QED
    BY <1>1, <2>1 DEF MarkedIn
<1>5. /\ Cardinality(OwnedIn(own2, u)) = Cardinality(OwnedIn(own, u)) - 1
      /\ Cardinality(SuppliedIn(own2)) = Cardinality(SuppliedIn(own)) - 1
  <2>1. Cardinality(OwnedIn(own, u) \ {t}) = Cardinality(OwnedIn(own, u)) - 1
    BY <1>2, TokenSets
  <2>2. Cardinality(SuppliedIn(own) \ {t}) = Cardinality(SuppliedIn(own)) - 1
    BY <1>2, TokenSets
  <2>3. QED
    BY <1>3, <2>1, <2>2
<1>6. Cardinality(MarkedIn(own2, marks2, u)) = Cardinality(MarkedIn(own, marks, u)) - Count(marked)
  <2>1. CASE marked
    <3>1. t \in MarkedIn(own, marks, u) /\ Count(marked) = 1
      BY <1>2, <2>1 DEF Count
    <3>2. QED
      BY <1>2, <1>3, <3>1, TokenSets
  <2>2. CASE ~marked
    <3>1. MarkedIn(own2, marks2, u) = MarkedIn(own, marks, u) /\ Count(marked) = 0
      BY <1>2, <1>3, <2>2 DEF Count
    <3>2. Cardinality(MarkedIn(own, marks, u)) \in Nat
      BY <1>2, TokenSets
    <3>3. QED
      BY <3>1, <3>2
  <2>3. QED
    BY <2>1, <2>2
<1>7. marks2 \subseteq SuppliedIn(own2)
  BY <1>1, <1>3 DEF Counted, SuppliedIn
<1>8. QED
  BY <1>0, <1>4, <1>5, <1>6, <1>7 DEF Counted

-----------------------------------------------------------------------------
(* The operations keep the storage exact.                                  *)

\* The fields after MintOne.
Minted(e, d, u, t, n, marked) ==
    /\ e \in Data
    /\ e.owners = [d.owners EXCEPT ![t] = u]
    /\ e.isUsedAsCollateral = d.isUsedAsCollateral \cup (IF marked THEN {t} ELSE {})
    /\ e.ownedTokens = [d.ownedTokens EXCEPT ![u] = [d.ownedTokens[u] EXCEPT ![n] = t]]
    /\ e.ownedTokensIndex = [d.ownedTokensIndex EXCEPT ![t] = n]
    /\ e.allTokens = Append(d.allTokens, t)
    /\ e.allTokensIndex = [d.allTokensIndex EXCEPT ![t] = Len(d.allTokens)]
    /\ e.startTime = d.startTime
    /\ e.balance = d.balance /\ e.collateralizedBalance = d.collateralizedBalance

\* What the fields are that no enumeration is kept in.
HasRest(e, own, bal, coll, marks, starts) ==
    /\ e.owners = own /\ e.isUsedAsCollateral = marks /\ e.startTime = starts
    /\ e.balance = bal /\ e.collateralizedBalance = coll

\* What MintOne writes over the enumerations in b.
WithOwners(b, own, marks) == [b EXCEPT !.owners = own, !.isUsedAsCollateral = marks]

\* That leaves the rest of b.
LEMMA OwnersWritten ==
    ASSUME NEW b \in Data, NEW own \in Owners, NEW marks \in SUBSET Tokens,
           NEW e, e = WithOwners(b, own, marks)
    PROVE  /\ e \in Data
           /\ HasRest(e, own, b.balance, b.collateralizedBalance, marks, b.startTime)
           /\ SameOwnerEnum(e, b) /\ SameAllEnum(e, b)
  BY DEF WithOwners, HasRest, Data, Owners, SameOwnerEnum, SameAllEnum, HasAllEnum

\* MintOne writes these fields.
LEMMA MintWrites ==
    ASSUME NEW d \in Data, NEW u \in Users, NEW t \in Tokens, NEW n \in Slots,
           Len(d.allTokens) \in Slots, NEW marked \in BOOLEAN,
           NEW a, a = AddTokenToAllTokensEnumeration(d, t, Len(d.allTokens)),
           NEW b, b = AddTokenToOwnerEnumeration(a, u, t, n),
           NEW e, e = [b EXCEPT !.owners[t] = u,
                                !.isUsedAsCollateral = @ \cup IF marked THEN {t} ELSE {}]
    PROVE  Minted(e, d, u, t, n, marked)
<1>1. /\ a \in Data /\ SameRest(a, d) /\ SameOwnerEnum(a, d)
      /\ a.allTokens = Append(d.allTokens, t)
      /\ a.allTokensIndex = [d.allTokensIndex EXCEPT ![t] = Len(d.allTokens)]
  BY AddedToAll
<1>2. /\ b \in Data /\ SameRest(b, a) /\ SameAllEnum(b, a)
      /\ b.ownedTokens = [a.ownedTokens EXCEPT ![u] = [a.ownedTokens[u] EXCEPT ![n] = t]]
      /\ b.ownedTokensIndex = [a.ownedTokensIndex EXCEPT ![t] = n]
  <2>1. a \in Data
    BY <1>1
  <2>2. QED
    BY <2>1, AddedToOwner
<1> DEFINE own == [b.owners EXCEPT ![t] = u]
           marks == b.isUsedAsCollateral \cup IF marked THEN {t} ELSE {}
<1>3. own \in Owners /\ marks \in SUBSET Tokens
  BY <1>2 DEF Data, Owners
<1>4. e = WithOwners(b, own, marks)
  BY DEF WithOwners
<1> HIDE DEF own, marks
<1>5. /\ e \in Data
      /\ HasRest(e, own, b.balance, b.collateralizedBalance, marks, b.startTime)
      /\ SameOwnerEnum(e, b) /\ SameAllEnum(e, b)
  <2>1. b \in Data
    BY <1>2
  <2>2. QED
    BY <1>3, <1>4, <2>1, OwnersWritten
<1>6. QED
  BY <1>1, <1>2, <1>5 DEF own, marks, Minted, HasRest, SameRest, SameOwnerEnum, SameAllEnum, HasAllEnum

\* A minted token is counted and enumerated.
LEMMA MintKeepsExact ==
    ASSUME LedgerAssumption, NEW d, NEW len, NEW coll, Exact(d, len, coll),
           NEW u \in Users, NEW t \in Tokens, d.owners[t] = NoOwner, NEW marked \in BOOLEAN,
           NEW e, Minted(e, d, u, t, len[u], marked),
           NEW len2, Raised(len, len2, u, 1), NEW coll2, Raised(coll, coll2, u, Count(marked))
    PROVE  Exact(e, len2, coll2)
<1>1. /\ d \in Data /\ Enumerated(d, len) /\ Counted(d.owners, d.isUsedAsCollateral, len, coll)
      /\ Len(d.allTokens) = Cardinality(SuppliedIn(d.owners))
  BY DEF Exact
<1>2. /\ d.owners \in Owners /\ d.ownedTokens \in SlotsOf /\ d.ownedTokensIndex \in Indexes
      /\ d.allTokens \in Seq(Tokens) /\ d.allTokensIndex \in Indexes
  BY <1>1 DEF Data, Owners, SlotsOf, Indexes
<1>3. (\A v \in Users : len[v] \in Slots) /\ Len(d.allTokens) \in Slots /\ len[u] < Cardinality(Tokens)
  BY LengthsInRange
<1>4. OwnerAdded(d.owners, d.ownedTokens, d.ownedTokensIndex,
                 e.owners, e.ownedTokens, e.ownedTokensIndex, u, t, len[u])
  BY <1>2, <1>3 DEF Minted, OwnerAdded, Owners, SlotsOf, Indexes
<1>5. AllAdded(d.owners, d.allTokens, d.allTokensIndex,
               e.owners, e.allTokens, e.allTokensIndex, u, t)
  BY <1>2 DEF Minted, AllAdded, Owners, Indexes
<1>6. TokenGained(d.owners, d.isUsedAsCollateral, len, coll,
                  e.owners, e.isUsedAsCollateral, len2, coll2, u, t, marked)
  BY <1>2 DEF Minted, TokenGained, Owners
<1>7. AllEnum(e.owners, e.allTokens, e.allTokensIndex) /\ Len(e.allTokens) = Len(d.allTokens) + 1
  <2>1. AllEnum(d.owners, d.allTokens, d.allTokensIndex)
    BY <1>1 DEF Enumerated
  <2>2. QED
    BY <1>2, <1>3, <1>5, <2>1, AddKeepsAllEnum
<1>8. /\ OwnerEnum(e.owners, e.ownedTokens, e.ownedTokensIndex, u, len[u] + 1)
      /\ \A v \in Users \ {u} : OwnerEnum(e.owners, e.ownedTokens, e.ownedTokensIndex, v, len[v])
  <2>1. \A v \in Users : OwnerEnum(d.owners, d.ownedTokens, d.ownedTokensIndex, v, len[v])
    BY <1>1 DEF Enumerated
  <2>2. QED
    BY <1>2, <1>3, <1>4, <2>1, AddKeepsOwnerEnum
<1>9. Enumerated(e, len2)
  BY <1>7, <1>8 DEF Enumerated, Raised
<1>10. /\ Counted(e.owners, e.isUsedAsCollateral, len2, coll2)
       /\ Cardinality(SuppliedIn(e.owners)) = Cardinality(SuppliedIn(d.owners)) + 1
  BY <1>1, <1>2, <1>6, CountGained
<1>11. QED
  BY <1>1, <1>7, <1>9, <1>10 DEF Exact, Minted

\* The fields after BurnOne.
Burned(e, d, u, t, n) ==
    /\ e \in Data
    /\ e.owners = [d.owners EXCEPT ![t] = NoOwner]
    /\ e.isUsedAsCollateral = d.isUsedAsCollateral \ {t}
    /\ OwnerRemoved(d.owners, d.ownedTokens, d.ownedTokensIndex,
                    e.owners, e.ownedTokens, e.ownedTokensIndex, u, t, n)
    /\ AllRemoved(d.owners, d.allTokens, d.allTokensIndex,
                  e.owners, e.allTokens, e.allTokensIndex, t)
    /\ e.startTime = [d.startTime EXCEPT ![t] = 0]
    /\ e.balance = d.balance /\ e.collateralizedBalance = d.collateralizedBalance

\* The enumerations after BurnOne; own is what becomes of the owners.
LEMMA BurnRemoves ==
    ASSUME LedgerAssumption, NEW d \in Data, NEW u \in Users, NEW t \in Tokens, d.owners[t] = u,
           NEW n \in Slots, n > 0,
           OwnerEnum(d.owners, d.ownedTokens, d.ownedTokensIndex, u, n),
           AllEnum(d.owners, d.allTokens, d.allTokensIndex),
           NEW own, own = [d.owners EXCEPT ![t] = NoOwner],
           NEW a, a = RemoveTokenFromAllTokensEnumeration(d, t, Len(d.allTokens)),
           NEW b, b = RemoveTokenFromOwnerEnumeration(a, u, t, n)
    PROVE  /\ own \in Owners /\ b \in Data /\ SameRest(b, d)
           /\ OwnerRemoved(d.owners, d.ownedTokens, d.ownedTokensIndex,
                           own, b.ownedTokens, b.ownedTokensIndex, u, t, n)
           /\ AllRemoved(d.owners, d.allTokens, d.allTokensIndex,
                         own, b.allTokens, b.allTokensIndex, t)
<1> DEFINE hole == d.allTokensIndex[t]
           moved == d.allTokens[Len(d.allTokens)]
           all == SubSeq([d.allTokens EXCEPT ![hole + 1] = moved], 1, Len(d.allTokens) - 1)
           index == [d.allTokensIndex EXCEPT ![moved] = hole, ![t] = 0]
<1>1. /\ d.owners \in Owners /\ d.ownedTokens \in SlotsOf /\ d.ownedTokensIndex \in Indexes
      /\ d.allTokens \in Seq(Tokens) /\ d.allTokensIndex \in Indexes
  BY DEF Data, Owners, SlotsOf, Indexes
<1>2. /\ own \in Owners /\ own[t] = NoOwner /\ (\A s \in Tokens \ {t} : own[s] = d.owners[s])
      /\ d.owners[t] # NoOwner
  BY <1>1 DEF Owners, LedgerAssumption
<1>3. AllRemoved(d.owners, d.allTokens, d.allTokensIndex, own, all, index, t)
  BY <1>2 DEF AllRemoved
<1> HIDE DEF all, index
<1>4. all \in Seq(Tokens) /\ index \in Indexes
  BY <1>1, <1>2, <1>3, RemoveKeepsAllEnum
<1>5. a \in Data /\ SameRest(a, d) /\ SameOwnerEnum(a, d) /\ HasAllEnum(a, all, index)
  BY <1>3, <1>4, RemovedFromAll
<1>6. n \in Nat /\ n - 1 \in Slots /\ n - 1 < n
  BY TokensAreCounted DEF Slots
<1>7. /\ a.ownedTokens[u][n - 1] \in Tokens
      /\ a.ownedTokensIndex[a.ownedTokens[u][n - 1]] = n - 1
  BY <1>5, <1>6 DEF OwnerEnum, SameOwnerEnum
<1>8. /\ b \in Data /\ SameRest(b, a) /\ SameAllEnum(b, a)
      /\ \A v \in Users \ {u} : b.ownedTokens[v] = a.ownedTokens[v]
      /\ b.ownedTokens[u][n - 1] = NoToken
      /\ \A i \in Slots \ {a.ownedTokensIndex[t], n - 1} : b.ownedTokens[u][i] = a.ownedTokens[u][i]
      /\ a.ownedTokensIndex[t] # n - 1 =>
            b.ownedTokens[u][a.ownedTokensIndex[t]] = a.ownedTokens[u][n - 1]
      /\ a.ownedTokensIndex[t] # n - 1 =>
            b.ownedTokensIndex[a.ownedTokens[u][n - 1]] = a.ownedTokensIndex[t]
      /\ \A s \in Tokens \ {t, a.ownedTokens[u][n - 1]} : b.ownedTokensIndex[s] = a.ownedTokensIndex[s]
  <2>1. a \in Data
    BY <1>5
  <2>2. QED
    BY <1>7, <2>1, RemovedFromOwner, SMTT(30)
<1>9. b \in Data /\ b.ownedTokens \in SlotsOf /\ b.ownedTokensIndex \in Indexes
  BY <1>8 DEF Data, SlotsOf, Indexes
<1>10. OwnerRemoved(d.owners, d.ownedTokens, d.ownedTokensIndex,
                    own, b.ownedTokens, b.ownedTokensIndex, u, t, n)
  <2>1. a.ownedTokens = d.ownedTokens /\ a.ownedTokensIndex = d.ownedTokensIndex
    BY <1>5 DEF SameOwnerEnum
  <2>2. /\ \A v \in Users \ {u} : b.ownedTokens[v] = d.ownedTokens[v]
        /\ b.ownedTokens[u][n - 1] = NoToken
        /\ \A i \in Slots \ {d.ownedTokensIndex[t], n - 1} : b.ownedTokens[u][i] = d.ownedTokens[u][i]
    BY <1>8, <2>1
  <2>3. /\ d.ownedTokensIndex[t] # n - 1 =>
              b.ownedTokens[u][d.ownedTokensIndex[t]] = d.ownedTokens[u][n - 1]
        /\ d.ownedTokensIndex[t] # n - 1 =>
              b.ownedTokensIndex[d.ownedTokens[u][n - 1]] = d.ownedTokensIndex[t]
    BY <1>8, <2>1
  <2>4. \A s \in Tokens \ {t, d.ownedTokens[u][n - 1]} : b.ownedTokensIndex[s] = d.ownedTokensIndex[s]
    BY <1>8, <2>1
  <2>5. QED
    BY <1>2, <1>9, <2>2, <2>3, <2>4 DEF OwnerRemoved
<1>11. AllRemoved(d.owners, d.allTokens, d.allTokensIndex,
                  own, b.allTokens, b.allTokensIndex, t)
  BY <1>3, <1>5, <1>8 DEF SameAllEnum, HasAllEnum
<1>12. SameRest(b, d)
  BY <1>5, <1>8 DEF SameRest
<1>13. QED
  BY <1>2, <1>9, <1>10, <1>11, <1>12

\* BurnOne writes these fields.
LEMMA BurnWrites ==
    ASSUME LedgerAssumption, NEW d \in Data, NEW u \in Users, NEW t \in Tokens, NEW n \in Slots,
           NEW own \in Owners, own = [d.owners EXCEPT ![t] = NoOwner],
           NEW b \in Data, SameRest(b, d),
           OwnerRemoved(d.owners, d.ownedTokens, d.ownedTokensIndex,
                        own, b.ownedTokens, b.ownedTokensIndex, u, t, n),
           AllRemoved(d.owners, d.allTokens, d.allTokensIndex,
                      own, b.allTokens, b.allTokensIndex, t),
           NEW e, e = [b EXCEPT !.owners[t] = NoOwner,
                                !.isUsedAsCollateral = @ \ {t},
                                !.startTime[t] = 0]
    PROVE  Burned(e, d, u, t, n)
<1> DEFINE marks == b.isUsedAsCollateral \ {t}
           starts == [b.startTime EXCEPT ![t] = 0]
<1>1. marks \in SUBSET Tokens /\ starts \in [Tokens -> 0 .. MaxTime]
  BY DEF Data, LedgerAssumption
<1>2. /\ b.owners = d.owners /\ b.startTime = d.startTime /\ b.isUsedAsCollateral = d.isUsedAsCollateral
      /\ b.balance = d.balance /\ b.collateralizedBalance = d.collateralizedBalance
  BY DEF SameRest
<1>3. e = [b EXCEPT !.owners = own, !.isUsedAsCollateral = marks, !.startTime = starts]
  BY <1>2
<1> HIDE DEF marks, starts
<1>4. /\ e \in Data /\ e.owners = own /\ e.isUsedAsCollateral = marks /\ e.startTime = starts
      /\ e.balance = b.balance /\ e.collateralizedBalance = b.collateralizedBalance
      /\ SameOwnerEnum(e, b) /\ SameAllEnum(e, b)
  BY <1>1, <1>3 DEF Data, Owners, SameOwnerEnum, SameAllEnum, HasAllEnum
<1>5. QED
  BY <1>2, <1>4 DEF Burned, SameOwnerEnum, SameAllEnum, HasAllEnum, marks, starts

\* What is left after a burn is counted and enumerated.
LEMMA BurnKeepsExact ==
    ASSUME LedgerAssumption, NEW d, NEW len, NEW coll, Exact(d, len, coll),
           NEW u \in Users, NEW t \in Tokens, d.owners[t] = u,
           NEW e, Burned(e, d, u, t, len[u]),
           NEW len2, Lowered(len, len2, u, 1),
           NEW coll2, Lowered(coll, coll2, u, Count(t \in d.isUsedAsCollateral))
    PROVE  Exact(e, len2, coll2)
<1>1. /\ d \in Data /\ Enumerated(d, len) /\ Counted(d.owners, d.isUsedAsCollateral, len, coll)
      /\ Len(d.allTokens) = Cardinality(SuppliedIn(d.owners))
  BY DEF Exact
<1>2. /\ d.owners \in Owners /\ d.ownedTokens \in SlotsOf /\ d.ownedTokensIndex \in Indexes
      /\ d.allTokens \in Seq(Tokens) /\ d.allTokensIndex \in Indexes
      /\ d.owners[t] # NoOwner
  BY <1>1 DEF Data, Owners, SlotsOf, Indexes, LedgerAssumption
<1>3. (\A v \in Users : len[v] \in Slots) /\ len[u] > 0
  BY LengthsInRange
<1>4. /\ OwnerRemoved(d.owners, d.ownedTokens, d.ownedTokensIndex,
                      e.owners, e.ownedTokens, e.ownedTokensIndex, u, t, len[u])
      /\ AllRemoved(d.owners, d.allTokens, d.allTokensIndex,
                    e.owners, e.allTokens, e.allTokensIndex, t)
  BY DEF Burned
<1>5. TokenLost(d.owners, d.isUsedAsCollateral, len, coll,
                e.owners, e.isUsedAsCollateral, len2, coll2, u, t)
  BY <1>2 DEF Burned, TokenLost, Owners
<1>6. AllEnum(e.owners, e.allTokens, e.allTokensIndex) /\ Len(e.allTokens) = Len(d.allTokens) - 1
  <2>1. AllEnum(d.owners, d.allTokens, d.allTokensIndex)
    BY <1>1 DEF Enumerated
  <2>2. QED
    BY <1>2, <1>4, <2>1, RemoveKeepsAllEnum
<1>7. /\ OwnerEnum(e.owners, e.ownedTokens, e.ownedTokensIndex, u, len[u] - 1)
      /\ \A v \in Users \ {u} : OwnerEnum(e.owners, e.ownedTokens, e.ownedTokensIndex, v, len[v])
  <2>1. \A v \in Users : OwnerEnum(d.owners, d.ownedTokens, d.ownedTokensIndex, v, len[v])
    BY <1>1 DEF Enumerated
  <2>2. QED
    BY <1>2, <1>3, <1>4, <2>1, RemoveKeepsOwnerEnum
<1>8. Enumerated(e, len2)
  BY <1>6, <1>7 DEF Enumerated, Lowered
<1>9. /\ Counted(e.owners, e.isUsedAsCollateral, len2, coll2)
      /\ Cardinality(SuppliedIn(e.owners)) = Cardinality(SuppliedIn(d.owners)) - 1
  BY <1>1, <1>2, <1>5, CountLost
<1>10. QED
  BY <1>1, <1>6, <1>8, <1>9 DEF Exact, Burned

\* The enumerations after Transfer: out of the one owner's into the other's.
\* own1 has t without an owner, own2 with the new one.
LEMMA TransferMoves ==
    ASSUME LedgerAssumption, NEW d \in Data, NEW from \in Users, NEW to \in Users, NEW t \in Tokens,
           d.owners[t] = from, NEW n \in Slots, n > 0, NEW k \in Slots,
           OwnerEnum(d.owners, d.ownedTokens, d.ownedTokensIndex, from, n),
           NEW own1, own1 = [d.owners EXCEPT ![t] = NoOwner],
           NEW own2, own2 = [d.owners EXCEPT ![t] = to],
           NEW r, r = RemoveTokenFromOwnerEnumeration(d, from, t, n),
           NEW b, b = AddTokenToOwnerEnumeration(r, to, t, k)
    PROVE  /\ own1 \in Owners /\ own2 \in Owners
           /\ r \in Data /\ b \in Data /\ SameRest(b, d) /\ SameAllEnum(b, d)
           /\ OwnerRemoved(d.owners, d.ownedTokens, d.ownedTokensIndex,
                           own1, r.ownedTokens, r.ownedTokensIndex, from, t, n)
           /\ OwnerAdded(own1, r.ownedTokens, r.ownedTokensIndex,
                         own2, b.ownedTokens, b.ownedTokensIndex, to, t, k)
<1>1. d.owners \in Owners
  BY DEF Data, Owners
<1>2. /\ own1 \in Owners /\ own1[t] = NoOwner /\ (\A s \in Tokens \ {t} : own1[s] = d.owners[s])
      /\ own2 \in Owners /\ own2[t] = to /\ (\A s \in Tokens \ {t} : own2[s] = own1[s])
  BY <1>1 DEF Owners
<1>3. n \in Nat /\ n - 1 \in Slots /\ n - 1 < n
  BY TokensAreCounted DEF Slots
<1>4. /\ d.ownedTokens[from][n - 1] \in Tokens
      /\ d.ownedTokensIndex[d.ownedTokens[from][n - 1]] = n - 1
  BY <1>3 DEF OwnerEnum
<1>5. /\ r \in Data /\ SameRest(r, d) /\ SameAllEnum(r, d)
      /\ \A v \in Users \ {from} : r.ownedTokens[v] = d.ownedTokens[v]
      /\ r.ownedTokens[from][n - 1] = NoToken
      /\ \A i \in Slots \ {d.ownedTokensIndex[t], n - 1} : r.ownedTokens[from][i] = d.ownedTokens[from][i]
      /\ d.ownedTokensIndex[t] # n - 1 =>
            r.ownedTokens[from][d.ownedTokensIndex[t]] = d.ownedTokens[from][n - 1]
      /\ d.ownedTokensIndex[t] # n - 1 =>
            r.ownedTokensIndex[d.ownedTokens[from][n - 1]] = d.ownedTokensIndex[t]
      /\ \A s \in Tokens \ {t, d.ownedTokens[from][n - 1]} : r.ownedTokensIndex[s] = d.ownedTokensIndex[s]
  BY <1>4, RemovedFromOwner
<1>6. r \in Data /\ r.ownedTokens \in SlotsOf /\ r.ownedTokensIndex \in Indexes
  BY <1>5 DEF Data, SlotsOf, Indexes
<1>7. OwnerRemoved(d.owners, d.ownedTokens, d.ownedTokensIndex,
                   own1, r.ownedTokens, r.ownedTokensIndex, from, t, n)
  BY <1>2, <1>5, <1>6 DEF OwnerRemoved
<1>8. /\ b \in Data /\ SameRest(b, r) /\ SameAllEnum(b, r)
      /\ b.ownedTokens = [r.ownedTokens EXCEPT ![to] = [r.ownedTokens[to] EXCEPT ![k] = t]]
      /\ b.ownedTokensIndex = [r.ownedTokensIndex EXCEPT ![t] = k]
  <2>1. r \in Data
    BY <1>6
  <2>2. QED
    BY <2>1, AddedToOwner
<1>9. OwnerAdded(own1, r.ownedTokens, r.ownedTokensIndex,
                 own2, b.ownedTokens, b.ownedTokensIndex, to, t, k)
  BY <1>2, <1>6, <1>8 DEF OwnerAdded, SlotsOf, Indexes
<1>10. SameRest(b, d) /\ SameAllEnum(b, d)
  BY <1>5, <1>8 DEF SameRest, SameAllEnum, HasAllEnum
<1>11. QED
  BY <1>2, <1>6, <1>7, <1>8, <1>9, <1>10

\* t is now the token of to.
Handed(own, own2, t, to) == own2[t] = to /\ \A s \in Tokens \ {t} : own2[s] = own[s]

\* A token that changes hands loses its mark and changes the count of both.
LEMMA TransferCounts ==
    ASSUME LedgerAssumption, NEW own \in Owners, NEW marks, NEW len, NEW coll,
           Counted(own, marks, len, coll),
           NEW from \in Users, NEW to \in Users, from # to, NEW t \in Tokens, own[t] = from,
           NEW own2, Handed(own, own2, t, to),
           NEW len1, Lowered(len, len1, from, 1), NEW len2, Raised(len1, len2, to, 1),
           NEW coll2, Lowered(coll, coll2, from, Count(t \in marks))
    PROVE  /\ Counted(own2, marks \ {t}, len2, coll2)
           /\ \A v \in Users : len2[v] \in Slots /\ coll2[v] \in Slots
<1> DEFINE own1 == [own EXCEPT ![t] = NoOwner]
           marks2 == marks \ {t}
<1>1. /\ own1 \in Owners /\ own1[t] = NoOwner /\ \A s \in Tokens \ {t} : own1[s] = own[s]
      /\ own2[t] = to /\ \A s \in Tokens \ {t} : own2[s] = own1[s]
  BY DEF Owners, Handed
<1>2. \A s : s \in marks2 <=> s \in marks /\ s # t
  OBVIOUS
<1> HIDE DEF own1, marks2
<1>3. Counted(own1, marks2, len1, coll2)
  <2>1. TokenLost(own, marks, len, coll, own1, marks2, len1, coll2, from, t)
    BY <1>1, <1>2 DEF TokenLost
  <2>2. QED
    BY <2>1, CountLost
<1>4. \A v \in Users : coll2[v] \in Slots
  <2>1. \A v \in Users : /\ MarkedIn(own1, marks2, v) \in SUBSET Tokens
                         /\ coll2[v] = Cardinality(MarkedIn(own1, marks2, v))
    BY <1>3 DEF Counted, MarkedIn, OwnedIn
  <2>2. QED
    BY <2>1, TokenSets
<1>5. Counted(own2, marks2, len2, coll2)
  <2>1. Raised(coll2, coll2, to, Count(FALSE))
    BY <1>4 DEF Raised, Count, Slots
  <2>2. TokenGained(own1, marks2, len1, coll2, own2, marks2, len2, coll2, to, t, FALSE)
    BY <1>1, <2>1 DEF TokenGained
  <2>3. QED
    BY <1>1, <1>3, <2>2, CountGained
<1>6. \A v \in Users : len2[v] \in Slots
  <2>1. \A v \in Users : OwnedIn(own2, v) \in SUBSET Tokens /\ len2[v] = Cardinality(OwnedIn(own2, v))
    BY <1>5 DEF Counted, OwnedIn
  <2>2. QED
    BY <2>1, TokenSets
<1>7. QED
  BY <1>4, <1>5, <1>6 DEF marks2

\* Who moves t from one owner to another, in two steps for the proof, keeps the
\* count and the enumerations exact.
LEMMA TransferKeepsExact ==
    ASSUME LedgerAssumption, NEW d, NEW len, NEW coll, Exact(d, len, coll),
           NEW from \in Users, NEW to \in Users, from # to, NEW t \in Tokens, d.owners[t] = from,
           NEW own1 \in Owners, NEW slots1 \in SlotsOf, NEW index1 \in Indexes,
           OwnerRemoved(d.owners, d.ownedTokens, d.ownedTokensIndex,
                        own1, slots1, index1, from, t, len[from]),
           NEW e, e \in Data,
           OwnerAdded(own1, slots1, index1,
                      e.owners, e.ownedTokens, e.ownedTokensIndex, to, t, len[to]),
           SameAllEnum(e, d), e.isUsedAsCollateral = d.isUsedAsCollateral \ {t},
           NEW len1, Lowered(len, len1, from, 1), NEW len2, Raised(len1, len2, to, 1),
           NEW coll2, Lowered(coll, coll2, from, Count(t \in d.isUsedAsCollateral))
    PROVE  Exact(e, len2, coll2)
<1>1. /\ d \in Data /\ Enumerated(d, len) /\ Counted(d.owners, d.isUsedAsCollateral, len, coll)
      /\ Len(d.allTokens) = Cardinality(SuppliedIn(d.owners))
  BY DEF Exact
<1>2. /\ d.owners \in Owners /\ d.ownedTokens \in SlotsOf /\ d.ownedTokensIndex \in Indexes
      /\ d.owners[t] # NoOwner
  BY <1>1 DEF Data, Owners, SlotsOf, Indexes, LedgerAssumption
<1>3. (\A v \in Users : len[v] \in Slots) /\ len[from] > 0
  BY LengthsInRange
<1>4. len[to] < Cardinality(Tokens)
  <2>1. OwnedIn(d.owners, to) \in SUBSET Tokens /\ t \in Tokens \ OwnedIn(d.owners, to)
    BY <1>2 DEF OwnedIn
  <2>2. len[to] = Cardinality(OwnedIn(d.owners, to))
    BY <1>1 DEF Counted
  <2>3. QED
    BY <2>1, <2>2, TokenSets
<1>5. /\ own1[t] = NoOwner /\ \A s \in Tokens \ {t} : own1[s] = d.owners[s]
      /\ e.owners[t] = to /\ \A s \in Tokens \ {t} : e.owners[s] = d.owners[s]
  BY DEF OwnerRemoved, OwnerAdded
<1>6. /\ OwnerEnum(own1, slots1, index1, from, len[from] - 1)
      /\ \A v \in Users \ {from} : OwnerEnum(own1, slots1, index1, v, len[v])
  <2>1. \A v \in Users : OwnerEnum(d.owners, d.ownedTokens, d.ownedTokensIndex, v, len[v])
    BY <1>1 DEF Enumerated
  <2>2. QED
    BY <1>2, <1>3, <2>1, RemoveKeepsOwnerEnum
<1>7. /\ OwnerEnum(e.owners, e.ownedTokens, e.ownedTokensIndex, to, len[to] + 1)
      /\ \A v \in Users \ {to} : \A m \in Slots : OwnerEnum(own1, slots1, index1, v, m) =>
            OwnerEnum(e.owners, e.ownedTokens, e.ownedTokensIndex, v, m)
  <2>1. OwnerEnum(own1, slots1, index1, to, len[to]) /\ own1[t] = NoOwner /\ len[to] \in Slots
    BY <1>3, <1>5, <1>6
  <2>2. QED
    BY <1>4, <2>1, AddKeepsOwnerEnum
<1>8. len[from] - 1 \in Slots
  BY <1>3, TokensAreCounted DEF Slots
<1>9. \A v \in Users : OwnerEnum(e.owners, e.ownedTokens, e.ownedTokensIndex, v, len2[v])
  <2>1. len2[to] = len[to] + 1
    BY DEF Lowered, Raised
  <2>2. len2[from] = len[from] - 1
    BY DEF Lowered, Raised
  <2>3. \A v \in Users \ {from, to} : len2[v] = len[v]
    BY DEF Lowered, Raised
  <2>4. OwnerEnum(e.owners, e.ownedTokens, e.ownedTokensIndex, from, len[from] - 1)
    BY <1>6, <1>7, <1>8
  <2>5. \A v \in Users \ {from, to} : OwnerEnum(e.owners, e.ownedTokens, e.ownedTokensIndex, v, len[v])
    BY <1>3, <1>6, <1>7
  <2>6. QED
    BY <1>7, <2>1, <2>2, <2>3, <2>4, <2>5
<1>10. AllEnum(e.owners, e.allTokens, e.allTokensIndex) /\ Len(e.allTokens) = Len(d.allTokens)
  <2>1. AllEnum(d.owners, d.allTokens, d.allTokensIndex)
    BY <1>1 DEF Enumerated
  <2>2. e.allTokens = d.allTokens /\ e.allTokensIndex = d.allTokensIndex
    BY DEF SameAllEnum, HasAllEnum
  <2>3. \A s \in Tokens : e.owners[s] # NoOwner <=> d.owners[s] # NoOwner
    BY <1>2, <1>5 DEF LedgerAssumption
  <2>4. \A i \in 1 .. Len(d.allTokens) : d.allTokens[i] \in Tokens
    BY <1>1 DEF Data
  <2>5. QED
    BY <2>1, <2>2, <2>3, <2>4 DEF AllEnum
<1>11. Enumerated(e, len2)
  BY <1>9, <1>10 DEF Enumerated
<1>12. Counted(e.owners, d.isUsedAsCollateral \ {t}, len2, coll2)
  <2>1. Handed(d.owners, e.owners, t, to)
    BY <1>5 DEF Handed
  <2>2. QED
    BY <1>1, <1>2, <2>1, TransferCounts
<1>13. SuppliedIn(e.owners) = SuppliedIn(d.owners)
  BY <1>2, <1>5 DEF SuppliedIn, LedgerAssumption
<1>14. QED
  BY <1>1, <1>10, <1>11, <1>12, <1>13 DEF Exact

\* Only the values for users count.
LEMMA ExactSame ==
    ASSUME NEW d, NEW len, NEW coll, Exact(d, len, coll), NEW len2, NEW coll2,
           \A u \in Users : len2[u] = len[u], \A u \in Users : coll2[u] = coll[u]
    PROVE  Exact(d, len2, coll2)
<1>1. Enumerated(d, len2)
  BY DEF Exact, Enumerated
<1>2. Counted(d.owners, d.isUsedAsCollateral, len2, coll2)
  BY DEF Exact, Counted
<1>3. QED
  BY <1>1, <1>2 DEF Exact

\* The storage starts exact.
LEMMA EmptyIsExact ==
    ASSUME LedgerAssumption
    PROVE  Exact(EmptyData, EmptyData.balance, EmptyData.collateralizedBalance)
<1>1. 0 \in Slots /\ Slots \subseteq Nat /\ 0 \in 0 .. MaxTime
  BY TokensAreCounted DEF Slots, LedgerAssumption
<1>2. EmptyData \in Data
  BY <1>1 DEF EmptyData, Data
<1>3. \A t \in Tokens : EmptyData.owners[t] = NoOwner
  BY DEF EmptyData
<1>4. /\ \A u \in Users : EmptyData.balance[u] = 0 /\ EmptyData.collateralizedBalance[u] = 0
      /\ \A u \in Users : \A i \in Slots : EmptyData.ownedTokens[u][i] = NoToken
      /\ EmptyData.allTokens = <<>> /\ EmptyData.isUsedAsCollateral = {}
  BY DEF EmptyData
<1>5. /\ SuppliedIn(EmptyData.owners) = {}
      /\ \A u \in Users : OwnedIn(EmptyData.owners, u) = {}
      /\ \A u \in Users : MarkedIn(EmptyData.owners, EmptyData.isUsedAsCollateral, u) = {}
  BY <1>3 DEF SuppliedIn, OwnedIn, MarkedIn, LedgerAssumption
<1>6. Cardinality({}) = 0
  BY FS_EmptySet
<1>7. Counted(EmptyData.owners, EmptyData.isUsedAsCollateral,
              EmptyData.balance, EmptyData.collateralizedBalance)
  BY <1>4, <1>5, <1>6 DEF Counted
<1>8. Len(EmptyData.allTokens) = 0 /\ Len(EmptyData.allTokens) = Cardinality(SuppliedIn(EmptyData.owners))
  BY <1>4, <1>5, <1>6
<1>9. AllEnum(EmptyData.owners, EmptyData.allTokens, EmptyData.allTokensIndex)
  BY <1>3, <1>8 DEF AllEnum
<1>10. \A u \in Users : OwnerEnum(EmptyData.owners, EmptyData.ownedTokens, EmptyData.ownedTokensIndex, u, 0)
  BY <1>1, <1>3, <1>4 DEF OwnerEnum, LedgerAssumption
<1>11. Enumerated(EmptyData, EmptyData.balance)
  BY <1>4, <1>9, <1>10 DEF Enumerated
<1>12. QED
  BY <1>2, <1>7, <1>8, <1>11 DEF Exact

\* What StartAuction and EndAuction write.
TimedAs(d, t, time) == [d EXCEPT !.startTime[t] = time]

\* Nothing the enumerations or the counters say depends on an auction.
LEMMA AuctionKeepsExact ==
    ASSUME NEW d, NEW len, NEW coll, Exact(d, len, coll), NEW t \in Tokens, NEW time \in 0 .. MaxTime,
           NEW e, e = TimedAs(d, t, time)
    PROVE  /\ Exact(e, len, coll) /\ SameOwnerEnum(e, d) /\ SameAllEnum(e, d)
           /\ e.owners = d.owners /\ e.isUsedAsCollateral = d.isUsedAsCollateral
           /\ e.balance = d.balance /\ e.collateralizedBalance = d.collateralizedBalance
           /\ e.startTime = [d.startTime EXCEPT ![t] = time]
<1> DEFINE starts == [d.startTime EXCEPT ![t] = time]
<1>1. d \in Data
  BY DEF Exact
<1>2. starts \in [Tokens -> 0 .. MaxTime]
  BY <1>1 DEF Data
<1>3. e = [d EXCEPT !.startTime = starts]
  BY DEF TimedAs
<1> HIDE DEF starts
<1>4. /\ e \in Data /\ e.startTime = starts
      /\ e.owners = d.owners /\ e.isUsedAsCollateral = d.isUsedAsCollateral
      /\ e.balance = d.balance /\ e.collateralizedBalance = d.collateralizedBalance
      /\ SameOwnerEnum(e, d) /\ SameAllEnum(e, d)
  BY <1>1, <1>2, <1>3 DEF Data, SameOwnerEnum, SameAllEnum, HasAllEnum
<1>5. Exact(e, len, coll)
  BY <1>4 DEF Exact, Enumerated, SameOwnerEnum, SameAllEnum, HasAllEnum
<1>6. QED
  BY <1>4, <1>5 DEF starts

\* What FinishMint and FinishBurn write.
CommitAs(d, u, n, m) == [d EXCEPT !.balance[u] = n, !.collateralizedBalance[u] = m]

\* The user's two counters are written at the end of a loop.
LEMMA CommitKeepsExact ==
    ASSUME LedgerAssumption, NEW d, NEW len, NEW coll, Exact(d, len, coll), NEW u \in Users,
           \A v \in Users \ {u} : len[v] = d.balance[v],
           \A v \in Users \ {u} : coll[v] = d.collateralizedBalance[v],
           NEW e, e = CommitAs(d, u, len[u], coll[u])
    PROVE  /\ Exact(e, e.balance, e.collateralizedBalance)
           /\ e.owners = d.owners /\ e.isUsedAsCollateral = d.isUsedAsCollateral
           /\ e.startTime = d.startTime
<1> DEFINE balances == [d.balance EXCEPT ![u] = len[u]]
           collaterals == [d.collateralizedBalance EXCEPT ![u] = coll[u]]
<1>1. d \in Data /\ len[u] \in Slots /\ coll[u] \in Slots
  BY LengthsInRange DEF Exact
<1>2. /\ balances \in [Users -> Slots] /\ collaterals \in [Users -> Slots]
      /\ \A v \in Users : balances[v] = len[v] /\ collaterals[v] = coll[v]
  BY <1>1 DEF Data
<1>3. e = [d EXCEPT !.balance = balances, !.collateralizedBalance = collaterals]
  BY DEF CommitAs
<1> HIDE DEF balances, collaterals
<1>4. /\ e \in Data /\ e.balance = balances /\ e.collateralizedBalance = collaterals
      /\ e.owners = d.owners /\ e.isUsedAsCollateral = d.isUsedAsCollateral
      /\ e.startTime = d.startTime
      /\ SameOwnerEnum(e, d) /\ SameAllEnum(e, d)
  BY <1>1, <1>2, <1>3 DEF Data, SameOwnerEnum, SameAllEnum, HasAllEnum
<1>5. Exact(e, len, coll)
  BY <1>4 DEF Exact, Enumerated, SameOwnerEnum, SameAllEnum, HasAllEnum
<1>6. Exact(e, balances, collaterals)
  BY <1>2, <1>5, ExactSame
<1>7. QED
  BY <1>4, <1>6

\* The fields after SetOne.
Marked(e, d, t, use, coll2) ==
    /\ e \in Data
    /\ e.isUsedAsCollateral = IF use THEN d.isUsedAsCollateral \cup {t} ELSE d.isUsedAsCollateral \ {t}
    /\ e.collateralizedBalance = coll2
    /\ e.owners = d.owners /\ e.startTime = d.startTime /\ e.balance = d.balance
    /\ SameOwnerEnum(e, d) /\ SameAllEnum(e, d)

\* What SetOne writes.
MarkOf(d, u, t, use) ==
    [d EXCEPT !.isUsedAsCollateral = IF use THEN @ \cup {t} ELSE @ \ {t},
              !.collateralizedBalance[u] = IF use THEN @ + 1 ELSE @ - 1]

\* A mark that changes is counted.
LEMMA MarkKeepsExact ==
    ASSUME LedgerAssumption, NEW d, NEW len, Exact(d, len, d.collateralizedBalance),
           NEW u \in Users, NEW t \in Tokens, d.owners[t] = u,
           NEW use \in BOOLEAN, (t \in d.isUsedAsCollateral) # use,
           NEW e, e = MarkOf(d, u, t, use)
    PROVE  Exact(e, len, e.collateralizedBalance) /\ Marked(e, d, t, use, e.collateralizedBalance)
<1> DEFINE marks == IF use THEN d.isUsedAsCollateral \cup {t} ELSE d.isUsedAsCollateral \ {t}
           coll == d.collateralizedBalance
           coll2 == [coll EXCEPT ![u] = IF use THEN @ + 1 ELSE @ - 1]
<1>1. /\ d \in Data /\ Enumerated(d, len) /\ Counted(d.owners, d.isUsedAsCollateral, len, coll)
      /\ Len(d.allTokens) = Cardinality(SuppliedIn(d.owners))
  BY DEF Exact
<1>2. /\ d.owners \in Owners /\ coll \in [Users -> Slots] /\ d.isUsedAsCollateral \in SUBSET Tokens
      /\ marks \in SUBSET Tokens /\ u # NoOwner
  BY <1>1 DEF Data, Owners, LedgerAssumption
<1>3. e = [d EXCEPT !.isUsedAsCollateral = marks, !.collateralizedBalance = coll2]
  BY DEF MarkOf
<1>4. \A v \in Users \ {u} : MarkedIn(d.owners, marks, v) = MarkedIn(d.owners, d.isUsedAsCollateral, v)
  BY DEF MarkedIn, OwnedIn
<1>5. Cardinality(MarkedIn(d.owners, marks, u)) = coll2[u]
  <2> DEFINE was == MarkedIn(d.owners, d.isUsedAsCollateral, u)
  <2>1. was \in SUBSET Tokens /\ coll[u] = Cardinality(was)
    BY <1>1 DEF MarkedIn, OwnedIn, Counted
  <2>2. CASE use
    <3>1. MarkedIn(d.owners, marks, u) = was \cup {t} /\ t \in Tokens \ was
      BY <2>2 DEF MarkedIn, OwnedIn
    <3>2. coll2[u] = coll[u] + 1
      BY <1>2, <2>2
    <3> HIDE DEF was, coll2, marks
    <3>3. QED
      BY <2>1, <3>1, <3>2, TokenSets
  <2>3. CASE ~use
    <3>1. MarkedIn(d.owners, marks, u) = was \ {t} /\ t \in was
      BY <2>3 DEF MarkedIn, OwnedIn
    <3>2. coll2[u] = coll[u] - 1
      BY <1>2, <2>3
    <3> HIDE DEF was, coll2, marks
    <3>3. QED
      BY <2>1, <3>1, <3>2, TokenSets
  <2>4. QED
    BY <2>2, <2>3
<1>6. coll2 \in [Users -> Slots] /\ \A v \in Users \ {u} : coll2[v] = coll[v]
  <2>1. MarkedIn(d.owners, marks, u) \in SUBSET Tokens
    BY DEF MarkedIn, OwnedIn
  <2>2. coll2[u] \in Slots
    BY <1>5, <2>1, TokenSets
  <2>3. QED
    BY <1>2, <2>2
<1>7. marks \subseteq SuppliedIn(d.owners)
  BY <1>1, <1>2 DEF Counted, SuppliedIn
<1>8. Counted(d.owners, marks, len, coll2)
  <2>1. \A v \in Users : len[v] = Cardinality(OwnedIn(d.owners, v))
    BY <1>1 DEF Counted
  <2>2. \A v \in Users \ {u} : coll[v] = Cardinality(MarkedIn(d.owners, d.isUsedAsCollateral, v))
    BY <1>1 DEF Counted
  <2> HIDE DEF marks, coll2
  <2>3. QED
    BY <1>4, <1>5, <1>6, <1>7, <2>1, <2>2 DEF Counted
<1> HIDE DEF marks, coll2
<1>9. /\ e \in Data /\ e.isUsedAsCollateral = marks /\ e.collateralizedBalance = coll2
      /\ e.owners = d.owners /\ e.startTime = d.startTime /\ e.balance = d.balance
      /\ SameOwnerEnum(e, d) /\ SameAllEnum(e, d)
  BY <1>1, <1>2, <1>3, <1>6 DEF Data, SameOwnerEnum, SameAllEnum, HasAllEnum
<1>10. Enumerated(e, len)
  BY <1>1, <1>9 DEF Enumerated, SameOwnerEnum, SameAllEnum, HasAllEnum
<1>11. Exact(e, len, coll2)
  <2>1. e.allTokens = d.allTokens
    BY <1>9 DEF SameAllEnum, HasAllEnum
  <2>2. QED
    BY <1>1, <1>8, <1>9, <1>10, <2>1 DEF Exact
<1>12. QED
  BY <1>9, <1>11 DEF Marked, marks

\* The storage b with other values there.
RestOf(b, own, bal, coll, marks, starts) ==
    [b EXCEPT !.balance = bal, !.collateralizedBalance = coll, !.owners = own,
              !.isUsedAsCollateral = marks, !.startTime = starts]

\* A storage with other values in the fields that no enumeration is kept in.
LEMMA RestWritten ==
    ASSUME NEW b \in Data, NEW own2 \in Owners, NEW marks \in SUBSET Tokens,
           NEW bal2 \in [Users -> Slots], NEW coll2 \in [Users -> Slots],
           NEW starts \in [Tokens -> 0 .. MaxTime],
           NEW e, e = RestOf(b, own2, bal2, coll2, marks, starts)
    PROVE  /\ e \in Data /\ HasRest(e, own2, bal2, coll2, marks, starts)
           /\ SameOwnerEnum(e, b) /\ SameAllEnum(e, b)
  BY DEF HasRest, RestOf, Data, Owners, SameOwnerEnum, SameAllEnum, HasAllEnum

\* What Transfer writes, over the enumerations in b.
HandOver(b, from, to, t, n) ==
    [b EXCEPT !.balance[from] = @ - 1,
              !.balance[to] = @ + 1,
              !.collateralizedBalance[from] = @ - n,
              !.owners[t] = to,
              !.isUsedAsCollateral = @ \ {t},
              !.startTime[t] = 0]

HandedOver(d, from, to, t, n, own2, bal2, coll2) ==
    /\ own2 = [d.owners EXCEPT ![t] = to]
    /\ bal2 = [d.balance EXCEPT ![from] = @ - 1, ![to] = @ + 1]
    /\ coll2 = [d.collateralizedBalance EXCEPT ![from] = @ - n]

\* The fields after Transfer to another user.
LEMMA TransferWrites ==
    ASSUME NEW d \in Data, NEW from \in Users, NEW to \in Users, NEW t \in Tokens,
           NEW b \in Data, SameRest(b, d), NEW n,
           NEW own2 \in Owners, NEW bal2 \in [Users -> Slots], NEW coll2 \in [Users -> Slots],
           HandedOver(d, from, to, t, n, own2, bal2, coll2),
           NEW e, e = HandOver(b, from, to, t, n)
    PROVE  /\ e \in Data /\ SameOwnerEnum(e, b) /\ SameAllEnum(e, b)
           /\ HasRest(e, own2, bal2, coll2, d.isUsedAsCollateral \ {t}, [d.startTime EXCEPT ![t] = 0])
<1> DEFINE marks == d.isUsedAsCollateral \ {t}
           starts == [d.startTime EXCEPT ![t] = 0]
<1>1. marks \in SUBSET Tokens /\ starts \in [Tokens -> 0 .. MaxTime]
  BY LedgerAssumption DEF Data, LedgerAssumption
<1>2. /\ b.owners = d.owners /\ b.startTime = d.startTime /\ b.isUsedAsCollateral = d.isUsedAsCollateral
      /\ b.balance = d.balance /\ b.collateralizedBalance = d.collateralizedBalance
  BY DEF SameRest
<1>3. e = RestOf(b, own2, bal2, coll2, marks, starts)
  BY <1>2 DEF RestOf, HandOver, HandedOver
<1> HIDE DEF marks, starts
<1>4. /\ e \in Data /\ HasRest(e, own2, bal2, coll2, marks, starts)
      /\ SameOwnerEnum(e, b) /\ SameAllEnum(e, b)
  BY <1>1, <1>3, RestWritten
<1>5. QED
  BY <1>4 DEF marks, starts

-----------------------------------------------------------------------------
(* The invariant.                                                          *)

\* What the two counters of a user should be, loops included.
Lengths == [u \in Users |-> OwnedLength(u)]
CollateralLengths ==
    [u \in Users |-> data.collateralizedBalance[u]
                       + Pending("mint", u, tx.delta) - Pending("burn", u, tx.delta)]

Loops ==
    [op : {"mint", "burn", "set"}, user : Users, use : BOOLEAN,
     index : Nat, delta : Nat, before : Data]

\* What a loop of u has done so far, from the storage d0 to the storage d.
Minting(d0, d, u) ==
    /\ d.startTime = d0.startTime
    /\ \A t \in Tokens :
          \/ d.owners[t] = d0.owners[t] /\ (t \in d.isUsedAsCollateral <=> t \in d0.isUsedAsCollateral)
          \/ d0.owners[t] = NoOwner /\ d.owners[t] = u

Burning(d0, d, u, validity) ==
    \A t \in Tokens :
        \/ /\ d.owners[t] = d0.owners[t] /\ d.startTime[t] = d0.startTime[t]
           /\ t \in d.isUsedAsCollateral <=> t \in d0.isUsedAsCollateral
        \/ /\ d0.owners[t] = u /\ ~(d0.startTime[t] > validity[u])
           /\ d.owners[t] = NoOwner /\ d.startTime[t] = 0 /\ t \notin d.isUsedAsCollateral

Setting(d0, d, u, use, validity) ==
    /\ d.owners = d0.owners /\ d.startTime = d0.startTime
    /\ \A t \in Tokens :
          \/ t \in d.isUsedAsCollateral <=> t \in d0.isUsedAsCollateral
          \/ /\ d0.owners[t] = u /\ (t \in d.isUsedAsCollateral <=> use)
             /\ use \/ ~(d0.startTime[t] > validity[u])

\* The loop x, at the storage d: it started from an exact storage, has not
\* written the counters, and keeps to one user.
Running(x, d, validity) ==
    /\ x \in Loops
    /\ Exact(x.before, x.before.balance, x.before.collateralizedBalance)
    /\ d.balance = x.before.balance
    /\ x.op = "mint" => /\ Minting(x.before, d, x.user)
                        /\ d.collateralizedBalance = x.before.collateralizedBalance
                        /\ Len(d.allTokens) = Len(x.before.allTokens) + x.index
    /\ x.op = "burn" => /\ Burning(x.before, d, x.user, validity)
                        /\ d.collateralizedBalance = x.before.collateralizedBalance
                        /\ Len(d.allTokens) = Len(x.before.allTokens) - x.index
    /\ x.op = "set" => Setting(x.before, d, x.user, x.use, validity)

LedgerInv ==
    /\ auctionValidityTime \in [Users -> 0 .. MaxTime]
    /\ now \in 1 .. MaxTime
    /\ Exact(data, Lengths, CollateralLengths)
    /\ tx = Idle \/ Running(tx, data, auctionValidityTime)

\* Outside a loop the counters are what they should be, and the reverse.
LEMMA IdleIsExact ==
    ASSUME tx = Idle
    PROVE  Exact(data, Lengths, CollateralLengths)
              <=> Exact(data, data.balance, data.collateralizedBalance)
<1>1. tx.op # "mint" /\ tx.op # "burn"
  BY DEF Idle
<1> DEFINE E1 == Exact(data, Lengths, CollateralLengths)
           E2 == Exact(data, data.balance, data.collateralizedBalance)
<1>2. ASSUME E1 \/ E2 PROVE data \in Data
  BY <1>2 DEF Exact
<1>3. ASSUME data \in Data
      PROVE  \A u \in Users : /\ Lengths[u] = data.balance[u]
                              /\ CollateralLengths[u] = data.collateralizedBalance[u]
  <2>1. \A u \in Users : data.balance[u] \in Int /\ data.collateralizedBalance[u] \in Int
    BY <1>3 DEF Data, Slots
  <2>2. QED
    BY <1>1, <2>1 DEF Lengths, CollateralLengths, OwnedLength, Pending
<1>4. E1 => E2
  BY <1>2, <1>3, ExactSame
<1>5. E2 => E1
  BY <1>2, <1>3, ExactSame
<1>6. QED
  BY <1>4, <1>5

\* The empty storage satisfies the invariant.
LEMMA InitLedgerInv == LedgerInit => LedgerInv
<1>1. SUFFICES ASSUME LedgerInit PROVE LedgerInv
  OBVIOUS
<1>2. Exact(data, Lengths, CollateralLengths)
  BY <1>1, LedgerAssumption, EmptyIsExact, IdleIsExact DEF LedgerInit
<1>3. 0 \in 0 .. MaxTime /\ 1 \in 1 .. MaxTime
  BY LedgerAssumption DEF LedgerAssumption
<1>4. QED
  BY <1>1, <1>2, <1>3 DEF LedgerInit, LedgerInv

\* A loop begins.
LEMMA BeginKeepsLedgerInv ==
    ASSUME LedgerInv, NEW op \in {"mint", "burn", "set"}, NEW u \in Users, NEW use \in BOOLEAN,
           Begin(Loop(op, u, use))
    PROVE  LedgerInv'
<1>1. /\ tx = Idle /\ tx' = Loop(op, u, use) /\ data' = data
      /\ auctionValidityTime' = auctionValidityTime /\ now' = now
  BY DEF Begin
<1>2. Exact(data, data.balance, data.collateralizedBalance) /\ data \in Data
  BY <1>1, IdleIsExact DEF LedgerInv, Exact
<1>3. /\ tx'.op = op /\ tx'.user = u /\ tx'.use = use /\ tx'.index = 0 /\ tx'.delta = 0
      /\ tx'.before = data /\ tx' \in Loops
  BY <1>1, <1>2 DEF Loop, Loops
<1>4. \A v \in Users : /\ Lengths'[v] = data.balance[v]
                       /\ CollateralLengths'[v] = data.collateralizedBalance[v]
  <2>1. \A v \in Users : data.balance[v] \in Int /\ data.collateralizedBalance[v] \in Int
    BY <1>2 DEF Data, Slots
  <2>2. QED
    BY <1>1, <1>3, <2>1 DEF Lengths, CollateralLengths, OwnedLength, Pending
<1>5. Exact(data, Lengths', CollateralLengths')
  BY <1>2, <1>4, ExactSame
<1>6. Minting(data, data, u) /\ Burning(data, data, u, auctionValidityTime)
      /\ Setting(data, data, u, use, auctionValidityTime)
  BY DEF Minting, Burning, Setting
<1>7. Len(data.allTokens) \in Nat
  BY <1>2 DEF Data
<1>8. Running(tx', data, auctionValidityTime)
  BY <1>2, <1>3, <1>6, <1>7 DEF Running
<1>9. QED
  BY <1>1, <1>5, <1>8 DEF LedgerInv

\* The numbers the iterations of a loop compute with.
LEMMA InALoop ==
    ASSUME LedgerInv, tx.op \in {"mint", "burn", "set"}
    PROVE  /\ Running(tx, data, auctionValidityTime) /\ tx # Idle
           /\ tx.user \in Users /\ tx.use \in BOOLEAN /\ tx.index \in Nat /\ tx.delta \in Nat
           /\ tx.before \in Data /\ tx.before.balance = data.balance
           /\ data \in Data /\ Len(data.allTokens) \in Slots
           /\ \A u \in Users : Lengths[u] \in Slots /\ CollateralLengths[u] \in Slots
           /\ tx.op = "mint" => /\ OldBalance + tx.index = Lengths[tx.user]
                                /\ OldTotalSupply + tx.index = Len(data.allTokens)
                                /\ OldCollateralizedBalance + tx.delta = CollateralLengths[tx.user]
           /\ tx.op = "burn" => /\ OldBalance - tx.index = Lengths[tx.user]
                                /\ OldTotalSupply - tx.index = Len(data.allTokens)
                                /\ OldCollateralizedBalance - tx.delta = CollateralLengths[tx.user]
           /\ tx.op # "set" => \A v \in Users \ {tx.user} :
                                  /\ Lengths[v] = data.balance[v]
                                  /\ CollateralLengths[v] = data.collateralizedBalance[v]
           /\ tx.op = "set" => \A v \in Users :
                                  /\ Lengths[v] = data.balance[v]
                                  /\ CollateralLengths[v] = data.collateralizedBalance[v]
<1>1. Running(tx, data, auctionValidityTime) /\ tx # Idle /\ Exact(data, Lengths, CollateralLengths)
  BY DEF LedgerInv, Idle
<1>2. /\ tx.user \in Users /\ tx.use \in BOOLEAN /\ tx.index \in Nat /\ tx.delta \in Nat
      /\ tx.before \in Data /\ tx.before.balance = data.balance
      /\ tx.op # "set" => tx.before.collateralizedBalance = data.collateralizedBalance
  BY <1>1 DEF Running, Loops
<1>3. data \in Data /\ \A u \in Users : data.balance[u] \in Int /\ data.collateralizedBalance[u] \in Int
  BY <1>1 DEF Exact, Data, Slots
<1>4. /\ Len(data.allTokens) \in Slots
      /\ \A u \in Users : Lengths[u] \in Slots /\ CollateralLengths[u] \in Slots
  BY <1>1, LengthsInRange, LedgerAssumption
<1>5. \A v \in Users \ {tx.user} : /\ Lengths[v] = data.balance[v]
                                   /\ CollateralLengths[v] = data.collateralizedBalance[v]
  BY <1>3 DEF Lengths, CollateralLengths, OwnedLength, Pending
<1>6. ASSUME tx.op = "mint"
      PROVE  /\ OldBalance + tx.index = Lengths[tx.user]
             /\ OldTotalSupply + tx.index = Len(data.allTokens)
             /\ OldCollateralizedBalance + tx.delta = CollateralLengths[tx.user]
  <2>1. /\ Lengths[tx.user] = data.balance[tx.user] + tx.index
        /\ CollateralLengths[tx.user] = data.collateralizedBalance[tx.user] + tx.delta
    BY <1>2, <1>3, <1>6 DEF Lengths, CollateralLengths, OwnedLength, Pending
  <2>2. Len(data.allTokens) = OldTotalSupply + tx.index
    BY <1>1, <1>6 DEF Running, OldTotalSupply
  <2>3. QED
    BY <1>2, <1>6, <2>1, <2>2 DEF OldBalance, OldCollateralizedBalance
<1>7. ASSUME tx.op = "burn"
      PROVE  /\ OldBalance - tx.index = Lengths[tx.user]
             /\ OldTotalSupply - tx.index = Len(data.allTokens)
             /\ OldCollateralizedBalance - tx.delta = CollateralLengths[tx.user]
  <2>1. /\ Lengths[tx.user] = data.balance[tx.user] - tx.index
        /\ CollateralLengths[tx.user] = data.collateralizedBalance[tx.user] - tx.delta
    BY <1>2, <1>3, <1>7 DEF Lengths, CollateralLengths, OwnedLength, Pending
  <2>2. Len(data.allTokens) = OldTotalSupply - tx.index
    BY <1>1, <1>7 DEF Running, OldTotalSupply
  <2>3. QED
    BY <1>2, <1>7, <2>1, <2>2 DEF OldBalance, OldCollateralizedBalance
<1>8. tx.op = "set" => \A v \in Users : /\ Lengths[v] = data.balance[v]
                                        /\ CollateralLengths[v] = data.collateralizedBalance[v]
  BY <1>3 DEF Lengths, CollateralLengths, OwnedLength, Pending
<1>9. QED
  BY <1>1, <1>2, <1>3, <1>4, <1>5, <1>6, <1>7, <1>8

\* What an iteration leaves as it is, and what the counters become.
LEMMA Iterated ==
    ASSUME LedgerInv, tx.op \in {"mint", "burn", "set"}, NEW d2, NEW change \in Nat, Iterate(d2, change)
    PROVE  /\ data' = d2 /\ auctionValidityTime' = auctionValidityTime /\ now' = now
           /\ tx' \in Loops /\ tx'.op = tx.op /\ tx'.user = tx.user /\ tx'.use = tx.use
           /\ tx'.before = tx.before /\ tx'.index = tx.index + 1 /\ tx'.delta = tx.delta + change
<1>1. tx \in Loops
  BY InALoop DEF Running
<1>2. tx' = [tx EXCEPT !.index = @ + 1, !.delta = @ + change]
  BY DEF Iterate
<1>3. tx.index + 1 \in Nat /\ tx.delta + change \in Nat
  BY <1>1 DEF Loops
<1>4. /\ tx' \in Loops /\ tx'.op = tx.op /\ tx'.user = tx.user /\ tx'.use = tx.use
      /\ tx'.before = tx.before /\ tx'.index = tx.index + 1 /\ tx'.delta = tx.delta + change
  BY ONLY <1>1, <1>2, <1>3 DEF Loops
<1>5. QED
  BY <1>4 DEF Iterate

\* An iteration of minting adds to what the counters should be, one of burning
\* takes off.
LEMMA CountersIterated ==
    ASSUME LedgerInv, tx.op \in {"mint", "burn"}, NEW d2, NEW change \in Nat, Iterate(d2, change),
           d2.balance = data.balance, d2.collateralizedBalance = data.collateralizedBalance
    PROVE  /\ tx.op = "mint" => /\ Raised(Lengths, Lengths', tx.user, 1)
                                /\ Raised(CollateralLengths, CollateralLengths', tx.user, change)
           /\ tx.op = "burn" => /\ Lowered(Lengths, Lengths', tx.user, 1)
                                /\ Lowered(CollateralLengths, CollateralLengths', tx.user, change)
<1>1. /\ data' = d2 /\ tx'.op = tx.op /\ tx'.user = tx.user
      /\ tx'.index = tx.index + 1 /\ tx'.delta = tx.delta + change
  BY Iterated
<1>2. tx.index \in Nat /\ tx.delta \in Nat /\ tx.user \in Users
      /\ \A v \in Users : data.balance[v] \in Int /\ data.collateralizedBalance[v] \in Int
  BY InALoop DEF Data, Slots
<1>3. \A v \in Users :
        /\ Lengths[v] = data.balance[v] + (IF tx.op = "mint" /\ tx.user = v THEN tx.index ELSE 0)
                                        - (IF tx.op = "burn" /\ tx.user = v THEN tx.index ELSE 0)
        /\ CollateralLengths[v] =
              data.collateralizedBalance[v] + (IF tx.op = "mint" /\ tx.user = v THEN tx.delta ELSE 0)
                                            - (IF tx.op = "burn" /\ tx.user = v THEN tx.delta ELSE 0)
  BY DEF Lengths, CollateralLengths, OwnedLength, Pending
<1>4. \A v \in Users :
        /\ Lengths'[v] = data'.balance[v] + (IF tx'.op = "mint" /\ tx'.user = v THEN tx'.index ELSE 0)
                                          - (IF tx'.op = "burn" /\ tx'.user = v THEN tx'.index ELSE 0)
        /\ CollateralLengths'[v] =
              data'.collateralizedBalance[v] + (IF tx'.op = "mint" /\ tx'.user = v THEN tx'.delta ELSE 0)
                                             - (IF tx'.op = "burn" /\ tx'.user = v THEN tx'.delta ELSE 0)
  BY DEF Lengths, CollateralLengths, OwnedLength, Pending
<1>5. ASSUME tx.op = "mint"
      PROVE  /\ Raised(Lengths, Lengths', tx.user, 1)
             /\ Raised(CollateralLengths, CollateralLengths', tx.user, change)
  BY <1>1, <1>2, <1>3, <1>4, <1>5 DEF Raised
<1>6. ASSUME tx.op = "burn"
      PROVE  /\ Lowered(Lengths, Lengths', tx.user, 1)
             /\ Lowered(CollateralLengths, CollateralLengths', tx.user, change)
  BY <1>1, <1>2, <1>3, <1>4, <1>6 DEF Lowered
<1>7. QED
  BY <1>5, <1>6

\* One iteration of minting.
LEMMA MintOneKeepsLedgerInv ==
    ASSUME LedgerInv, NEW t \in Tokens, NEW useAsCollateral \in BOOLEAN, MintOne(t, useAsCollateral)
    PROVE  LedgerInv'
<1> DEFINE u == tx.user
           marked == useAsCollateral /\ t \notin data.isUsedAsCollateral
           a == AddTokenToAllTokensEnumeration(data, t, OldTotalSupply + tx.index)
           b == AddTokenToOwnerEnumeration(a, u, t, OldBalance + tx.index)
           e == [b EXCEPT !.owners[t] = u,
                          !.isUsedAsCollateral = @ \cup IF marked THEN {t} ELSE {}]
<1>1. tx.op = "mint" /\ ~Exists(t) /\ Iterate(e, Count(marked))
  BY DEF MintOne
<1>2. Count(marked) \in Nat /\ marked \in BOOLEAN
  BY DEF Count
<1>3. /\ OldTotalSupply + tx.index = Len(data.allTokens) /\ OldBalance + tx.index = Lengths[u]
      /\ data \in Data /\ u \in Users /\ Lengths[u] \in Slots /\ Len(data.allTokens) \in Slots
      /\ tx.index \in Nat /\ tx.delta \in Nat
  BY <1>1, InALoop
<1>4. Exact(data, Lengths, CollateralLengths) /\ data.owners[t] = NoOwner
  BY <1>1 DEF LedgerInv, Exists
<1>5. Minted(e, data, u, t, Lengths[u], marked)
  <2> DEFINE n == Lengths[u]
  <2>1. /\ a = AddTokenToAllTokensEnumeration(data, t, Len(data.allTokens))
        /\ b = AddTokenToOwnerEnumeration(a, u, t, n)
    BY <1>3
  <2>2. n \in Slots
    BY <1>3
  <2> HIDE DEF a, b, n, marked
  <2>3. Minted(e, data, u, t, n, marked)
    BY <1>2, <1>3, <2>1, <2>2, MintWrites
  <2>4. QED
    BY <2>3 DEF n
<1> HIDE DEF e, marked
<1>6. /\ data' = e /\ auctionValidityTime' = auctionValidityTime /\ now' = now
      /\ tx' \in Loops /\ tx'.op = "mint" /\ tx'.user = u /\ tx'.use = tx.use
      /\ tx'.before = tx.before /\ tx'.index = tx.index + 1 /\ tx'.delta = tx.delta + Count(marked)
  BY <1>1, <1>2, Iterated
<1>7. /\ e.balance = data.balance /\ e.collateralizedBalance = data.collateralizedBalance
      /\ \A v \in Users : data.balance[v] \in Int /\ data.collateralizedBalance[v] \in Int
  BY <1>3, <1>5 DEF Minted, Data, Slots
<1>8. Raised(Lengths, Lengths', u, 1) /\ Raised(CollateralLengths, CollateralLengths', u, Count(marked))
  BY <1>1, <1>2, <1>7, CountersIterated
<1>9. Exact(e, Lengths', CollateralLengths')
  BY <1>2, <1>3, <1>4, <1>5, <1>8, LedgerAssumption, MintKeepsExact
<1>10. Running(tx, data, auctionValidityTime)
  BY <1>1, InALoop
<1>11. Minting(tx.before, e, u)
  <2>1. Minting(tx.before, data, u)
    BY <1>1, <1>10 DEF Running
  <2>2. /\ e.startTime = data.startTime
        /\ e.owners[t] = u /\ \A s \in Tokens \ {t} : e.owners[s] = data.owners[s]
        /\ \A s \in Tokens \ {t} : s \in e.isUsedAsCollateral <=> s \in data.isUsedAsCollateral
    BY <1>3, <1>5 DEF Minted, Data
  <2>3. tx.before.owners[t] = NoOwner
    BY <1>3, <1>4, <2>1, LedgerAssumption DEF Minting, LedgerAssumption
  <2>4. QED
    BY <2>1, <2>2, <2>3 DEF Minting
<1>12. Len(e.allTokens) = Len(tx.before.allTokens) + (tx.index + 1)
  <2>1. Len(data.allTokens) = Len(tx.before.allTokens) + tx.index /\ tx.before \in Data
    BY <1>1, <1>10 DEF Running, Loops
  <2>2. Len(e.allTokens) = Len(data.allTokens) + 1
    BY <1>3, <1>5 DEF Minted, Data
  <2>3. Len(tx.before.allTokens) \in Nat
    BY <2>1 DEF Data
  <2>4. QED
    BY <1>3, <2>1, <2>2, <2>3
<1>13. Running(tx', e, auctionValidityTime)
  BY <1>1, <1>6, <1>7, <1>10, <1>11, <1>12 DEF Running
<1>14. QED
  BY <1>6, <1>9, <1>13 DEF LedgerInv

\* One iteration of burning.
LEMMA BurnOneKeepsLedgerInv ==
    ASSUME LedgerInv, NEW t \in Tokens, BurnOne(t)
    PROVE  LedgerInv'
<1> DEFINE u == tx.user
           marked == t \in data.isUsedAsCollateral
           a == RemoveTokenFromAllTokensEnumeration(data, t, OldTotalSupply - tx.index)
           b == RemoveTokenFromOwnerEnumeration(a, u, t, OldBalance - tx.index)
           e == [b EXCEPT !.owners[t] = NoOwner, !.isUsedAsCollateral = @ \ {t}, !.startTime[t] = 0]
<1>1. tx.op = "burn" /\ data.owners[t] = u /\ ~IsAuctioned(t) /\ Iterate(e, Count(marked))
  BY DEF BurnOne
<1>2. Count(marked) \in Nat
  BY DEF Count
<1>3. /\ OldTotalSupply - tx.index = Len(data.allTokens) /\ OldBalance - tx.index = Lengths[u]
      /\ data \in Data /\ u \in Users /\ Lengths[u] \in Slots /\ Len(data.allTokens) \in Slots
      /\ tx.index \in Nat /\ tx.delta \in Nat
  BY <1>1, InALoop
<1>4. Exact(data, Lengths, CollateralLengths) /\ Lengths[u] > 0
  <2>1. Exact(data, Lengths, CollateralLengths)
    BY DEF LedgerInv
  <2>2. QED
    BY <1>1, <1>3, <2>1, LedgerAssumption, LengthsInRange
<1>5. Burned(e, data, u, t, Lengths[u])
  <2> DEFINE n == Lengths[u]
             own == [data.owners EXCEPT ![t] = NoOwner]
  <2>1. /\ a = RemoveTokenFromAllTokensEnumeration(data, t, Len(data.allTokens))
        /\ b = RemoveTokenFromOwnerEnumeration(a, u, t, n)
        /\ e = [b EXCEPT !.owners[t] = NoOwner, !.isUsedAsCollateral = @ \ {t}, !.startTime[t] = 0]
    BY <1>3
  <2>2. n \in Slots /\ n > 0
    BY <1>3, <1>4
  <2>3. /\ OwnerEnum(data.owners, data.ownedTokens, data.ownedTokensIndex, u, n)
        /\ AllEnum(data.owners, data.allTokens, data.allTokensIndex)
    BY <1>3, <1>4 DEF Exact, Enumerated
  <2>4. own = [data.owners EXCEPT ![t] = NoOwner]
    OBVIOUS
  <2> HIDE DEF a, b, e, n, own, marked
  <2>5. /\ own \in Owners /\ b \in Data /\ SameRest(b, data)
        /\ OwnerRemoved(data.owners, data.ownedTokens, data.ownedTokensIndex,
                        own, b.ownedTokens, b.ownedTokensIndex, u, t, n)
        /\ AllRemoved(data.owners, data.allTokens, data.allTokensIndex,
                      own, b.allTokens, b.allTokensIndex, t)
    <3>1. a = RemoveTokenFromAllTokensEnumeration(data, t, Len(data.allTokens))
          /\ b = RemoveTokenFromOwnerEnumeration(a, u, t, n)
      BY <2>1
    <3>2. data \in Data /\ u \in Users /\ data.owners[t] = u
      BY <1>1, <1>3
    <3>3. QED
      BY <2>2, <2>3, <2>4, <3>1, <3>2, LedgerAssumption, BurnRemoves
  <2>6. Burned(e, data, u, t, n)
    BY <1>3, <2>1, <2>2, <2>4, <2>5, LedgerAssumption, BurnWrites
  <2>7. QED
    BY <2>6 DEF n
<1> HIDE DEF e
<1>6. /\ data' = e /\ auctionValidityTime' = auctionValidityTime /\ now' = now
      /\ tx' \in Loops /\ tx'.op = "burn" /\ tx'.user = u /\ tx'.use = tx.use
      /\ tx'.before = tx.before /\ tx'.index = tx.index + 1 /\ tx'.delta = tx.delta + Count(marked)
  BY <1>1, <1>2, Iterated
<1>7. /\ e.balance = data.balance /\ e.collateralizedBalance = data.collateralizedBalance
      /\ \A v \in Users : data.balance[v] \in Int /\ data.collateralizedBalance[v] \in Int
  BY <1>3, <1>5 DEF Burned, Data, Slots
<1>8. Lowered(Lengths, Lengths', u, 1) /\ Lowered(CollateralLengths, CollateralLengths', u, Count(marked))
  <2> HIDE DEF marked
  <2>1. QED
    BY <1>1, <1>2, <1>7, CountersIterated
<1>9. Exact(e, Lengths', CollateralLengths')
  BY <1>1, <1>3, <1>4, <1>5, <1>8, LedgerAssumption, BurnKeepsExact
<1>10. Running(tx, data, auctionValidityTime)
  BY <1>1, InALoop
<1>11. Burning(tx.before, e, u, auctionValidityTime)
  <2>1. Burning(tx.before, data, u, auctionValidityTime)
    BY <1>1, <1>10 DEF Running
  <2>2. /\ e.owners[t] = NoOwner /\ e.startTime[t] = 0 /\ t \notin e.isUsedAsCollateral
        /\ \A s \in Tokens \ {t} : /\ e.owners[s] = data.owners[s]
                                   /\ e.startTime[s] = data.startTime[s]
                                   /\ s \in e.isUsedAsCollateral <=> s \in data.isUsedAsCollateral
    BY <1>3, <1>5 DEF Burned, Data
  <2>3. ~(data.startTime[t] > auctionValidityTime[u])
    BY <1>1, <1>3 DEF IsAuctioned, ValidityTime
  <2>4. u # NoOwner
    BY <1>3, LedgerAssumption DEF LedgerAssumption
  <2>5. tx.before.owners[t] = u /\ ~(tx.before.startTime[t] > auctionValidityTime[u])
    BY <1>1, <2>1, <2>3, <2>4 DEF Burning
  <2>6. QED
    BY <2>1, <2>2, <2>5 DEF Burning
<1>12. Len(e.allTokens) = Len(tx.before.allTokens) - (tx.index + 1)
  <2>1. Len(data.allTokens) = Len(tx.before.allTokens) - tx.index /\ tx.before \in Data
    BY <1>1, <1>10 DEF Running, Loops
  <2>2. e \in Data /\ Len(e.allTokens) = Cardinality(SuppliedIn(e.owners))
    BY <1>9 DEF Exact
  <2>3. Len(data.allTokens) = Cardinality(SuppliedIn(data.owners)) /\ data.owners[t] # NoOwner
    BY <1>1, <1>3, <1>4, LedgerAssumption DEF Exact, LedgerAssumption
  <2>4. SuppliedIn(e.owners) = SuppliedIn(data.owners) \ {t}
    BY <1>3, <1>5 DEF Burned, SuppliedIn, Data
  <2>5. SuppliedIn(data.owners) \in SUBSET Tokens /\ t \in SuppliedIn(data.owners)
    BY <2>3 DEF SuppliedIn
  <2>6. Cardinality(SuppliedIn(data.owners) \ {t}) = Cardinality(SuppliedIn(data.owners)) - 1
    BY <2>5, LedgerAssumption, TokenSets
  <2>7. Len(tx.before.allTokens) \in Nat
    BY <2>1 DEF Data
  <2>8. Len(e.allTokens) = Len(data.allTokens) - 1
    BY <2>2, <2>3, <2>4, <2>6
  <2>9. QED
    BY <1>3, <2>1, <2>7, <2>8
<1>13. Running(tx', e, auctionValidityTime)
  BY <1>1, <1>6, <1>7, <1>10, <1>11, <1>12 DEF Running
<1>14. QED
  BY <1>6, <1>9, <1>13 DEF LedgerInv

\* One iteration of batchSetIsUsedAsCollateral, which writes the counter itself.
LEMMA SetOneKeepsLedgerInv ==
    ASSUME LedgerInv, NEW t \in Tokens, SetOne(t)
    PROVE  LedgerInv'
<1> DEFINE u == tx.user
           use == tx.use
           e == [data EXCEPT !.isUsedAsCollateral = IF use THEN @ \cup {t} ELSE @ \ {t},
                             !.collateralizedBalance[u] = IF use THEN @ + 1 ELSE @ - 1]
<1>1. tx.op = "set"
  BY DEF SetOne
<1>2. /\ data \in Data /\ u \in Users /\ use \in BOOLEAN /\ tx.index \in Nat /\ tx.delta \in Nat
      /\ Running(tx, data, auctionValidityTime) /\ Exact(data, Lengths, CollateralLengths)
      /\ \A v \in Users : Lengths[v] = data.balance[v] /\ CollateralLengths[v] = data.collateralizedBalance[v]
  BY <1>1, InALoop DEF LedgerInv
<1>3. Exact(data, data.balance, data.collateralizedBalance)
  BY <1>2, ExactSame
<1>4. Setting(tx.before, data, u, use, auctionValidityTime) /\ data.balance = tx.before.balance
  BY <1>1, <1>2 DEF Running
<1>5. ASSUME NEW d2, Iterate(d2, 0), Exact(d2, d2.balance, d2.collateralizedBalance),
             d2.balance = data.balance, Setting(tx.before, d2, u, use, auctionValidityTime)
      PROVE  LedgerInv'
  <2>1. /\ data' = d2 /\ auctionValidityTime' = auctionValidityTime /\ now' = now
        /\ tx' \in Loops /\ tx'.op = "set" /\ tx'.user = u /\ tx'.use = use /\ tx'.before = tx.before
    BY <1>1, <1>5, Iterated
  <2>2. \A v \in Users : d2.balance[v] \in Int /\ d2.collateralizedBalance[v] \in Int
    BY <1>5 DEF Exact, Data, Slots
  <2>3. \A v \in Users : /\ Lengths'[v] = d2.balance[v]
                         /\ CollateralLengths'[v] = d2.collateralizedBalance[v]
    BY <2>1, <2>2 DEF Lengths, CollateralLengths, OwnedLength, Pending
  <2>4. Exact(d2, Lengths', CollateralLengths')
    BY <1>5, <2>3, ExactSame
  <2>5. Running(tx', d2, auctionValidityTime)
    BY <1>2, <1>4, <1>5, <2>1 DEF Running
  <2>6. QED
    BY <2>1, <2>4, <2>5 DEF LedgerInv
<1>6. CASE Iterate(data, 0)
  BY <1>3, <1>4, <1>5, <1>6
<1>7. CASE /\ (t \in data.isUsedAsCollateral) # use /\ data.owners[t] = u
           /\ use \/ ~IsAuctioned(t)
           /\ Iterate(e, 0)
  <2>1. Exact(e, data.balance, e.collateralizedBalance) /\ Marked(e, data, t, use, e.collateralizedBalance)
    <3>1. e = MarkOf(data, u, t, use)
      BY DEF MarkOf
    <3> HIDE DEF e
    <3>2. data.owners[t] = u /\ (t \in data.isUsedAsCollateral) # use /\ u \in Users /\ use \in BOOLEAN
      BY <1>2, <1>7
    <3>3. QED
      BY <1>3, <3>1, <3>2, LedgerAssumption, MarkKeepsExact
  <2> HIDE DEF e
  <2>2. /\ e.owners = data.owners /\ e.startTime = data.startTime /\ e.balance = data.balance
        /\ \A s \in Tokens \ {t} : s \in e.isUsedAsCollateral <=> s \in data.isUsedAsCollateral
        /\ t \in e.isUsedAsCollateral <=> use
    BY <1>2, <2>1 DEF Marked
  <2>3. use \/ ~(data.startTime[t] > auctionValidityTime[u])
    BY <1>2, <1>7 DEF IsAuctioned, ValidityTime
  <2>4. Setting(tx.before, e, u, use, auctionValidityTime)
    <3>1. /\ data.owners = tx.before.owners /\ data.startTime = tx.before.startTime
          /\ tx.before.owners[t] = u
          /\ use \/ ~(tx.before.startTime[t] > auctionValidityTime[u])
      BY <1>4, <1>7, <2>3 DEF Setting
    <3>2. QED
      BY <1>4, <2>2, <3>1 DEF Setting
  <2>5. QED
    BY <1>5, <1>7, <2>1, <2>2, <2>4
<1>8. QED
  BY <1>6, <1>7 DEF SetOne

\* Outside a loop the invariant is that the counters are exact.
LEMMA IdleKeepsLedgerInv ==
    ASSUME LedgerInv, tx' = Idle,
           Exact(data', data'.balance, data'.collateralizedBalance),
           auctionValidityTime' \in [Users -> 0 .. MaxTime], now' \in 1 .. MaxTime
    PROVE  LedgerInv'
<1>1. tx'.op # "mint" /\ tx'.op # "burn"
  BY DEF Idle
<1>2. \A v \in Users : data'.balance[v] \in Int /\ data'.collateralizedBalance[v] \in Int
  BY DEF Exact, Data, Slots
<1>3. \A v \in Users : /\ Lengths'[v] = data'.balance[v]
                       /\ CollateralLengths'[v] = data'.collateralizedBalance[v]
  BY <1>1, <1>2 DEF Lengths, CollateralLengths, OwnedLength, Pending
<1>4. Exact(data', Lengths', CollateralLengths')
  BY <1>3, ExactSame
<1>5. QED
  BY <1>4 DEF LedgerInv

\* What a loop of minting or burning writes at its end.
LEMMA CommitOf ==
    ASSUME LedgerInv, tx.op \in {"mint", "burn"}, NEW e,
           e = CommitAs(data, tx.user, Lengths[tx.user], CollateralLengths[tx.user])
    PROVE  /\ Exact(e, e.balance, e.collateralizedBalance)
           /\ e.owners = data.owners /\ e.isUsedAsCollateral = data.isUsedAsCollateral
           /\ e.startTime = data.startTime
<1> DEFINE len == Lengths
           coll == CollateralLengths
           u == tx.user
<1>1. /\ u \in Users /\ \A v \in Users \ {u} : len[v] = data.balance[v]
      /\ \A v \in Users \ {u} : coll[v] = data.collateralizedBalance[v]
  BY InALoop
<1>2. Exact(data, len, coll)
  BY DEF LedgerInv
<1>3. e = CommitAs(data, u, len[u], coll[u])
  OBVIOUS
<1> HIDE DEF len, coll, u
<1>4. QED
  BY <1>1, <1>2, <1>3, LedgerAssumption, CommitKeepsExact

\* The end of a loop; what it has done to the three fields NToken is about.
LEMMA FinishKeepsLedgerInv ==
    ASSUME LedgerInv, FinishMint \/ FinishBurn \/ FinishSet
    PROVE  /\ LedgerInv'
           /\ tx' = Idle /\ data'.owners = data.owners /\ data'.startTime = data.startTime
           /\ data'.isUsedAsCollateral = data.isUsedAsCollateral
<1>1. /\ tx' = Idle /\ auctionValidityTime' = auctionValidityTime /\ now' = now
      /\ tx.op \in {"mint", "burn", "set"}
  BY DEF FinishMint, FinishBurn, FinishSet, Commit
<1>2. /\ Exact(data', data'.balance, data'.collateralizedBalance)
      /\ data'.owners = data.owners /\ data'.startTime = data.startTime
      /\ data'.isUsedAsCollateral = data.isUsedAsCollateral
  <2>1. CASE FinishMint
    <3>1. data' = CommitAs(data, tx.user, Lengths[tx.user], CollateralLengths[tx.user])
      BY <2>1, InALoop DEF FinishMint, Commit, CommitAs
    <3>2. QED
      BY <2>1, <3>1, CommitOf DEF FinishMint
  <2>2. CASE FinishBurn
    <3>1. data' = CommitAs(data, tx.user, Lengths[tx.user], CollateralLengths[tx.user])
      BY <2>2, InALoop DEF FinishBurn, Commit, CommitAs
    <3>2. QED
      BY <2>2, <3>1, CommitOf DEF FinishBurn
  <2>3. CASE FinishSet
    <3>1. data' = data /\ tx.op = "set"
      BY <2>3 DEF FinishSet, Commit
    <3>2. \A v \in Users : /\ data.balance[v] = Lengths[v]
                           /\ data.collateralizedBalance[v] = CollateralLengths[v]
      BY <3>1, InALoop
    <3>3. Exact(data, Lengths, CollateralLengths)
      BY DEF LedgerInv
    <3>4. QED
      BY <3>1, <3>2, <3>3, ExactSame
  <2>4. QED
    BY <2>1, <2>2, <2>3
<1>3. auctionValidityTime \in [Users -> 0 .. MaxTime] /\ now \in 1 .. MaxTime
  BY DEF LedgerInv
<1>4. QED
  BY <1>1, <1>2, <1>3, IdleKeepsLedgerInv

\* A transaction given up puts back a storage that was exact.
LEMMA RevertKeepsLedgerInv ==
    ASSUME LedgerInv, Revert PROVE LedgerInv'
<1>1. data' = tx.before /\ tx' = Idle /\ auctionValidityTime' = auctionValidityTime /\ now' = now
  BY DEF Revert
<1>2. Exact(tx.before, tx.before.balance, tx.before.collateralizedBalance)
  BY DEF LedgerInv, Revert, Running
<1>3. auctionValidityTime \in [Users -> 0 .. MaxTime] /\ now \in 1 .. MaxTime
  BY DEF LedgerInv
<1>4. QED
  BY <1>1, <1>2, <1>3, IdleKeepsLedgerInv

\* A transfer to another user; own2 and so on are what it writes.
LEMMA TransferStep ==
    ASSUME LedgerInv, NEW from \in Users, NEW to \in Users, NEW t \in Tokens,
           Transfer(from, to, t), from # to
    PROVE  /\ Exact(data', data'.balance, data'.collateralizedBalance)
           /\ data'.owners = [data.owners EXCEPT ![t] = to]
           /\ data'.isUsedAsCollateral = data.isUsedAsCollateral \ {t}
           /\ data'.startTime = [data.startTime EXCEPT ![t] = 0]
<1> DEFINE marked == t \in data.isUsedAsCollateral
           n == data.balance[from]
           k == data.balance[to]
           r == RemoveTokenFromOwnerEnumeration(data, from, t, n)
           b == AddTokenToOwnerEnumeration(r, to, t, k)
           own1 == [data.owners EXCEPT ![t] = NoOwner]
           own2 == [data.owners EXCEPT ![t] = to]
           bal1 == [data.balance EXCEPT ![from] = @ - 1]
           bal2 == [data.balance EXCEPT ![from] = @ - 1, ![to] = @ + 1]
           coll2 == [data.collateralizedBalance EXCEPT ![from] = @ - Count(marked)]
<1>1. /\ tx = Idle /\ data.owners[t] = from
      /\ data' = HandOver(b, from, to, t, Count(marked))
  BY DEF Transfer, Write, HandOver
<1>2. Exact(data, data.balance, data.collateralizedBalance) /\ data \in Data
  BY <1>1, IdleIsExact DEF LedgerInv, Exact
<1>3. /\ n \in Slots /\ n > 0 /\ k \in Slots
      /\ data.balance \in [Users -> Slots] /\ data.collateralizedBalance \in [Users -> Slots]
  <2>1. data.balance[from] > 0
    BY <1>1, <1>2, LedgerAssumption, LengthsInRange
  <2>2. QED
    BY <1>2, <2>1 DEF Data
<1>4. \A v \in Users : OwnerEnum(data.owners, data.ownedTokens, data.ownedTokensIndex, v, data.balance[v])
  BY <1>2 DEF Exact, Enumerated
<1>5. /\ own1 \in Owners /\ own2 \in Owners
      /\ r \in Data /\ b \in Data /\ SameRest(b, data) /\ SameAllEnum(b, data)
      /\ OwnerRemoved(data.owners, data.ownedTokens, data.ownedTokensIndex,
                      own1, r.ownedTokens, r.ownedTokensIndex, from, t, n)
      /\ OwnerAdded(own1, r.ownedTokens, r.ownedTokensIndex,
                    own2, b.ownedTokens, b.ownedTokensIndex, to, t, k)
  <2>1. /\ own1 = [data.owners EXCEPT ![t] = NoOwner] /\ own2 = [data.owners EXCEPT ![t] = to]
        /\ r = RemoveTokenFromOwnerEnumeration(data, from, t, n)
        /\ b = AddTokenToOwnerEnumeration(r, to, t, k)
    OBVIOUS
  <2>2. data \in Data /\ data.owners[t] = from /\ n \in Slots /\ n > 0 /\ k \in Slots
        /\ OwnerEnum(data.owners, data.ownedTokens, data.ownedTokensIndex, from, n)
    BY <1>1, <1>2, <1>3, <1>4
  <2> HIDE DEF own1, own2, r, b, n, k
  <2>3. QED
    BY <2>1, <2>2, LedgerAssumption, TransferMoves
<1>6. /\ Lowered(data.balance, bal1, from, 1) /\ Raised(bal1, bal2, to, 1)
      /\ Lowered(data.collateralizedBalance, coll2, from, Count(marked))
  BY <1>3 DEF Lowered, Raised, Slots
<1> HIDE DEF own1, own2, r, b, bal1, bal2, coll2
<1>7. \A v \in Users : bal2[v] \in Slots /\ coll2[v] \in Slots
  <2>1. Counted(data.owners, data.isUsedAsCollateral, data.balance, data.collateralizedBalance)
        /\ data.owners \in Owners
    BY <1>2 DEF Exact, Data, Owners
  <2>2. Handed(data.owners, own2, t, to)
    BY <2>1 DEF Handed, Owners, own2
  <2>3. QED
    BY <1>1, <1>6, <2>1, <2>2, LedgerAssumption, TransferCounts
<1>8. bal2 \in [Users -> Slots] /\ coll2 \in [Users -> Slots]
  BY <1>3, <1>7 DEF bal2, coll2
<1>9. /\ data' \in Data /\ SameOwnerEnum(data', b) /\ SameAllEnum(data', b)
      /\ HasRest(data', own2, bal2, coll2,
                 data.isUsedAsCollateral \ {t}, [data.startTime EXCEPT ![t] = 0])
  <2>1. HandedOver(data, from, to, t, Count(marked), own2, bal2, coll2)
    BY DEF HandedOver, own2, bal2, coll2
  <2> HIDE DEF marked
  <2>2. QED
    BY <1>1, <1>2, <1>5, <1>8, <2>1, TransferWrites
<1>10. OwnerAdded(own1, r.ownedTokens, r.ownedTokensIndex,
                  data'.owners, data'.ownedTokens, data'.ownedTokensIndex, to, t, k)
  BY <1>5, <1>9 DEF SameOwnerEnum, HasRest
<1>11. SameAllEnum(data', data)
  BY <1>5, <1>9 DEF SameAllEnum, HasAllEnum
<1>12. r.ownedTokens \in SlotsOf /\ r.ownedTokensIndex \in Indexes
  BY <1>5 DEF Data, SlotsOf, Indexes
<1>13. Exact(data', bal2, coll2)
  <2>1. data' \in Data /\ data'.isUsedAsCollateral = data.isUsedAsCollateral \ {t}
    BY <1>9 DEF HasRest
  <2>2. Exact(data, data.balance, data.collateralizedBalance) /\ data.owners[t] = from
    BY <1>1, <1>2
  <2>3. /\ own1 \in Owners
        /\ OwnerRemoved(data.owners, data.ownedTokens, data.ownedTokensIndex,
                        own1, r.ownedTokens, r.ownedTokensIndex, from, t, n)
    BY <1>5
  <2>4. QED
    BY <1>6, <1>10, <1>11, <1>12, <2>1, <2>2, <2>3, LedgerAssumption, TransferKeepsExact
<1>14. Exact(data', data'.balance, data'.collateralizedBalance)
  BY <1>9, <1>13 DEF HasRest
<1>15. QED
  BY <1>9, <1>14 DEF HasRest, own2

\* A transfer, to another user or to oneself.
LEMMA TransferKeepsLedgerInv ==
    ASSUME LedgerInv, NEW from \in Users, NEW to \in Users, NEW t \in Tokens, Transfer(from, to, t)
    PROVE  LedgerInv'
<1>1. tx = Idle /\ tx' = Idle /\ auctionValidityTime' = auctionValidityTime /\ now' = now
  BY DEF Transfer, Write
<1>2. Exact(data', data'.balance, data'.collateralizedBalance)
  <2>1. CASE from = to
    <3>1. data' = data
      BY <2>1 DEF Transfer, Write
    <3>2. QED
      BY <1>1, <3>1, IdleIsExact DEF LedgerInv
  <2>2. CASE from # to
    BY <2>2, TransferStep
  <2>3. QED
    BY <2>1, <2>2
<1>3. auctionValidityTime \in [Users -> 0 .. MaxTime] /\ now \in 1 .. MaxTime
  BY DEF LedgerInv
<1>4. QED
  BY <1>1, <1>2, <1>3, IdleKeepsLedgerInv

\* An auction starts or ends; the three fields NToken is about.
LEMMA AuctionStep ==
    ASSUME LedgerInv, NEW t \in Tokens, StartAuction(t) \/ EndAuction(t)
    PROVE  /\ LedgerInv'
           /\ data'.owners = data.owners /\ data'.isUsedAsCollateral = data.isUsedAsCollateral
           /\ StartAuction(t) => data'.startTime = [data.startTime EXCEPT ![t] = now]
           /\ EndAuction(t) => data'.startTime = [data.startTime EXCEPT ![t] = 0]
<1>1. tx = Idle /\ tx' = Idle /\ auctionValidityTime' = auctionValidityTime /\ now' = now
  BY DEF StartAuction, EndAuction, Write
<1>2. now \in 1 .. MaxTime /\ now \in 0 .. MaxTime /\ 0 \in 0 .. MaxTime
      /\ auctionValidityTime \in [Users -> 0 .. MaxTime]
  BY LedgerAssumption DEF LedgerInv, LedgerAssumption
<1>3. Exact(data, data.balance, data.collateralizedBalance)
  BY <1>1, IdleIsExact DEF LedgerInv
<1>4. ASSUME NEW time \in 0 .. MaxTime, data' = [data EXCEPT !.startTime[t] = time]
      PROVE  /\ LedgerInv'
             /\ data'.owners = data.owners /\ data'.isUsedAsCollateral = data.isUsedAsCollateral
             /\ data'.startTime = [data.startTime EXCEPT ![t] = time]
  <2>0. data' = TimedAs(data, t, time)
    BY <1>4 DEF TimedAs
  <2>1. /\ Exact(data', data.balance, data.collateralizedBalance)
        /\ data'.balance = data.balance /\ data'.collateralizedBalance = data.collateralizedBalance
        /\ data'.owners = data.owners /\ data'.isUsedAsCollateral = data.isUsedAsCollateral
        /\ data'.startTime = [data.startTime EXCEPT ![t] = time]
    BY <1>3, <2>0, AuctionKeepsExact
  <2>2. Exact(data', data'.balance, data'.collateralizedBalance)
    BY <2>1
  <2>3. QED
    BY <1>1, <1>2, <2>1, <2>2, IdleKeepsLedgerInv
<1>5. CASE StartAuction(t)
  <2>1. data' = [data EXCEPT !.startTime[t] = now] /\ ~IsAuctioned(t)
    BY <1>5 DEF StartAuction, Write
  <2>2. ~EndAuction(t)
    BY <2>1 DEF EndAuction
  <2>3. QED
    BY <1>2, <1>4, <2>1, <2>2
<1>6. CASE EndAuction(t)
  <2>1. data' = [data EXCEPT !.startTime[t] = 0] /\ IsAuctioned(t)
    BY <1>6 DEF EndAuction, Write
  <2>2. ~StartAuction(t)
    BY <2>1 DEF StartAuction
  <2>3. QED
    BY <1>2, <1>4, <2>1, <2>2
<1>7. QED
  BY <1>5, <1>6

\* Every step keeps the invariant.
LEMMA NextLedgerInv == LedgerInv /\ [LedgerNext]_ledgerVars => LedgerInv'
<1>1. SUFFICES ASSUME LedgerInv, [LedgerNext]_ledgerVars PROVE LedgerInv'
  OBVIOUS
<1>2. CASE UNCHANGED ledgerVars
  BY <1>1, <1>2 DEF ledgerVars, LedgerInv, Lengths, CollateralLengths, OwnedLength, Pending
<1>3. ASSUME NEW u \in Users, Begin(Loop("mint", u, TRUE)) PROVE LedgerInv'
  BY <1>1, <1>3, BeginKeepsLedgerInv
<1>4. ASSUME NEW u \in Users, Begin(Loop("burn", u, FALSE)) PROVE LedgerInv'
  BY <1>1, <1>4, BeginKeepsLedgerInv
<1>5. ASSUME NEW u \in Users, NEW use \in BOOLEAN, Begin(Loop("set", u, use)) PROVE LedgerInv'
  BY <1>1, <1>5, BeginKeepsLedgerInv
<1>6. ASSUME NEW u \in Users, SetValidity(u) PROVE LedgerInv'
  <2>1. tx = Idle /\ tx' = Idle /\ data' = data /\ now' = now
        /\ auctionValidityTime' = [auctionValidityTime EXCEPT ![u] = now]
    BY <1>6 DEF SetValidity
  <2>2. now \in 1 .. MaxTime /\ now \in 0 .. MaxTime
        /\ auctionValidityTime \in [Users -> 0 .. MaxTime]
    BY <1>1, LedgerAssumption DEF LedgerInv, LedgerAssumption
  <2>3. auctionValidityTime' \in [Users -> 0 .. MaxTime]
    BY <2>1, <2>2
  <2>4. Exact(data', data'.balance, data'.collateralizedBalance)
    BY <1>1, <2>1, IdleIsExact DEF LedgerInv
  <2>5. QED
    BY <1>1, <2>1, <2>2, <2>3, <2>4, IdleKeepsLedgerInv
<1>7. ASSUME NEW t \in Tokens, NEW use \in BOOLEAN, MintOne(t, use) PROVE LedgerInv'
  BY <1>1, <1>7, MintOneKeepsLedgerInv
<1>8. ASSUME NEW t \in Tokens, BurnOne(t) PROVE LedgerInv'
  BY <1>1, <1>8, BurnOneKeepsLedgerInv
<1>9. ASSUME NEW t \in Tokens, SetOne(t) PROVE LedgerInv'
  BY <1>1, <1>9, SetOneKeepsLedgerInv
<1>10. ASSUME FinishMint \/ FinishBurn \/ FinishSet PROVE LedgerInv'
  BY <1>1, <1>10, FinishKeepsLedgerInv
<1>11. ASSUME Revert PROVE LedgerInv'
  BY <1>1, <1>11, RevertKeepsLedgerInv
<1>12. ASSUME NEW from \in Users, NEW to \in Users, NEW t \in Tokens, Transfer(from, to, t)
       PROVE  LedgerInv'
  BY <1>1, <1>12, TransferKeepsLedgerInv
<1>13. ASSUME NEW t \in Tokens, StartAuction(t) \/ EndAuction(t) PROVE LedgerInv'
  BY <1>1, <1>13, AuctionStep
<1>14. ASSUME Tick PROVE LedgerInv'
  <2>1. tx = Idle /\ tx' = Idle /\ data' = data /\ now' = now + 1 /\ now < MaxTime
        /\ auctionValidityTime' = auctionValidityTime
    BY <1>14 DEF Tick
  <2>2. now' \in 1 .. MaxTime /\ auctionValidityTime' \in [Users -> 0 .. MaxTime]
    BY <1>1, <2>1, LedgerAssumption DEF LedgerInv, LedgerAssumption
  <2>3. Exact(data', data'.balance, data'.collateralizedBalance)
    BY <1>1, <2>1, IdleIsExact DEF LedgerInv
  <2>4. QED
    BY <1>1, <2>1, <2>2, <2>3, IdleKeepsLedgerInv
<1>15. QED
  BY <1>1, <1>2, <1>3, <1>4, <1>5, <1>6, <1>7, <1>8, <1>9, <1>10, <1>11, <1>12, <1>13, <1>14
     DEF LedgerNext

\* The invariant holds in every reachable state.
LEMMA LedgerInvariant == LedgerSpec => []LedgerInv
<1>1. LedgerInit => LedgerInv
  BY InitLedgerInv
<1>2. LedgerInv /\ [LedgerNext]_ledgerVars => LedgerInv'
  BY NextLedgerInv
<1>3. QED
  BY <1>1, <1>2, PTL DEF LedgerSpec

-----------------------------------------------------------------------------
(* The results.                                                            *)

\* MintableERC721Logic: between any two iterations of any loop the arrays of
\* every owner and of the collection list their tokens exactly, with the length
\* the next iteration computes from the cached counter and the loop index.
THEOREM EnumerationsExactHolds == LedgerSpec => []EnumerationsExact
<1>1. LedgerInv => EnumerationsExact
  <2>1. SUFFICES ASSUME LedgerInv PROVE EnumerationsExact
    OBVIOUS
  <2>2. /\ data \in Data
        /\ \A u \in Users : OwnerEnum(data.owners, data.ownedTokens, data.ownedTokensIndex, u, Lengths[u])
        /\ AllEnum(data.owners, data.allTokens, data.allTokensIndex)
        /\ \A u \in Users : Lengths[u] \in Slots
    BY <2>1, LedgerAssumption, LengthsInRange DEF LedgerInv, Exact, Enumerated
  <2>3. ASSUME NEW u \in Users
        PROVE  /\ \A t \in Owned(u) : /\ data.ownedTokensIndex[t] < OwnedLength(u)
                                      /\ data.ownedTokens[u][data.ownedTokensIndex[t]] = t
               /\ \A i \in Slots :
                     IF i < OwnedLength(u)
                     THEN /\ data.ownedTokens[u][i] \in Owned(u)
                          /\ data.ownedTokensIndex[data.ownedTokens[u][i]] = i
                     ELSE data.ownedTokens[u][i] = NoToken
    <3>1. OwnedLength(u) = Lengths[u] /\ Slots \subseteq Nat
      BY DEF Lengths, Slots
    <3>2. OwnerEnum(data.owners, data.ownedTokens, data.ownedTokensIndex, u, OwnedLength(u))
          /\ OwnedLength(u) \in Slots
      BY <2>2, <3>1
    <3> HIDE DEF OwnedLength
    <3>3. ASSUME NEW i \in Slots PROVE i < OwnedLength(u) \/ i >= OwnedLength(u)
      <4>1. i \in Nat /\ OwnedLength(u) \in Nat
        BY <3>1, <3>2
      <4>2. QED
        BY <4>1
    <3>4. QED
      BY <3>2, <3>3 DEF OwnerEnum, Owned
  <2>4. /\ \A t \in Tokens : Exists(t) => /\ data.allTokensIndex[t] < Len(data.allTokens)
                                          /\ data.allTokens[data.allTokensIndex[t] + 1] = t
        /\ \A i \in 1 .. Len(data.allTokens) : /\ Exists(data.allTokens[i])
                                               /\ data.allTokensIndex[data.allTokens[i]] = i - 1
    BY <2>2 DEF AllEnum, Exists
  <2>5. QED
    BY <2>2, <2>3, <2>4 DEF EnumerationsExact
<1>2. QED
  BY <1>1, LedgerInvariant, PTL

\* MintableERC721Logic: balance and collateralizedBalance, with what a loop has
\* still to write to them, count the tokens and the marked tokens of every user.
THEOREM CountersExactHolds == LedgerSpec => []CountersExact
<1>1. LedgerInv => CountersExact
  <2>1. SUFFICES ASSUME LedgerInv, NEW u \in Users
                 PROVE  /\ OwnedLength(u) = Cardinality(Owned(u))
                        /\ data.collateralizedBalance[u]
                             + Pending("mint", u, tx.delta) - Pending("burn", u, tx.delta)
                           = Cardinality(Owned(u) \cap data.isUsedAsCollateral)
    BY DEF CountersExact
  <2>2. /\ Lengths[u] = Cardinality(OwnedIn(data.owners, u))
        /\ CollateralLengths[u] = Cardinality(MarkedIn(data.owners, data.isUsedAsCollateral, u))
    BY <2>1 DEF LedgerInv, Exact, Counted
  <2>3. OwnedIn(data.owners, u) = Owned(u)
    BY DEF OwnedIn, Owned
  <2>4. MarkedIn(data.owners, data.isUsedAsCollateral, u) = Owned(u) \cap data.isUsedAsCollateral
    BY <2>3 DEF MarkedIn
  <2>5. QED
    BY <2>2, <2>3, <2>4 DEF Lengths, CollateralLengths
<1>2. QED
  BY <1>1, LedgerInvariant, PTL

-----------------------------------------------------------------------------
(* The ledger implements NToken.                                           *)

\* Outside a loop the view is the storage, inside what the loop started from.
LEMMA Views ==
    /\ tx = Idle => View = data
    /\ tx' = Idle => View' = data'
    /\ tx # Idle => View = tx.before
    /\ tx' # Idle => View' = tx'.before
  BY DEF View

\* A step nobody outside the transaction sees.
LEMMA Unseen ==
    ASSUME View' = View, auctionValidityTime' = auctionValidityTime, now' = now
    PROVE  UNCHANGED Abstract!ntokenVars
  BY DEF Abstract!ntokenVars

\* The commit of a loop of minting: Mint of the tokens it has touched.
LEMMA MintIsSeen ==
    ASSUME LedgerInv, FinishMint
    PROVE  \E u \in Users, T \in SUBSET Tokens : \E C \in SUBSET T : Abstract!Mint(u, T, C)
<1> DEFINE u == tx.user
           d0 == tx.before
           T == {t \in Tokens : d0.owners[t] # data.owners[t]}
           C == {t \in T : t \in data.isUsedAsCollateral}
<1>1. tx.op = "mint"
  BY DEF FinishMint
<1>2. /\ Running(tx, data, auctionValidityTime) /\ tx # Idle /\ u \in Users
      /\ d0 \in Data /\ data \in Data
  BY <1>1, InALoop
<1>3. Minting(d0, data, u)
  BY <1>1, <1>2 DEF Running
<1>4. /\ View = d0 /\ View' = data' /\ data'.owners = data.owners /\ data'.startTime = data.startTime
      /\ data'.isUsedAsCollateral = data.isUsedAsCollateral
  BY <1>2, FinishKeepsLedgerInv, Views
<1>5. /\ d0.owners \in Owners /\ data.owners \in Owners
      /\ d0.isUsedAsCollateral \subseteq Tokens /\ data.isUsedAsCollateral \subseteq Tokens
  BY <1>2 DEF Data, Owners
<1>6. \A t \in T : d0.owners[t] = NoOwner /\ data.owners[t] = u
  BY <1>3 DEF Minting
<1>7. data.owners = [t \in Tokens |-> IF t \in T THEN u ELSE d0.owners[t]]
  BY <1>5, <1>6 DEF Owners
<1>8. data.isUsedAsCollateral = d0.isUsedAsCollateral \cup C
  <2>1. d0.isUsedAsCollateral \subseteq SuppliedIn(d0.owners)
    BY <1>2 DEF Running, Exact, Counted
  <2>2. \A t \in T : t \notin d0.isUsedAsCollateral
    BY <1>6, <2>1 DEF SuppliedIn
  <2>3. \A t \in Tokens \ T : t \in data.isUsedAsCollateral <=> t \in d0.isUsedAsCollateral
    BY <1>2, <1>3, LedgerAssumption DEF Minting, LedgerAssumption
  <2>4. QED
    BY <1>5, <2>2, <2>3
<1>9. T \in SUBSET Tokens /\ C \in SUBSET T
  OBVIOUS
<1>10. data.startTime = d0.startTime
  BY <1>3 DEF Minting
<1> HIDE DEF T, C
<1>11. Abstract!Mint(u, T, C)
  BY <1>4, <1>6, <1>7, <1>8, <1>10 DEF Abstract!Mint, Abstract!Exists
<1>12. QED
  BY <1>2, <1>9, <1>11

\* The commit of a loop of burning.
LEMMA BurnIsSeen ==
    ASSUME LedgerInv, FinishBurn
    PROVE  \E u \in Users, T \in SUBSET Tokens : Abstract!Burn(u, T, {})
<1> DEFINE u == tx.user
           d0 == tx.before
           T == {t \in Tokens : d0.owners[t] # data.owners[t]}
<1>1. tx.op = "burn"
  BY DEF FinishBurn
<1>2. /\ Running(tx, data, auctionValidityTime) /\ tx # Idle /\ u \in Users
      /\ d0 \in Data /\ data \in Data
  BY <1>1, InALoop
<1>3. Burning(d0, data, u, auctionValidityTime)
  BY <1>1, <1>2 DEF Running
<1>4. /\ View = d0 /\ View' = data' /\ data'.owners = data.owners /\ data'.startTime = data.startTime
      /\ data'.isUsedAsCollateral = data.isUsedAsCollateral
  BY <1>2, FinishKeepsLedgerInv, Views
<1>5. /\ d0.owners \in Owners /\ data.owners \in Owners /\ u # NoOwner
      /\ d0.isUsedAsCollateral \subseteq Tokens /\ data.isUsedAsCollateral \subseteq Tokens
      /\ d0.startTime \in [Tokens -> 0 .. MaxTime] /\ data.startTime \in [Tokens -> 0 .. MaxTime]
  BY <1>2, LedgerAssumption DEF Data, Owners, LedgerAssumption
<1>6. \A t \in T : /\ d0.owners[t] = u /\ ~(d0.startTime[t] > auctionValidityTime[u])
                   /\ data.owners[t] = NoOwner /\ data.startTime[t] = 0
                   /\ t \notin data.isUsedAsCollateral
  BY <1>3 DEF Burning
<1>7. \A t \in Tokens \ T : /\ data.owners[t] = d0.owners[t] /\ data.startTime[t] = d0.startTime[t]
                            /\ t \in data.isUsedAsCollateral <=> t \in d0.isUsedAsCollateral
  BY <1>3, <1>5 DEF Burning
<1>8. /\ data.owners = [t \in Tokens |-> IF t \in T THEN NoOwner ELSE d0.owners[t]]
      /\ data.startTime = [t \in Tokens |-> IF t \in T THEN 0 ELSE d0.startTime[t]]
  BY <1>5, <1>6, <1>7 DEF Owners
<1>9. data.isUsedAsCollateral = d0.isUsedAsCollateral \ T
  BY <1>5, <1>6, <1>7
<1>10. T \in SUBSET Tokens
  OBVIOUS
<1> HIDE DEF T
<1>11. Abstract!Burn(u, T, {})
  <2>1. \A t \in T : View.owners[t] = u /\ ~Abstract!IsAuctioned(t)
    BY <1>2, <1>4, <1>6 DEF Abstract!IsAuctioned, Abstract!ValidityTime
  <2>2. QED
    BY <1>4, <1>8, <1>9, <2>1 DEF Abstract!Burn
<1>12. QED
  BY <1>2, <1>10, <1>11

\* The commit of batchSetIsUsedAsCollateral.
LEMMA SetIsSeen ==
    ASSUME LedgerInv, FinishSet
    PROVE  \E u \in Users, T \in SUBSET Tokens : \E use \in BOOLEAN :
              Abstract!SetIsUsedAsCollateral(u, T, use)
<1> DEFINE u == tx.user
           use == tx.use
           d0 == tx.before
           T == {t \in Tokens : ~(t \in d0.isUsedAsCollateral <=> t \in data.isUsedAsCollateral)}
<1>1. tx.op = "set"
  BY DEF FinishSet
<1>2. /\ Running(tx, data, auctionValidityTime) /\ tx # Idle /\ u \in Users /\ use \in BOOLEAN
      /\ d0 \in Data /\ data \in Data
  BY <1>1, InALoop
<1>3. Setting(d0, data, u, use, auctionValidityTime)
  BY <1>1, <1>2 DEF Running
<1>4. /\ View = d0 /\ View' = data' /\ data'.owners = data.owners /\ data'.startTime = data.startTime
      /\ data'.isUsedAsCollateral = data.isUsedAsCollateral
  BY <1>2, FinishKeepsLedgerInv, Views
<1>5. d0.isUsedAsCollateral \subseteq Tokens /\ data.isUsedAsCollateral \subseteq Tokens
  BY <1>2 DEF Data
<1>6. data.owners = d0.owners /\ data.startTime = d0.startTime
  BY <1>3 DEF Setting
<1>7. \A t \in T : /\ d0.owners[t] = u /\ (t \in data.isUsedAsCollateral <=> use)
                   /\ use \/ ~(d0.startTime[t] > auctionValidityTime[u])
  BY <1>3 DEF Setting
<1>8. data.isUsedAsCollateral = IF use THEN d0.isUsedAsCollateral \cup T ELSE d0.isUsedAsCollateral \ T
  <2>1. \A t \in Tokens \ T : t \in d0.isUsedAsCollateral <=> t \in data.isUsedAsCollateral
    OBVIOUS
  <2>2. \A t \in T : t \in Tokens /\ (t \in data.isUsedAsCollateral <=> use)
    BY <1>7
  <2> HIDE DEF T, use
  <2>3. CASE use
    BY <1>5, <2>1, <2>2, <2>3
  <2>4. CASE ~use
    BY <1>5, <2>1, <2>2, <2>4
  <2>5. QED
    BY <2>3, <2>4
<1>9. T \in SUBSET Tokens
  OBVIOUS
<1> HIDE DEF T
<1>10. Abstract!SetIsUsedAsCollateral(u, T, use)
  <2>1. \A t \in T : View.owners[t] = u /\ (use \/ ~Abstract!IsAuctioned(t))
    BY <1>2, <1>4, <1>7 DEF Abstract!IsAuctioned, Abstract!ValidityTime
  <2>2. View'.owners = View.owners /\ View'.startTime = View.startTime
    BY <1>4, <1>6
  <2>3. View'.isUsedAsCollateral =
            IF use THEN View.isUsedAsCollateral \cup T ELSE View.isUsedAsCollateral \ T
    BY <1>4, <1>8
  <2>4. QED
    BY <2>1, <2>2, <2>3 DEF Abstract!SetIsUsedAsCollateral
<1>11. QED
  BY <1>2, <1>9, <1>10

\* A transfer is the Transfer of NToken.
LEMMA TransferIsSeen ==
    ASSUME LedgerInv, NEW from \in Users, NEW to \in Users, NEW t \in Tokens, Transfer(from, to, t)
    PROVE  Abstract!Transfer(from, to, t, {})
<1>1. /\ tx = Idle /\ tx' = Idle /\ data.owners[t] = from /\ ~IsAuctioned(t)
  BY DEF Transfer, Write
<1>2. View = data /\ View' = data'
  BY <1>1, Views
<1>3. View.owners[t] = from /\ ~Abstract!IsAuctioned(t)
  BY <1>1, <1>2 DEF Abstract!IsAuctioned, Abstract!ValidityTime, IsAuctioned, ValidityTime
<1>4. CASE from = to
  <2>1. View' = View
    BY <1>2, <1>4 DEF Transfer, Write
  <2>2. QED
    BY <1>3, <1>4, <2>1 DEF Abstract!Transfer, Abstract!tokenVars
<1>5. CASE from # to
  <2>1. /\ View'.owners = [View.owners EXCEPT ![t] = to]
        /\ View'.isUsedAsCollateral = View.isUsedAsCollateral \ {t}
        /\ View'.startTime = [View.startTime EXCEPT ![t] = 0]
    BY <1>2, <1>5, TransferStep
  <2>2. QED
    BY <1>3, <1>5, <2>1 DEF Abstract!Transfer
<1>6. QED
  BY <1>4, <1>5

\* So are the start and the end of an auction.
LEMMA AuctionIsSeen ==
    ASSUME LedgerInv, NEW t \in Tokens, StartAuction(t) \/ EndAuction(t)
    PROVE  Abstract!StartAuction(t) \/ Abstract!EndAuction(t)
<1>1. tx = Idle /\ tx' = Idle /\ Exists(t)
  BY DEF StartAuction, EndAuction, Write
<1>2. View = data /\ View' = data'
  BY <1>1, Views
<1>3. /\ Abstract!Exists(t)
      /\ IsAuctioned(t) <=> Abstract!IsAuctioned(t)
  BY <1>1, <1>2 DEF Abstract!Exists, Abstract!IsAuctioned, Abstract!ValidityTime,
                    Exists, IsAuctioned, ValidityTime
<1>4. /\ View'.owners = View.owners /\ View'.isUsedAsCollateral = View.isUsedAsCollateral
      /\ StartAuction(t) => View'.startTime = [View.startTime EXCEPT ![t] = now]
      /\ EndAuction(t) => View'.startTime = [View.startTime EXCEPT ![t] = 0]
  BY <1>2, AuctionStep
<1>5. CASE StartAuction(t)
  <2>1. ~IsAuctioned(t)
    BY <1>5 DEF StartAuction
  <2>2. QED
    BY <1>3, <1>4, <1>5, <2>1 DEF Abstract!StartAuction
<1>6. CASE EndAuction(t)
  <2>1. IsAuctioned(t)
    BY <1>6 DEF EndAuction
  <2>2. QED
    BY <1>3, <1>4, <1>6, <2>1 DEF Abstract!EndAuction
<1>7. QED
  BY <1>5, <1>6

\* Every step of the ledger is a step of NToken, or is not seen.
LEMMA NextImplements == LedgerInv /\ [LedgerNext]_ledgerVars => [Abstract!NTokenNext]_(Abstract!ntokenVars)
<1> DEFINE Goal == [Abstract!NTokenNext]_(Abstract!ntokenVars)
           Kept == auctionValidityTime' = auctionValidityTime /\ now' = now
<1>1. SUFFICES ASSUME LedgerInv, [LedgerNext]_ledgerVars PROVE Goal
  OBVIOUS
<1>2. ASSUME View' = View, Kept PROVE Goal
  BY <1>2, Unseen
<1>3. ASSUME Abstract!TokenStep, Kept PROVE Goal
  BY <1>3 DEF Abstract!NTokenNext
<1>4. CASE UNCHANGED ledgerVars
  <2>1. View' = View /\ Kept
    BY <1>4 DEF ledgerVars, View
  <2>2. QED
    BY <1>2, <2>1
<1>5. ASSUME NEW op \in {"mint", "burn", "set"}, NEW u \in Users, NEW use \in BOOLEAN, Begin(Loop(op, u, use))
      PROVE  Goal
  <2>1. tx = Idle /\ tx' = Loop(op, u, use) /\ Kept
    BY <1>5 DEF Begin
  <2>2. tx'.before = data /\ tx'.op = op
    BY <2>1 DEF Loop
  <2>3. tx' # Idle
    BY <2>2 DEF Idle
  <2>4. View' = View
    BY <2>1, <2>2, <2>3, Views
  <2>5. QED
    BY <1>2, <2>1, <2>4
<1>6. ASSUME NEW u \in Users, SetValidity(u) PROVE Goal
  <2>1. /\ tx = Idle /\ tx' = Idle /\ data' = data /\ now' = now
        /\ auctionValidityTime' = [auctionValidityTime EXCEPT ![u] = now]
    BY <1>6 DEF SetValidity
  <2>2. View' = View
    BY <2>1, Views
  <2>3. Abstract!SetValidity(u) /\ UNCHANGED <<Abstract!tokenVars, now>>
    BY <2>1, <2>2 DEF Abstract!SetValidity, Abstract!tokenVars
  <2>4. QED
    BY <2>3 DEF Abstract!NTokenNext
<1>7. ASSUME NEW t \in Tokens, NEW use \in BOOLEAN, MintOne(t, use) \/ BurnOne(t) \/ SetOne(t)
      PROVE  Goal
  <2> DEFINE marked == use /\ t \notin data.isUsedAsCollateral
             minted == AddTokenToOwnerEnumeration(
                           AddTokenToAllTokensEnumeration(data, t, OldTotalSupply + tx.index),
                           tx.user, t, OldBalance + tx.index)
             burned == RemoveTokenFromOwnerEnumeration(
                           RemoveTokenFromAllTokensEnumeration(data, t, OldTotalSupply - tx.index),
                           tx.user, t, OldBalance - tx.index)
             afterMint == [minted EXCEPT !.owners[t] = tx.user,
                                         !.isUsedAsCollateral = @ \cup IF marked THEN {t} ELSE {}]
             afterBurn == [burned EXCEPT !.owners[t] = NoOwner,
                                         !.isUsedAsCollateral = @ \ {t},
                                         !.startTime[t] = 0]
             afterSet == [data EXCEPT !.isUsedAsCollateral = IF tx.use THEN @ \cup {t} ELSE @ \ {t},
                                      !.collateralizedBalance[data.owners[t]] =
                                          IF tx.use THEN @ + 1 ELSE @ - 1]
  <2>1. /\ tx.op \in {"mint", "burn", "set"}
        /\ \/ Iterate(afterMint, Count(marked))
           \/ Iterate(afterBurn, Count(t \in data.isUsedAsCollateral))
           \/ Iterate(afterSet, 0)
           \/ Iterate(data, 0)
    BY <1>7 DEF MintOne, BurnOne, SetOne
  <2> HIDE DEF afterMint, afterBurn, afterSet, marked
  <2>2. Count(marked) \in Nat /\ Count(t \in data.isUsedAsCollateral) \in Nat /\ 0 \in Nat
    BY DEF Count
  <2>3. ASSUME NEW d2, NEW change \in Nat, Iterate(d2, change)
        PROVE  tx'.before = tx.before /\ tx'.op = tx.op /\ Kept
    BY <1>1, <2>1, <2>3, Iterated
  <2>4. tx'.before = tx.before /\ tx'.op = tx.op /\ Kept
    BY <2>1, <2>2, <2>3
  <2>5. tx # Idle /\ tx' # Idle
    BY <2>1, <2>4 DEF Idle
  <2>6. View' = View
    BY <2>4, <2>5, Views
  <2>7. QED
    BY <1>2, <2>4, <2>6
<1>8. ASSUME FinishMint \/ FinishBurn \/ FinishSet PROVE Goal
  <2>1. Kept
    BY <1>8 DEF FinishMint, FinishBurn, FinishSet, Commit
  <2>2. Abstract!TokenStep
    <3>1. CASE FinishMint
      BY <1>1, <3>1, MintIsSeen DEF Abstract!TokenStep
    <3>2. CASE FinishBurn
      BY <1>1, <3>2, BurnIsSeen DEF Abstract!TokenStep
    <3>3. CASE FinishSet
      BY <1>1, <3>3, SetIsSeen DEF Abstract!TokenStep
    <3>4. QED
      BY <1>8, <3>1, <3>2, <3>3
  <2>3. QED
    BY <1>3, <2>1, <2>2
<1>9. ASSUME Revert PROVE Goal
  <2>1. tx # Idle /\ tx' = Idle /\ data' = tx.before /\ Kept
    BY <1>9 DEF Revert
  <2>2. View' = View
    BY <2>1, Views
  <2>3. QED
    BY <1>2, <2>1, <2>2
<1>10. ASSUME NEW from \in Users, NEW to \in Users, NEW t \in Tokens, Transfer(from, to, t) PROVE Goal
  <2>1. Kept
    BY <1>10 DEF Transfer, Write
  <2>2. Abstract!TokenStep
    BY <1>1, <1>10, TransferIsSeen DEF Abstract!TokenStep
  <2>3. QED
    BY <1>3, <2>1, <2>2
<1>11. ASSUME NEW t \in Tokens, StartAuction(t) \/ EndAuction(t) PROVE Goal
  <2>1. Kept
    BY <1>11 DEF StartAuction, EndAuction, Write
  <2>2. Abstract!TokenStep
    BY <1>1, <1>11, AuctionIsSeen DEF Abstract!TokenStep
  <2>3. QED
    BY <1>3, <2>1, <2>2
<1>12. ASSUME Tick PROVE Goal
  <2>1. /\ tx = Idle /\ tx' = Idle /\ data' = data /\ now < MaxTime /\ now' = now + 1
        /\ auctionValidityTime' = auctionValidityTime
    BY <1>12 DEF Tick
  <2>2. View' = View
    BY <2>1, Views
  <2>3. Abstract!Tick /\ UNCHANGED <<Abstract!tokenVars, auctionValidityTime>>
    BY <2>1, <2>2 DEF Abstract!Tick, Abstract!tokenVars
  <2>4. QED
    BY <2>3 DEF Abstract!NTokenNext
<1> HIDE DEF Goal
<1>13. QED
  BY <1>1, <1>4, <1>5, <1>6, <1>7, <1>8, <1>9, <1>10, <1>11, <1>12 DEF LedgerNext

\* Seen from outside its transactions the storage of MintableERC721Logic does
\* what NToken promises: a batch takes effect at its commit, as a whole, and
\* one that is given up has had none.
THEOREM LedgerImplementsNToken == LedgerSpec => ImplementsNToken
<1>1. LedgerInit => Abstract!NTokenInit
  <2>1. SUFFICES ASSUME LedgerInit PROVE Abstract!NTokenInit
    OBVIOUS
  <2>2. View = EmptyData /\ auctionValidityTime = [u \in Users |-> 0] /\ now = 1
    BY <2>1, Views DEF LedgerInit
  <2>3. /\ EmptyData.owners = [t \in Tokens |-> NoOwner]
        /\ EmptyData.isUsedAsCollateral = {}
        /\ EmptyData.startTime = [t \in Tokens |-> 0]
    BY DEF EmptyData
  <2>4. QED
    BY <2>2, <2>3 DEF Abstract!NTokenInit
<1>2. LedgerInv /\ [LedgerNext]_ledgerVars => [Abstract!NTokenNext]_(Abstract!ntokenVars)
  BY NextImplements
<1>3. QED
  BY <1>1, <1>2, LedgerInvariant, PTL DEF LedgerSpec, ImplementsNToken, Abstract!NTokenSpec

=============================================================================
