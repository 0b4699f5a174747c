--------------------------- MODULE TimeLockProofs ---------------------------
(***************************************************************************)
(* TimeLock, for any users, assets, strategies, numbers of NFTs and of     *)
(* agreements: every NFT it holds is owed by exactly one agreement, every  *)
(* coin it holds is owed by some, an agreement is carried out as it was    *)
(* made and paid to the last unit, and what beneficiaries who are not      *)
(* listed take out undelayed exceeds the limit of a period at most twice.  *)
(***************************************************************************)
EXTENDS TimeLock, Sums

Agreements == [beneficiary : Users \cup {NoOne}, asset : Assets \cup {NoOne}, amount : Nat,
               tokens : SUBSET NFTs, releaseTime : Nat, isFrozen : BOOLEAN]

\* What the results about NFTs and agreements need of the types: nothing about coins.
LockTypes ==
    /\ agreements \in [Ids -> Agreements]
    /\ agreementCount \in 0 .. MaxAgreements
    /\ nftHolder \in [NFTs -> Users \cup {XToken, Lock}]
    /\ now \in Times

\* An id beyond the counter has no agreement: a new one overwrites nothing.
FreshIdsAreFree == \A id \in Ids : id >= agreementCount => ~Live(id)

LockInv == LockTypes /\ FreshIdsAreFree /\ NFTsBacked

-----------------------------------------------------------------------------

\* A release time of the strategy is a time.
LEMMA ReleaseTimeIsNat ==
    ASSUME StrategyAssumption, now \in Times, NEW a \in Assets, NEW n \in Nat
    PROVE  ReleaseTime(a, n) \in Nat
<1>1. /\ Strategy[a] \in StrategyData /\ now \in Nat
  BY DEF StrategyAssumption, Times
<1>2. ExtraDelay(a, n) \in Nat
  BY <1>1 DEF ExtraDelay, StrategyData
<1>3. WaitTime(a, n) \in Nat
  BY <1>1 DEF WaitTime, StrategyData
<1>4. QED
  BY <1>1, <1>2, <1>3 DEF ReleaseTime

\* A new agreement keeps the types and takes a fresh id; the others stay.
LEMMA CreateFresh ==
    ASSUME TimeLockAssumption, StrategyAssumption, LockTypes, FreshIdsAreFree,
           NEW a \in Assets, NEW n \in Nat, NEW T \in SUBSET NFTs, NEW u \in Users, NEW r \in Nat,
           CreateAgreement(a, n, T, u, r)
    PROVE  /\ agreements' \in [Ids -> Agreements]
           /\ agreementCount' \in 0 .. MaxAgreements
           /\ agreementCount \in Ids /\ ~Live(agreementCount)
           /\ agreements'[agreementCount].beneficiary = u
           /\ agreements'[agreementCount].tokens = T
           /\ agreements'[agreementCount].asset = a
           /\ agreements'[agreementCount].amount = n
           /\ \A id \in Ids : id # agreementCount => agreements'[id] = agreements[id]
           /\ agreementCount' = agreementCount + 1
<1> DEFINE release == IF u \in whiteList THEN now + MIN_WAIT_TIME ELSE r
           new == [beneficiary |-> u, asset |-> a, amount |-> n, tokens |-> T,
                   releaseTime |-> release, isFrozen |-> FALSE]
<1>1. /\ agreementCount \in Ids
      /\ agreements' = [agreements EXCEPT ![agreementCount] = new]
      /\ agreementCount' = agreementCount + 1
  BY DEF CreateAgreement
<1>2. release \in Nat
  BY DEF LockTypes, Times, StrategyAssumption, TimeLockAssumption
<1>3. new \in Agreements
  BY <1>2 DEF Agreements
<1> HIDE DEF release
<1>4. agreementCount' \in 0 .. MaxAgreements
  BY <1>1 DEF Ids, TimeLockAssumption
<1>5. /\ agreements' \in [Ids -> Agreements]
      /\ agreements'[agreementCount] = new
      /\ \A id \in Ids : id # agreementCount => agreements'[id] = agreements[id]
  BY <1>1, <1>3 DEF LockTypes
<1>6. ~Live(agreementCount)
  BY <1>1 DEF FreshIdsAreFree, LockTypes, Ids
<1>7. QED
  BY <1>1, <1>4, <1>5, <1>6

-----------------------------------------------------------------------------
(* LockInv is inductive.                                                   *)

\* The TimeLock starts without agreements and without NFTs.
LEMMA LockInvInit == TimeLockAssumption /\ StrategyAssumption /\ TimeLockInit => LockInv
<1> SUFFICES ASSUME TimeLockAssumption, StrategyAssumption, TimeLockInit PROVE LockInv
  OBVIOUS
<1>1. Deleted \in Agreements
  BY DEF Deleted, Agreements
<1>2. LockTypes
  BY <1>1 DEF LockTypes, TimeLockInit, StrategyInit, Times, StrategyAssumption, TimeLockAssumption
<1>3. \A id \in Ids : ~Live(id)
  BY DEF Live, TimeLockInit, Deleted
<1>4. QED
  BY <1>2, <1>3 DEF LockInv, FreshIdsAreFree, NFTsBacked, Naming, TimeLockInit, TimeLockAssumption

\* Coins leave the Pool: an agreement without NFTs.
LEMMA ReleaseCoinsKeepsInv ==
    ASSUME TimeLockAssumption, StrategyAssumption, LockInv,
           NEW u \in Users, NEW c \in Coins, NEW n \in Amounts, ReleaseCoins(u, c, n)
    PROVE  LockInv'
<1>1. c \in Assets /\ n \in Nat /\ u # NoOne
  BY DEF TimeLockAssumption
<1>2. ReleaseTime(c, n) \in Nat
  BY <1>1, ReleaseTimeIsNat DEF LockInv, LockTypes
<1>3. CreateAgreement(c, n, {}, u, ReleaseTime(c, n)) /\ UNCHANGED <<nftHolder, now>>
  BY DEF ReleaseCoins
<1>4. /\ agreements' \in [Ids -> Agreements]
      /\ agreementCount' \in 0 .. MaxAgreements
      /\ agreementCount \in Ids /\ ~Live(agreementCount)
      /\ agreements'[agreementCount].tokens = {}
      /\ \A id \in Ids : id # agreementCount => agreements'[id] = agreements[id]
      /\ agreementCount' = agreementCount + 1
  BY <1>1, <1>2, <1>3, CreateFresh DEF LockInv
<1>5. LockTypes'
  BY <1>3, <1>4 DEF LockInv, LockTypes
<1>6. FreshIdsAreFree'
  BY <1>4 DEF LockInv, FreshIdsAreFree, Live, Ids
<1>7. \A t \in NFTs : Naming(t)' = Naming(t)
  BY <1>4 DEF Naming, Live
<1>8. NFTsBacked'
  BY <1>3, <1>7 DEF LockInv, NFTsBacked
<1>9. QED
  BY <1>5, <1>6, <1>8 DEF LockInv

\* NFTs leave an xToken: nobody owed them before, the new agreement does.
LEMMA ReleaseNFTsKeepsInv ==
    ASSUME TimeLockAssumption, StrategyAssumption, LockInv,
           NEW u \in Users, NEW T \in SUBSET NFTs, NEW a \in Assets,
           Cardinality(T) \in Nat, ReleaseNFTs(u, a, T)
    PROVE  LockInv'
<1>1. u # NoOne /\ XToken # Lock
  BY DEF TimeLockAssumption
<1>2. ReleaseTime(a, Cardinality(T)) \in Nat
  BY ReleaseTimeIsNat DEF LockInv, LockTypes
<1>3. /\ \A t \in T : nftHolder[t] = XToken
      /\ CreateAgreement(a, 0, T, u, ReleaseTime(a, Cardinality(T)))
      /\ nftHolder' = [t \in NFTs |-> IF t \in T THEN Lock ELSE nftHolder[t]]
      /\ now' = now
  BY DEF ReleaseNFTs
<1>4. /\ agreements' \in [Ids -> Agreements]
      /\ agreementCount' \in 0 .. MaxAgreements
      /\ agreementCount \in Ids /\ ~Live(agreementCount)
      /\ agreements'[agreementCount].beneficiary = u
      /\ agreements'[agreementCount].tokens = T
      /\ \A id \in Ids : id # agreementCount => agreements'[id] = agreements[id]
      /\ agreementCount' = agreementCount + 1
  BY <1>2, <1>3, CreateFresh DEF LockInv
<1>5. LockTypes'
  BY <1>3, <1>4 DEF LockInv, LockTypes
<1>6. FreshIdsAreFree'
  BY <1>4 DEF LockInv, FreshIdsAreFree, Live, Ids
<1>7. \A t \in NFTs : Naming(t)' = IF t \in T THEN {agreementCount} ELSE Naming(t)
  <2>1. TAKE t \in NFTs
  <2>2. t \in T => Naming(t) = {}
    BY <1>1, <1>3 DEF LockInv, NFTsBacked
  <2>3. Naming(t)' = Naming(t) \cup (IF t \in T THEN {agreementCount} ELSE {})
    BY <1>1, <1>4 DEF Naming, Live
  <2>4. QED
    BY <2>2, <2>3
<1>8. NFTsBacked'
  <2>1. SUFFICES ASSUME NEW t \in NFTs
                 PROVE  /\ \A id1, id2 \in Naming(t)' : id1 = id2
                        /\ nftHolder'[t] = Lock <=> Naming(t)' # {}
    BY DEF NFTsBacked
  <2>2. CASE t \in T
    BY <1>3, <1>7, <2>2
  <2>3. CASE t \notin T
    <3>1. Naming(t)' = Naming(t) /\ nftHolder'[t] = nftHolder[t]
      BY <1>3, <1>7, <2>3
    <3>2. QED
      BY <3>1 DEF LockInv, NFTsBacked
  <2>4. QED
    BY <2>2, <2>3
<1>9. QED
  BY <1>5, <1>6, <1>8 DEF LockInv

\* A claim pays all that its agreements owe: each NFT of theirs is theirs only.
LEMMA PayOutKeepsInv ==
    ASSUME TimeLockAssumption, LockInv, NEW u \in Users, NEW I \in SUBSET Ids, PayOut(u, I)
    PROVE  LockInv'
<1>1. /\ u # NoOne /\ u # Lock
      /\ \A id \in I : Live(id)
  BY DEF TimeLockAssumption, PayOut, Due, Live
<1>2. /\ nftHolder' = [t \in NFTs |-> IF \E id \in I : t \in agreements[id].tokens THEN u
                                      ELSE nftHolder[t]]
      /\ agreements' = [id \in Ids |-> IF id \in I THEN Deleted ELSE agreements[id]]
      /\ agreementCount' = agreementCount /\ now' = now
  BY DEF PayOut
<1>3. Deleted \in Agreements /\ Deleted.beneficiary = NoOne
  BY DEF Deleted, Agreements
<1>4. LockTypes'
  BY <1>2, <1>3 DEF LockInv, LockTypes
<1>5. FreshIdsAreFree'
  BY <1>2, <1>3 DEF LockInv, FreshIdsAreFree, Live
<1>6. \A t \in NFTs : Naming(t)' = Naming(t) \ I
  BY <1>2, <1>3 DEF Naming, Live
<1>7. \A t \in NFTs : (\E id \in I : t \in agreements[id].tokens) <=> Naming(t) \cap I # {}
  BY <1>1 DEF Naming
<1>8. NFTsBacked'
  <2>1. SUFFICES ASSUME NEW t \in NFTs
                 PROVE  /\ \A id1, id2 \in Naming(t)' : id1 = id2
                        /\ nftHolder'[t] = Lock <=> Naming(t)' # {}
    BY DEF NFTsBacked
  <2>2. CASE Naming(t) \cap I # {}
    <3>1. Naming(t)' = {} /\ nftHolder'[t] = u
      BY <1>2, <1>6, <1>7, <2>2 DEF LockInv, NFTsBacked
    <3>2. QED
      BY <1>1, <3>1
  <2>3. CASE Naming(t) \cap I = {}
    <3>1. Naming(t)' = Naming(t) /\ nftHolder'[t] = nftHolder[t]
      BY <1>2, <1>6, <1>7, <2>3
    <3>2. QED
      BY <3>1 DEF LockInv, NFTsBacked
  <2>4. QED
    BY <2>2, <2>3
<1>9. QED
  BY <1>4, <1>5, <1>8 DEF LockInv

\* A freeze or its end changes no beneficiary and no token.
LEMMA SetFrozenKeepsInv ==
    ASSUME LockInv, NEW id \in Ids, NEW value \in BOOLEAN, SetFrozen(id, value)
    PROVE  LockInv'
<1> DEFINE changed == [agreements[id] EXCEPT !.isFrozen = value]
<1>1. /\ agreements' = [agreements EXCEPT ![id] = changed]
      /\ UNCHANGED <<agreementCount, nftHolder, now>>
  BY DEF SetFrozen
<1>2. agreements[id] \in Agreements
  BY DEF LockInv, LockTypes
<1>3. /\ changed \in Agreements
      /\ changed.beneficiary = agreements[id].beneficiary
      /\ changed.tokens = agreements[id].tokens
  BY <1>2 DEF Agreements
<1> HIDE DEF changed
<1>4. \A i \in Ids : /\ agreements'[i].beneficiary = agreements[i].beneficiary
                     /\ agreements'[i].tokens = agreements[i].tokens
  BY <1>1, <1>3 DEF LockInv, LockTypes
<1>5. LockTypes'
  BY <1>1, <1>3 DEF LockInv, LockTypes
<1>6. FreshIdsAreFree'
  BY <1>1, <1>4 DEF LockInv, FreshIdsAreFree, Live
<1>7. \A t \in NFTs : Naming(t)' = Naming(t)
  BY <1>4 DEF Naming, Live
<1>8. NFTsBacked'
  BY <1>1, <1>7 DEF LockInv, NFTsBacked
<1>9. QED
  BY <1>5, <1>6, <1>8 DEF LockInv

\* A claimed NFT goes back to an xToken.
LEMMA SupplyNFTKeepsInv ==
    ASSUME TimeLockAssumption, LockInv, NEW u \in Users, NEW t \in NFTs, SupplyNFT(u, t)
    PROVE  LockInv'
<1>1. /\ u # Lock /\ XToken # Lock
      /\ nftHolder[t] = u /\ nftHolder' = [nftHolder EXCEPT ![t] = XToken]
      /\ UNCHANGED <<agreements, agreementCount, now>>
  BY DEF TimeLockAssumption, SupplyNFT
<1>2. LockTypes'
  BY <1>1 DEF LockInv, LockTypes
<1>3. FreshIdsAreFree' /\ \A s \in NFTs : Naming(s)' = Naming(s)
  BY <1>1 DEF LockInv, FreshIdsAreFree, Naming, Live
<1>4. \A s \in NFTs : nftHolder'[s] = Lock <=> nftHolder[s] = Lock
  BY <1>1 DEF LockInv, LockTypes
<1>5. NFTsBacked'
  BY <1>3, <1>4 DEF LockInv, NFTsBacked
<1>6. QED
  BY <1>2, <1>3, <1>5 DEF LockInv

\* The other steps touch no agreement and no NFT.
LEMMA RestKeepsInv ==
    ASSUME StrategyAssumption, LockInv, UNCHANGED <<agreements, agreementCount, nftHolder>>, now' \in Times
    PROVE  LockInv'
<1>1. LockTypes' /\ FreshIdsAreFree'
  BY DEF LockInv, LockTypes, FreshIdsAreFree, Live
<1>2. \A t \in NFTs : Naming(t)' = Naming(t)
  BY DEF Naming, Live
<1>3. NFTsBacked'
  BY <1>2 DEF LockInv, NFTsBacked
<1>4. QED
  BY <1>1, <1>3 DEF LockInv

\* Every step of the TimeLock keeps LockInv.  The tokens of a call are a
\* finite set: their number is a natural number.
LEMMA LockInvNext ==
    ASSUME TimeLockAssumption, StrategyAssumption, LockInv,
           [TimeLockNext]_timeLockVars
    PROVE  LockInv'
<1>1. ASSUME NEW u \in Users, NEW c \in Coins, NEW n \in Amounts, ReleaseCoins(u, c, n)
      PROVE  LockInv'
  BY <1>1, ReleaseCoinsKeepsInv
<1>2. ASSUME NEW u \in Users, NEW T \in SUBSET NFTs, NEW a \in Assets \ Coins, ReleaseNFTs(u, a, T)
      PROVE  LockInv'
  <2>1. Cardinality(T) \in Nat
    BY FS_Subset, FS_CardinalityType DEF TimeLockAssumption
  <2>2. QED
    BY <1>2, <2>1, ReleaseNFTsKeepsInv
<1>3. ASSUME NEW u \in Users, NEW t \in NFTs, SupplyNFT(u, t)
      PROVE  LockInv'
  BY <1>3, SupplyNFTKeepsInv
<1>4. ASSUME NEW u \in Users, NEW I \in SUBSET Ids,
             Claim(u, I) \/ ClaimMoonBirds(u, I) \/ ClaimETH(u, I) \/ ClaimPunk(u, I)
      PROVE  LockInv'
  BY <1>4, PayOutKeepsInv DEF Claim, ClaimMoonBirds, ClaimETH, ClaimPunk
<1>5. UserStep => LockInv'
  BY <1>1, <1>2, <1>3, <1>4 DEF UserStep
<1>6. ASSUME NEW id \in Ids, FreezeAgreement(id) \/ UnfreezeAgreement(id)
      PROVE  LockInv'
  BY <1>6, SetFrozenKeepsInv DEF FreezeAgreement, UnfreezeAgreement
<1>7. now \in Times
  BY DEF LockInv, LockTypes
<1>8. ASSUME FreezeAllAgreements \/ UnfreezeAllAgreements
             \/ \E add, remove \in SUBSET Users : UpdateTimeLockWhiteList(add, remove)
      PROVE  LockInv'
  BY <1>7, <1>8, RestKeepsInv
     DEF FreezeAllAgreements, UnfreezeAllAgreements, SetAllFrozen, UpdateTimeLockWhiteList
<1>9. AdminStep => LockInv'
  BY <1>6, <1>8 DEF AdminStep
<1>10. Clock => LockInv'
  BY <1>7, RestKeepsInv DEF Clock, Tick, lockVars, Times, StrategyAssumption
<1>11. UNCHANGED timeLockVars => LockInv'
  BY <1>7, RestKeepsInv DEF timeLockVars, lockVars
<1>12. QED
  BY <1>5, <1>9, <1>10, <1>11 DEF TimeLockNext

-----------------------------------------------------------------------------

\* Every NFT of the TimeLock is owed by exactly one agreement, always, and no
\* agreement owes another: createAgreement, the four claims and their batches.
THEOREM NFTsBackedHolds ==
    ASSUME TimeLockAssumption, StrategyAssumption
    PROVE  TimeLockSpec => []NFTsBacked
<1>1. TimeLockInit => LockInv
  BY LockInvInit
<1>2. LockInv /\ [TimeLockNext]_timeLockVars => LockInv'
  BY LockInvNext
<1>3. LockInv => NFTsBacked
  BY DEF LockInv
<1>4. QED
  BY <1>1, <1>2, <1>3, PTL DEF TimeLockSpec

\* A step after which no live agreement differs by more than its freeze, and
\* no NFT of the TimeLock has moved, keeps the agreements.
LEMMA NothingEnds ==
    ASSUME \A id \in Ids : Live(id) =>
              /\ agreements'[id].beneficiary = agreements[id].beneficiary
              /\ [agreements'[id] EXCEPT !.isFrozen = FALSE] = [agreements[id] EXCEPT !.isFrozen = FALSE],
           \A t \in NFTs : nftHolder[t] = Lock => nftHolder'[t] = Lock
    PROVE  KeepAgreements
<1>1. Ended = {}
  BY DEF Ended, Live
<1>2. QED
  BY <1>1 DEF KeepAgreements

\* A new agreement replaces none.
LEMMA CreateKeepsAgreements ==
    ASSUME TimeLockAssumption, StrategyAssumption, LockInv,
           NEW a \in Assets, NEW n \in Nat, NEW T \in SUBSET NFTs, NEW u \in Users, NEW r \in Nat,
           CreateAgreement(a, n, T, u, r),
           \A t \in NFTs : nftHolder[t] = Lock => nftHolder'[t] = Lock
    PROVE  KeepAgreements
<1>1. \A id \in Ids : Live(id) => agreements'[id] = agreements[id]
  BY CreateFresh DEF LockInv
<1>2. QED
  BY <1>1, NothingEnds

\* A claim ends the agreements it names, no other, and pays their NFTs.
LEMMA PayOutKeepsAgreements ==
    ASSUME TimeLockAssumption, LockInv, NEW u \in Users, NEW I \in SUBSET Ids, PayOut(u, I)
    PROVE  KeepAgreements
<1>1. /\ u # NoOne /\ u # Lock /\ ~frozen
      /\ \A id \in I : /\ agreements[id].beneficiary = u
                       /\ now >= agreements[id].releaseTime
                       /\ ~agreements[id].isFrozen
  BY DEF TimeLockAssumption, PayOut, Due
<1>2. /\ nftHolder' = [t \in NFTs |-> IF \E id \in I : t \in agreements[id].tokens THEN u
                                      ELSE nftHolder[t]]
      /\ agreements' = [id \in Ids |-> IF id \in I THEN Deleted ELSE agreements[id]]
  BY DEF PayOut
<1>3. Deleted.beneficiary = NoOne
  BY DEF Deleted
<1>4. Ended = I
  BY <1>1, <1>2, <1>3 DEF Ended, Live
<1>5. \A id \in Ids \ Ended : agreements'[id] = agreements[id]
  BY <1>2, <1>4
<1>6. \A t \in NFTs : nftHolder[t] = Lock /\ nftHolder'[t] # Lock =>
          \E id \in I : t \in agreements[id].tokens /\ nftHolder'[t] = agreements[id].beneficiary
  BY <1>1, <1>2
<1>7. QED
  BY <1>1, <1>4, <1>5, <1>6 DEF KeepAgreements

\* A freeze changes nothing else of its agreement.
LEMMA SetFrozenKeepsAgreements ==
    ASSUME LockInv, NEW id \in Ids, NEW value \in BOOLEAN, SetFrozen(id, value)
    PROVE  KeepAgreements
<1>1. agreements' = [agreements EXCEPT ![id] = [agreements[id] EXCEPT !.isFrozen = value]]
      /\ nftHolder' = nftHolder
  BY DEF SetFrozen
<1>2. agreements \in [Ids -> Agreements]
  BY DEF LockInv, LockTypes
<1>3. ASSUME NEW i \in Ids
      PROVE  /\ agreements'[i].beneficiary = agreements[i].beneficiary
             /\ [agreements'[i] EXCEPT !.isFrozen = FALSE] = [agreements[i] EXCEPT !.isFrozen = FALSE]
  <2>1. CASE i = id
    <3>1. agreements'[i] = [agreements[i] EXCEPT !.isFrozen = value]
      BY <1>1, <1>2, <2>1
    <3>2. agreements[i] \in Agreements
      BY <1>2
    <3>3. QED
      BY <3>1, <3>2 DEF Agreements
  <2>2. CASE i # id
    BY <1>1, <1>2, <2>2
  <2>3. QED
    BY <2>1, <2>2
<1>4. QED
  BY <1>1, <1>3, NothingEnds

\* Every step keeps the agreements.
LEMMA NextKeepsAgreements ==
    ASSUME TimeLockAssumption, StrategyAssumption, LockInv, [TimeLockNext]_timeLockVars
    PROVE  [KeepAgreements]_timeLockVars
<1>1. ASSUME NEW u \in Users, NEW c \in Coins, NEW n \in Amounts, ReleaseCoins(u, c, n)
      PROVE  KeepAgreements
  <2>1. c \in Assets /\ n \in Nat
    BY DEF TimeLockAssumption
  <2>2. ReleaseTime(c, n) \in Nat
    BY <2>1, ReleaseTimeIsNat DEF LockInv, LockTypes
  <2>3. CreateAgreement(c, n, {}, u, ReleaseTime(c, n)) /\ nftHolder' = nftHolder
    BY <1>1 DEF ReleaseCoins
  <2>4. QED
    BY <2>1, <2>2, <2>3, CreateKeepsAgreements
<1>2. ASSUME NEW u \in Users, NEW T \in SUBSET NFTs, NEW a \in Assets \ Coins, ReleaseNFTs(u, a, T)
      PROVE  KeepAgreements
  <2>1. Cardinality(T) \in Nat
    BY FS_Subset, FS_CardinalityType DEF TimeLockAssumption
  <2>2. ReleaseTime(a, Cardinality(T)) \in Nat
    BY <2>1, ReleaseTimeIsNat DEF LockInv, LockTypes
  <2>3. /\ CreateAgreement(a, 0, T, u, ReleaseTime(a, Cardinality(T)))
        /\ \A t \in NFTs : nftHolder[t] = Lock => nftHolder'[t] = Lock
    BY <1>2 DEF ReleaseNFTs
  <2>4. QED
    BY <2>2, <2>3, CreateKeepsAgreements
<1>3. ASSUME NEW u \in Users, NEW t \in NFTs, SupplyNFT(u, t)
      PROVE  KeepAgreements
  BY <1>3, NothingEnds DEF SupplyNFT, TimeLockAssumption
<1>4. ASSUME NEW u \in Users, NEW I \in SUBSET Ids,
             Claim(u, I) \/ ClaimMoonBirds(u, I) \/ ClaimETH(u, I) \/ ClaimPunk(u, I)
      PROVE  KeepAgreements
  BY <1>4, PayOutKeepsAgreements DEF Claim, ClaimMoonBirds, ClaimETH, ClaimPunk
<1>5. UserStep => KeepAgreements
  BY <1>1, <1>2, <1>3, <1>4 DEF UserStep
<1>6. ASSUME NEW id \in Ids, FreezeAgreement(id) \/ UnfreezeAgreement(id)
      PROVE  KeepAgreements
  BY <1>6, SetFrozenKeepsAgreements DEF FreezeAgreement, UnfreezeAgreement
<1>7. ASSUME FreezeAllAgreements \/ UnfreezeAllAgreements
             \/ \E add, remove \in SUBSET Users : UpdateTimeLockWhiteList(add, remove)
      PROVE  KeepAgreements
  BY <1>7, NothingEnds
     DEF FreezeAllAgreements, UnfreezeAllAgreements, SetAllFrozen, UpdateTimeLockWhiteList
<1>8. AdminStep => KeepAgreements
  BY <1>6, <1>7 DEF AdminStep
<1>9. Clock => KeepAgreements
  BY NothingEnds DEF Clock, lockVars
<1>10. QED
  BY <1>5, <1>8, <1>9 DEF TimeLockNext

\* No agreement is changed, lost or paid to another, by any sequence of calls.
THEOREM AgreementsAreKeptHolds ==
    ASSUME TimeLockAssumption, StrategyAssumption
    PROVE  TimeLockSpec => AgreementsAreKept
<1>1. TimeLockInit => LockInv
  BY LockInvInit
<1>2. LockInv /\ [TimeLockNext]_timeLockVars => LockInv'
  BY LockInvNext
<1>3. LockInv /\ [TimeLockNext]_timeLockVars => [KeepAgreements]_timeLockVars
  BY NextKeepsAgreements
<1>4. QED
  BY <1>1, <1>2, <1>3, PTL DEF TimeLockSpec, AgreementsAreKept

-----------------------------------------------------------------------------
(* Coins: the sum of what the agreements owe.                              *)

\* What each agreement owes of a coin: Owed is the sum of these.
OwedBy(c) == [id \in Ids |-> IF agreements[id].asset = c THEN agreements[id].amount ELSE 0]

\* What is not there to be claimed owes nothing: creating an agreement in its
\* place loses nothing.
FreeIdsOweNothing == \A id \in Ids : ~Live(id) => agreements[id].amount = 0

CoinInv ==
    /\ LockInv
    /\ StrategyTypeOK
    /\ frozen \in BOOLEAN /\ whiteList \subseteq Users
    /\ held \in [Coins -> Nat]
    /\ wallet \in [Users -> [Coins -> Nat]]
    /\ FreeIdsOweNothing
    /\ CoinsBacked

\* There are finitely many ids.
LEMMA IdsAreFinite == ASSUME TimeLockAssumption PROVE IsFiniteSet(Ids)
  BY FS_Interval DEF Ids, TimeLockAssumption

\* What agreements owe is a natural number, and no more than what all owe.
LEMMA OwedIsNat ==
    ASSUME TimeLockAssumption, LockTypes, NEW c, NEW I \in SUBSET Ids
    PROVE  Owed(c, I) \in Nat /\ Owed(c, I) <= Owed(c, Ids)
<1>1. \A id \in Ids : OwedBy(c)[id] \in Nat
  BY DEF OwedBy, LockTypes, Agreements
<1>2. IsFiniteSet(Ids) /\ IsFiniteSet(I)
  BY IdsAreFinite, SubsetsAreFinite
<1>3. SumFunctionOnSet(OwedBy(c), I) \in Nat
  BY <1>1, <1>2, SumNat
<1>4. SumFunctionOnSet(OwedBy(c), I) <= SumFunctionOnSet(OwedBy(c), Ids)
  BY <1>1, <1>2, SumOfPart
<1>5. QED
  BY <1>3, <1>4 DEF Owed, OwedBy

\* The amounts stay: what is owed stays.
LEMMA OwedStays ==
    ASSUME TimeLockAssumption, LockTypes, NEW c,
           \A id \in Ids : /\ agreements'[id].asset = agreements[id].asset
                           /\ agreements'[id].amount = agreements[id].amount
    PROVE  Owed(c, Ids)' = Owed(c, Ids)
<1>1. OwedBy(c)' = OwedBy(c)
  BY DEF OwedBy
<1>2. QED
  BY <1>1 DEF Owed, OwedBy

\* A new agreement adds what it owes.
LEMMA OwedAfterCreate ==
    ASSUME TimeLockAssumption, LockTypes, LockTypes', FreeIdsOweNothing,
           agreementCount \in Ids, ~Live(agreementCount),
           \A id \in Ids : id # agreementCount => agreements'[id] = agreements[id], NEW c
    PROVE  Owed(c, Ids)' = Owed(c, Ids) + OwedBy(c)'[agreementCount]
<1>1. \A id \in Ids : OwedBy(c)[id] \in Nat /\ OwedBy(c)'[id] \in Nat
  BY DEF OwedBy, LockTypes, Agreements
<1>2. \A id \in Ids \ {agreementCount} : OwedBy(c)'[id] = OwedBy(c)[id]
  BY DEF OwedBy
<1>3. OwedBy(c)[agreementCount] = 0
  BY DEF OwedBy, FreeIdsOweNothing
<1>4. SumFunctionOnSet(OwedBy(c)', Ids) = SumFunctionOnSet(OwedBy(c), Ids)
          - OwedBy(c)[agreementCount] + OwedBy(c)'[agreementCount]
  <2>1. \A id \in Ids : OwedBy(c)[id] \in Int /\ OwedBy(c)'[id] \in Int
    BY <1>1
  <2>2. QED
    BY <1>2, <2>1, IdsAreFinite, SumChange
<1>5. SumFunctionOnSet(OwedBy(c), Ids) \in Nat
  BY OwedIsNat DEF Owed, OwedBy
<1>6. SumFunctionOnSet(OwedBy(c)', Ids) = SumFunctionOnSet(OwedBy(c), Ids) + OwedBy(c)'[agreementCount]
  BY <1>1, <1>3, <1>4, <1>5
<1>7. QED
  BY <1>6 DEF Owed, OwedBy

\* Deleted agreements take what they owed with them.
LEMMA OwedAfterPayOut ==
    ASSUME TimeLockAssumption, LockTypes, NEW I \in SUBSET Ids,
           agreements' = [id \in Ids |-> IF id \in I THEN Deleted ELSE agreements[id]], NEW c
    PROVE  Owed(c, Ids)' = Owed(c, Ids) - Owed(c, I)
<1>1. \A id \in Ids : OwedBy(c)[id] \in Int
  BY DEF OwedBy, LockTypes, Agreements
<1>2. \A id \in Ids : OwedBy(c)'[id] = IF id \in I THEN 0 ELSE OwedBy(c)[id]
  BY DEF OwedBy, Deleted
<1>3. SumFunctionOnSet(OwedBy(c)', Ids)
          = SumFunctionOnSet(OwedBy(c), Ids) - SumFunctionOnSet(OwedBy(c), I)
  BY <1>1, <1>2, IdsAreFinite, SumCleared
<1>4. QED
  BY <1>3 DEF Owed, OwedBy

\* Counting an amount keeps the types of the strategy.
LEMMA UpdateKeepsTypes ==
    ASSUME StrategyAssumption, StrategyTypeOK, NEW a \in Assets, NEW n \in Nat,
           UpdatePeriodLimit(a, n), now' = now
    PROVE  StrategyTypeOK'
<1>1. now \in Nat /\ now \in Times /\ NewTotal(a, n) \in Nat
  BY DEF StrategyTypeOK, NewTotal, Times, StrategyAssumption
<1>2. totalAmountInCurrentPeriod' \in [Assets -> Nat]
  BY <1>1 DEF UpdatePeriodLimit, StrategyTypeOK
<1>3. lastResetTimestamp' \in [Assets -> Nat]
  BY <1>1 DEF UpdatePeriodLimit, StrategyTypeOK
<1>4. QED
  BY <1>1, <1>2, <1>3 DEF StrategyTypeOK

\* Nothing is held and nothing is owed at the start.
LEMMA CoinInvInit == TimeLockAssumption /\ StrategyAssumption /\ TimeLockInit => CoinInv
<1> SUFFICES ASSUME TimeLockAssumption, StrategyAssumption, TimeLockInit PROVE CoinInv
  OBVIOUS
<1>1. LockInv
  BY LockInvInit
<1>2. StrategyTypeOK
  BY DEF TimeLockInit, StrategyInit, StrategyTypeOK, Times, StrategyAssumption
<1>3. \A id \in Ids : agreements[id].amount = 0
  BY DEF TimeLockInit, Deleted
<1>4. ASSUME NEW c \in Coins PROVE held[c] = Owed(c, Ids)
  <2>1. \A id \in Ids : OwedBy(c)[id] \in Nat /\ OwedBy(c)[id] = 0
    BY <1>3 DEF OwedBy
  <2>2. SumFunctionOnSet(OwedBy(c), Ids) = 0
    BY <2>1, IdsAreFinite, SumNat
  <2>3. QED
    BY <2>2 DEF Owed, OwedBy, TimeLockInit
<1>5. QED
  BY <1>1, <1>2, <1>3, <1>4 DEF CoinInv, CoinsBacked, FreeIdsOweNothing, TimeLockInit

\* What is sent to the TimeLock is what the new agreement owes.
LEMMA ReleaseCoinsBacked ==
    ASSUME TimeLockAssumption, StrategyAssumption, CoinInv,
           NEW u \in Users, NEW c \in Coins, NEW n \in Amounts, ReleaseCoins(u, c, n)
    PROVE  CoinInv'
<1>1. c \in Assets /\ n \in Nat /\ u # NoOne
  BY DEF TimeLockAssumption
<1>2. LockInv'
  BY ReleaseCoinsKeepsInv DEF CoinInv
<1>3. ReleaseTime(c, n) \in Nat
  BY <1>1, ReleaseTimeIsNat DEF CoinInv, LockInv, LockTypes
<1>4. /\ CreateAgreement(c, n, {}, u, ReleaseTime(c, n)) /\ UpdatePeriodLimit(c, n)
      /\ held' = [held EXCEPT ![c] = @ + n]
      /\ UNCHANGED <<frozen, whiteList, wallet, now>>
  BY DEF ReleaseCoins
<1>5. /\ agreementCount \in Ids /\ ~Live(agreementCount)
      /\ agreements'[agreementCount].beneficiary = u
      /\ agreements'[agreementCount].asset = c
      /\ agreements'[agreementCount].amount = n
      /\ \A id \in Ids : id # agreementCount => agreements'[id] = agreements[id]
  BY <1>1, <1>3, <1>4, CreateFresh DEF CoinInv, LockInv
<1>6. FreeIdsOweNothing'
  BY <1>1, <1>5 DEF CoinInv, FreeIdsOweNothing, Live
<1>7. StrategyTypeOK'
  BY <1>1, <1>4, UpdateKeepsTypes DEF CoinInv
<1>8. held' \in [Coins -> Nat]
  BY <1>1, <1>4 DEF CoinInv
<1>9. ASSUME NEW d \in Coins PROVE held'[d] = Owed(d, Ids)'
  <2>1. Owed(d, Ids)' = Owed(d, Ids) + OwedBy(d)'[agreementCount]
    BY <1>2, <1>5, OwedAfterCreate DEF CoinInv, LockInv
  <2>2. OwedBy(d)'[agreementCount] = IF d = c THEN n ELSE 0
    BY <1>5 DEF OwedBy
  <2>3. held[d] = Owed(d, Ids) /\ held[d] \in Nat
    BY DEF CoinInv, CoinsBacked
  <2>4. held'[d] = held[d] + IF d = c THEN n ELSE 0
    BY <1>1, <1>4, <2>3 DEF CoinInv
  <2>5. QED
    BY <2>1, <2>2, <2>3, <2>4
<1>10. QED
  BY <1>2, <1>4, <1>6, <1>7, <1>8, <1>9 DEF CoinInv, CoinsBacked

\* An agreement of NFTs owes no coin.
LEMMA ReleaseNFTsBacked ==
    ASSUME TimeLockAssumption, StrategyAssumption, CoinInv,
           NEW u \in Users, NEW T \in SUBSET NFTs, NEW a \in Assets,
           Cardinality(T) \in Nat, ReleaseNFTs(u, a, T)
    PROVE  CoinInv'
<1>1. u # NoOne
  BY DEF TimeLockAssumption
<1>2. LockInv'
  BY ReleaseNFTsKeepsInv DEF CoinInv
<1>3. ReleaseTime(a, Cardinality(T)) \in Nat
  BY ReleaseTimeIsNat DEF CoinInv, LockInv, LockTypes
<1>4. /\ CreateAgreement(a, 0, T, u, ReleaseTime(a, Cardinality(T)))
      /\ UpdatePeriodLimit(a, Cardinality(T))
      /\ UNCHANGED <<frozen, whiteList, held, wallet, now>>
  BY DEF ReleaseNFTs
<1>5. /\ agreementCount \in Ids /\ ~Live(agreementCount)
      /\ agreements'[agreementCount].beneficiary = u
      /\ agreements'[agreementCount].amount = 0
      /\ \A id \in Ids : id # agreementCount => agreements'[id] = agreements[id]
  BY <1>3, <1>4, CreateFresh DEF CoinInv, LockInv
<1>6. FreeIdsOweNothing'
  BY <1>1, <1>5 DEF CoinInv, FreeIdsOweNothing, Live
<1>7. StrategyTypeOK'
  BY <1>4, UpdateKeepsTypes DEF CoinInv
<1>8. ASSUME NEW d \in Coins PROVE Owed(d, Ids)' = Owed(d, Ids)
  <2>1. Owed(d, Ids)' = Owed(d, Ids) + OwedBy(d)'[agreementCount]
    BY <1>2, <1>5, OwedAfterCreate DEF CoinInv, LockInv
  <2>2. OwedBy(d)'[agreementCount] = 0
    BY <1>5 DEF OwedBy
  <2>3. Owed(d, Ids) \in Nat
    BY OwedIsNat DEF CoinInv, LockInv
  <2>4. QED
    BY <2>1, <2>2, <2>3
<1>9. CoinsBacked'
  BY <1>4, <1>8 DEF CoinInv, CoinsBacked
<1>10. QED
  BY <1>2, <1>4, <1>6, <1>7, <1>9 DEF CoinInv

\* A claim takes, of each coin, what its agreements owe, which is there.
LEMMA PayOutBacked ==
    ASSUME TimeLockAssumption, CoinInv, NEW u \in Users, NEW I \in SUBSET Ids, PayOut(u, I)
    PROVE  CoinInv'
<1>1. LockInv'
  BY PayOutKeepsInv DEF CoinInv
<1>2. /\ held' = [c \in Coins |-> held[c] - Owed(c, I)]
      /\ wallet' = [wallet EXCEPT ![u] = [c \in Coins |-> wallet[u][c] + Owed(c, I)]]
      /\ agreements' = [id \in Ids |-> IF id \in I THEN Deleted ELSE agreements[id]]
      /\ UNCHANGED <<frozen, whiteList, strategyVars, now>>
  BY DEF PayOut, CoinInv
<1>3. \A c \in Coins : /\ Owed(c, I) \in Nat /\ Owed(c, Ids) \in Nat /\ Owed(c, I) <= Owed(c, Ids)
                       /\ Owed(c, Ids)' = Owed(c, Ids) - Owed(c, I)
                       /\ held[c] = Owed(c, Ids)
  BY <1>2, OwedIsNat, OwedAfterPayOut DEF CoinInv, LockInv, CoinsBacked
<1>4. held' \in [Coins -> Nat] /\ CoinsBacked'
  BY <1>2, <1>3 DEF CoinsBacked
<1>5. wallet' \in [Users -> [Coins -> Nat]]
  BY <1>2, <1>3 DEF CoinInv
<1>6. FreeIdsOweNothing'
  BY <1>2 DEF CoinInv, FreeIdsOweNothing, Live, Deleted
<1>7. StrategyTypeOK'
  BY <1>2 DEF CoinInv, StrategyTypeOK, strategyVars, Times
<1>8. QED
  BY <1>1, <1>2, <1>4, <1>5, <1>6, <1>7 DEF CoinInv

\* A step that moves no coin and changes no amount.
LEMMA RestBacked ==
    ASSUME TimeLockAssumption, CoinInv, LockInv', StrategyTypeOK',
           frozen' \in BOOLEAN, whiteList' \subseteq Users, UNCHANGED <<held, wallet>>,
           \A id \in Ids : /\ agreements'[id].beneficiary = agreements[id].beneficiary
                           /\ agreements'[id].asset = agreements[id].asset
                           /\ agreements'[id].amount = agreements[id].amount
    PROVE  CoinInv'
<1>1. \A c \in Coins : Owed(c, Ids)' = Owed(c, Ids)
  BY OwedStays DEF CoinInv, LockInv
<1>2. CoinsBacked'
  BY <1>1 DEF CoinInv, CoinsBacked
<1>3. FreeIdsOweNothing'
  BY DEF CoinInv, FreeIdsOweNothing, Live
<1>4. QED
  BY <1>2, <1>3 DEF CoinInv

\* Every step of the TimeLock keeps CoinInv.
LEMMA CoinInvNext ==
    ASSUME TimeLockAssumption, StrategyAssumption, CoinInv, [TimeLockNext]_timeLockVars
    PROVE  CoinInv'
<1>1. ASSUME NEW u \in Users, NEW c \in Coins, NEW n \in Amounts, ReleaseCoins(u, c, n)
      PROVE  CoinInv'
  BY <1>1, ReleaseCoinsBacked
<1>2. ASSUME NEW u \in Users, NEW T \in SUBSET NFTs, NEW a \in Assets \ Coins, ReleaseNFTs(u, a, T)
      PROVE  CoinInv'
  <2>1. Cardinality(T) \in Nat
    BY FS_Subset, FS_CardinalityType DEF TimeLockAssumption
  <2>2. QED
    BY <1>2, <2>1, ReleaseNFTsBacked
<1>3. LockInv'
  BY LockInvNext DEF CoinInv
<1>4. ASSUME NEW u \in Users, NEW t \in NFTs, SupplyNFT(u, t)
      PROVE  CoinInv'
  <2>1. StrategyTypeOK'
    BY <1>4 DEF SupplyNFT, strategyVars, CoinInv, StrategyTypeOK, Times
  <2>2. QED
    BY <1>3, <1>4, <2>1, RestBacked DEF SupplyNFT, CoinInv
<1>5. ASSUME NEW u \in Users, NEW I \in SUBSET Ids,
             Claim(u, I) \/ ClaimMoonBirds(u, I) \/ ClaimETH(u, I) \/ ClaimPunk(u, I)
      PROVE  CoinInv'
  BY <1>5, PayOutBacked DEF Claim, ClaimMoonBirds, ClaimETH, ClaimPunk
<1>6. UserStep => CoinInv'
  BY <1>1, <1>2, <1>4, <1>5 DEF UserStep
<1>7. ASSUME NEW id \in Ids, NEW value \in BOOLEAN, SetFrozen(id, value)
      PROVE  CoinInv'
  <2>1. StrategyTypeOK'
    BY <1>7 DEF SetFrozen, strategyVars, CoinInv, StrategyTypeOK, Times
  <2>2. ASSUME NEW i \in Ids
        PROVE  /\ agreements'[i].beneficiary = agreements[i].beneficiary
               /\ agreements'[i].asset = agreements[i].asset
               /\ agreements'[i].amount = agreements[i].amount
    <3>1. agreements[i] \in Agreements /\ agreements \in [Ids -> Agreements]
      BY DEF CoinInv, LockInv, LockTypes
    <3>2. agreements'[i] = agreements[i] \/ agreements'[i] = [agreements[i] EXCEPT !.isFrozen = value]
      BY <1>7, <3>1 DEF SetFrozen
    <3>3. QED
      BY <3>1, <3>2 DEF Agreements
  <2>3. UNCHANGED <<frozen, whiteList, held, wallet>>
    BY <1>7 DEF SetFrozen
  <2>4. QED
    BY <1>3, <2>1, <2>2, <2>3, RestBacked DEF CoinInv
<1>8. ASSUME FreezeAllAgreements \/ UnfreezeAllAgreements
             \/ \E add, remove \in SUBSET Users : UpdateTimeLockWhiteList(add, remove)
      PROVE  CoinInv'
  <2>1. UNCHANGED <<agreements, held, wallet, strategyVars, now>>
    BY <1>8 DEF FreezeAllAgreements, UnfreezeAllAgreements, SetAllFrozen, UpdateTimeLockWhiteList
  <2>2. frozen' \in BOOLEAN /\ whiteList' \subseteq Users
    BY <1>8 DEF FreezeAllAgreements, UnfreezeAllAgreements, SetAllFrozen, UpdateTimeLockWhiteList,
                CoinInv
  <2>3. StrategyTypeOK'
    BY <2>1 DEF strategyVars, CoinInv, StrategyTypeOK, Times
  <2>4. QED
    BY <1>3, <2>1, <2>2, <2>3, RestBacked
<1>9. AdminStep => CoinInv'
  BY <1>7, <1>8 DEF AdminStep, FreezeAgreement, UnfreezeAgreement
<1>10. ASSUME Clock \/ UNCHANGED timeLockVars PROVE CoinInv'
  <2>1. UNCHANGED <<agreements, frozen, whiteList, held, wallet, strategyVars>>
    BY <1>10 DEF Clock, Tick, lockVars, timeLockVars
  <2>2. now' \in Times
    BY <1>3 DEF LockInv, LockTypes, Times
  <2>3. StrategyTypeOK'
    BY <2>1, <2>2 DEF strategyVars, CoinInv, StrategyTypeOK, Times
  <2>4. QED
    BY <1>3, <2>1, <2>3, RestBacked DEF CoinInv
<1>11. QED
  BY <1>6, <1>9, <1>10 DEF TimeLockNext

-----------------------------------------------------------------------------

\* The TimeLock holds, of every coin, the sum of what its agreements owe, for
\* any number of agreements, made, claimed in batches and frozen in any order.
THEOREM CoinsBackedHolds ==
    ASSUME TimeLockAssumption, StrategyAssumption
    PROVE  TimeLockSpec => []CoinsBacked
<1>1. TimeLockInit => CoinInv
  BY CoinInvInit
<1>2. CoinInv /\ [TimeLockNext]_timeLockVars => CoinInv'
  BY CoinInvNext
<1>3. CoinInv => CoinsBacked
  BY DEF CoinInv
<1>4. QED
  BY <1>1, <1>2, <1>3, PTL DEF TimeLockSpec

-----------------------------------------------------------------------------
(* What a beneficiary receives.                                            *)

\* The agreements of a beneficiary that a step ends, and what it is paid.
EndedOf(u) == {id \in Ended : agreements[id].beneficiary = u}

PayWhatEnds == \A u \in Users, c \in Coins : wallet'[u][c] - wallet[u][c] = Owed(c, EndedOf(u))

\* A step that ends nothing and pays nothing.
LEMMA NothingPaid ==
    ASSUME CoinInv, wallet' = wallet,
           \A id \in Ids : Live(id) => agreements'[id].beneficiary = agreements[id].beneficiary
    PROVE  PayWhatEnds
<1>1. Ended = {}
  BY DEF Ended, Live
<1>2. \A u \in Users : EndedOf(u) = {}
  BY <1>1 DEF EndedOf
<1>3. \A c : Owed(c, {}) = 0
  BY SumEmpty DEF Owed
<1>4. \A u \in Users, c \in Coins : wallet[u][c] \in Nat
  BY DEF CoinInv
<1>5. QED
  BY <1>2, <1>3, <1>4 DEF PayWhatEnds

\* A claim pays what it ends, and to nobody else.
LEMMA PayOutPays ==
    ASSUME TimeLockAssumption, CoinInv, NEW u \in Users, NEW I \in SUBSET Ids, PayOut(u, I)
    PROVE  PayWhatEnds
<1>1. /\ u # NoOne
      /\ \A id \in I : agreements[id].beneficiary = u
      /\ agreements' = [id \in Ids |-> IF id \in I THEN Deleted ELSE agreements[id]]
      /\ wallet' = [wallet EXCEPT ![u] = [c \in Coins |-> wallet[u][c] + Owed(c, I)]]
  BY DEF PayOut, Due, TimeLockAssumption, CoinInv
<1>2. Deleted.beneficiary = NoOne
  BY DEF Deleted
<1>3. Ended = I
  BY <1>1, <1>2 DEF Ended, Live
<1>4. ASSUME NEW v \in Users, NEW c \in Coins
      PROVE  wallet'[v][c] - wallet[v][c] = Owed(c, EndedOf(v))
  <2>1. wallet[v][c] \in Nat /\ Owed(c, I) \in Nat
    BY OwedIsNat DEF CoinInv, LockInv
  <2>2. CASE v = u
    <3>1. EndedOf(v) = I
      BY <1>1, <1>3, <2>2 DEF EndedOf
    <3>2. wallet'[v][c] = wallet[v][c] + Owed(c, I)
      BY <1>1, <2>2 DEF CoinInv
    <3>3. QED
      BY <2>1, <3>1, <3>2
  <2>3. CASE v # u
    <3>1. EndedOf(v) = {}
      BY <1>1, <1>3, <2>3 DEF EndedOf
    <3>2. wallet'[v][c] = wallet[v][c]
      BY <1>1, <2>3 DEF CoinInv
    <3>3. Owed(c, {}) = 0
      BY SumEmpty DEF Owed
    <3>4. QED
      BY <2>1, <3>1, <3>2, <3>3
  <2>4. QED
    BY <2>2, <2>3
<1>5. QED
  BY <1>4 DEF PayWhatEnds

\* Every step pays what it ends.
LEMMA NextPaysWhatEnds ==
    ASSUME TimeLockAssumption, StrategyAssumption, CoinInv, [TimeLockNext]_timeLockVars
    PROVE  [PayWhatEnds]_timeLockVars
<1>1. ASSUME NEW u \in Users, NEW I \in SUBSET Ids,
             Claim(u, I) \/ ClaimMoonBirds(u, I) \/ ClaimETH(u, I) \/ ClaimPunk(u, I)
      PROVE  PayWhatEnds
  BY <1>1, PayOutPays DEF Claim, ClaimMoonBirds, ClaimETH, ClaimPunk
<1>2. ASSUME NEW id \in Ids, NEW value \in BOOLEAN, SetFrozen(id, value)
      PROVE  PayWhatEnds
  <2>1. ASSUME NEW i \in Ids PROVE agreements'[i].beneficiary = agreements[i].beneficiary
    <3>1. agreements[i] \in Agreements /\ agreements \in [Ids -> Agreements]
      BY DEF CoinInv, LockInv, LockTypes
    <3>2. agreements'[i] = agreements[i] \/ agreements'[i] = [agreements[i] EXCEPT !.isFrozen = value]
      BY <1>2, <3>1 DEF SetFrozen
    <3>3. QED
      BY <3>1, <3>2 DEF Agreements
  <2>2. QED
    BY <1>2, <2>1, NothingPaid DEF SetFrozen
<1>3. ASSUME NEW u \in Users, NEW c \in Coins, NEW n \in Amounts, ReleaseCoins(u, c, n)
      PROVE  PayWhatEnds
  <2>1. c \in Assets /\ n \in Nat
    BY DEF TimeLockAssumption
  <2>2. ReleaseTime(c, n) \in Nat
    BY <2>1, ReleaseTimeIsNat DEF CoinInv, LockInv, LockTypes
  <2>3. CreateAgreement(c, n, {}, u, ReleaseTime(c, n)) /\ wallet' = wallet
    BY <1>3 DEF ReleaseCoins
  <2>4. \A id \in Ids : Live(id) => agreements'[id] = agreements[id]
    BY <2>1, <2>2, <2>3, CreateFresh DEF CoinInv, LockInv
  <2>5. QED
    BY <2>3, <2>4, NothingPaid
<1>4. ASSUME NEW u \in Users, NEW T \in SUBSET NFTs, NEW a \in Assets \ Coins, ReleaseNFTs(u, a, T)
      PROVE  PayWhatEnds
  <2>1. Cardinality(T) \in Nat
    BY FS_Subset, FS_CardinalityType DEF TimeLockAssumption
  <2>2. ReleaseTime(a, Cardinality(T)) \in Nat
    BY <2>1, ReleaseTimeIsNat DEF CoinInv, LockInv, LockTypes
  <2>3. CreateAgreement(a, 0, T, u, ReleaseTime(a, Cardinality(T))) /\ wallet' = wallet
    BY <1>4 DEF ReleaseNFTs
  <2>4. \A id \in Ids : Live(id) => agreements'[id] = agreements[id]
    BY <2>2, <2>3, CreateFresh DEF CoinInv, LockInv
  <2>5. QED
    BY <2>3, <2>4, NothingPaid
<1>5. ASSUME NEW u \in Users, NEW t \in NFTs, SupplyNFT(u, t) PROVE PayWhatEnds
  BY <1>5, NothingPaid DEF SupplyNFT
<1>6. UserStep => PayWhatEnds
  BY <1>1, <1>3, <1>4, <1>5 DEF UserStep
<1>7. ASSUME FreezeAllAgreements \/ UnfreezeAllAgreements
             \/ \E add, remove \in SUBSET Users : UpdateTimeLockWhiteList(add, remove)
      PROVE  PayWhatEnds
  BY <1>7, NothingPaid
     DEF FreezeAllAgreements, UnfreezeAllAgreements, SetAllFrozen, UpdateTimeLockWhiteList
<1>8. AdminStep => PayWhatEnds
  BY <1>2, <1>7 DEF AdminStep, FreezeAgreement, UnfreezeAgreement
<1>9. Clock => PayWhatEnds
  BY NothingPaid DEF Clock, lockVars
<1>10. QED
  BY <1>6, <1>8, <1>9 DEF TimeLockNext

\* A beneficiary is paid, of every coin, what its agreements that end owe, to
\* the last unit, in every step.
THEOREM PaidInFullHolds ==
    ASSUME TimeLockAssumption, StrategyAssumption
    PROVE  TimeLockSpec => PaidInFull
<1>1. TimeLockInit => CoinInv
  BY CoinInvInit
<1>2. CoinInv /\ [TimeLockNext]_timeLockVars => CoinInv'
  BY CoinInvNext
<1>3. CoinInv /\ [TimeLockNext]_timeLockVars => [PayWhatEnds]_timeLockVars
  BY NextPaysWhatEnds
<1>4. PaidInFull <=> [][PayWhatEnds]_timeLockVars
  BY DEF PaidInFull, PayWhatEnds, EndedOf
<1>5. QED
  BY <1>1, <1>2, <1>3, <1>4, PTL DEF TimeLockSpec

-----------------------------------------------------------------------------
(* The limit of a period.                                                  *)

\* The sum of u, what passed without delay at each time, over the times T, and
\* the stretches it is taken over.
Passed(u, T) == SumFunctionOnSet(u, T)

From(r) == {t \in Times : t >= r}
Between(s, r) == {t \in Times : t >= s /\ t < r}
Window(a, s) == {t \in Times : t \in s .. s + Strategy[a].period - 1}

\* The running period has let at most the limit pass, and nothing beyond it;
\* less than a period before it, at most the limit had passed as well.
PeriodInv(a) ==
    /\ \A t \in Times : t >= lastResetTimestamp[a] + Strategy[a].period => undelayed[a][t] = 0
    /\ Passed(undelayed[a], From(lastResetTimestamp[a])) <= Strategy[a].poolPeriodLimit
    /\ Passed(undelayed[a], From(lastResetTimestamp[a])) <= totalAmountInCurrentPeriod[a]
    /\ \A s \in Times : s > lastResetTimestamp[a] - Strategy[a].period =>
          Passed(undelayed[a], Between(s, lastResetTimestamp[a])) <= Strategy[a].poolPeriodLimit

\* A strategy without a period limits nothing.
LimitInv ==
    /\ StrategyTypeOK
    /\ undelayed \in [Assets -> [Times -> Nat]]
    /\ \A a \in Assets : lastResetTimestamp[a] <= now
    /\ \A a \in Assets : Strategy[a].period > 0 => PeriodInv(a)
    /\ WindowLimit

\* The times of the clock are natural numbers.
LEMMA TimesAreNat == ASSUME StrategyAssumption PROVE Times \subseteq Nat
  BY DEF Times, StrategyAssumption

\* There are finitely many of them.
LEMMA TimesAreFinite ==
    ASSUME StrategyAssumption, NEW T \in SUBSET Times
    PROVE  IsFiniteSet(T)
<1>1. IsFiniteSet(Times)
  BY FS_Interval DEF Times, StrategyAssumption
<1>2. QED
  BY <1>1, FS_Subset

\* What passed is a natural number, less over fewer times, nothing if nothing did.
LEMMA PassedIsNat ==
    ASSUME StrategyAssumption, undelayed \in [Assets -> [Times -> Nat]], NEW a \in Assets,
           NEW T \in SUBSET Times, NEW U \in SUBSET T
    PROVE  /\ Passed(undelayed[a], T) \in Nat /\ Passed(undelayed[a], U) \in Nat
           /\ Passed(undelayed[a], U) <= Passed(undelayed[a], T)
           /\ (\A t \in T : undelayed[a][t] = 0) => Passed(undelayed[a], T) = 0
<1>1. \A t \in T : undelayed[a][t] \in Nat
  OBVIOUS
<1>2. IsFiniteSet(T) /\ IsFiniteSet(U) /\ U \subseteq T
  BY TimesAreFinite
<1>3. QED
  BY <1>1, <1>2, SumNat, SumOfPart DEF Passed

\* The numbers of a strategy.
LEMMA StrategyNumbers ==
    ASSUME StrategyAssumption, StrategyTypeOK, NEW a \in Assets
    PROVE  /\ Strategy[a].period \in Nat /\ Strategy[a].poolPeriodLimit \in Nat
           /\ lastResetTimestamp[a] \in Nat /\ totalAmountInCurrentPeriod[a] \in Nat
           /\ now \in Times /\ now \in Nat
BY DEF StrategyAssumption, StrategyData, StrategyTypeOK, Times

\* Where nothing is added, what passed stays; at the moment of a withdrawal it
\* grows by what is added.
LEMMA PassedAfterUpdate ==
    ASSUME StrategyAssumption, NEW a \in Assets, NEW d \in Nat, NEW T \in SUBSET Times,
           undelayed \in [Assets -> [Times -> Nat]], undelayed' \in [Assets -> [Times -> Nat]],
           \A t \in Times : undelayed'[a][t] = undelayed[a][t] + IF t = now THEN d ELSE 0
    PROVE  Passed(undelayed'[a], T) = Passed(undelayed[a], T) + IF now \in T THEN d ELSE 0
<1>1. \A t \in T : undelayed[a][t] \in Int /\ undelayed'[a][t] \in Int
  OBVIOUS
<1>2. IsFiniteSet(T)
  BY TimesAreFinite
<1>3. CASE now \in T
  <2>1. \A t \in T \ {now} : undelayed[a][t] = undelayed'[a][t]
    BY <1>1
  <2> DEFINE f == undelayed[a]
             e == undelayed'[a]
  <2>2. SumFunctionOnSet(e, T) = SumFunctionOnSet(f, T) - f[now] + e[now]
    <3>1. \A t \in T : f[t] \in Int /\ e[t] \in Int
      BY <1>1
    <3>2. \A t \in T \ {now} : f[t] = e[t]
      BY <2>1
    <3> HIDE DEF f, e
    <3>3. QED
      BY <1>2, <1>3, <3>1, <3>2, SumChange
  <2>3. undelayed'[a][now] = undelayed[a][now] + d
    BY <1>3
  <2>4. SumFunctionOnSet(undelayed[a], T) \in Int /\ undelayed[a][now] \in Int
    BY <1>1, <1>2, <1>3, SumType
  <2>5. QED
    BY <1>3, <2>2, <2>3, <2>4 DEF Passed
<1>4. CASE now \notin T
  <2>1. \A t \in T : undelayed[a][t] = undelayed'[a][t]
    BY <1>1, <1>4
  <2>2. SumFunctionOnSet(undelayed[a], T) = SumFunctionOnSet(undelayed'[a], T)
    BY <1>1, <1>2, <2>1, SumSame
  <2>3. SumFunctionOnSet(undelayed[a], T) \in Int
    BY <1>1, <1>2, SumType
  <2>4. QED
    BY <1>4, <2>2, <2>3 DEF Passed
<1>5. QED
  BY <1>3, <1>4

\* A withdrawal in the running period, or the first one of a new period: the
\* stretch that was less than a period before it lies in the old one.
LEMMA UpdateKeepsPeriod ==
    ASSUME StrategyAssumption, LimitInv, now' = now,
           NEW a \in Assets, NEW n \in Nat, UpdatePeriodLimit(a, n), Strategy[a].period > 0,
           NEW d \in Nat, d <= n, d > 0 => NewTotal(a, n) <= Strategy[a].poolPeriodLimit,
           undelayed' \in [Assets -> [Times -> Nat]],
           \A t \in Times : undelayed'[a][t] = undelayed[a][t] + IF t = now THEN d ELSE 0
    PROVE  PeriodInv(a)'
<1> DEFINE R == lastResetTimestamp[a]
           P == Strategy[a].period
           L == Strategy[a].poolPeriodLimit
           total == totalAmountInCurrentPeriod[a]
<1>1. P \in Nat \ {0} /\ L \in Nat /\ R \in Nat /\ total \in Nat /\ now \in Nat /\ R <= now
  BY StrategyNumbers DEF LimitInv
<1>2. StrategyTypeOK /\ undelayed \in [Assets -> [Times -> Nat]] /\ PeriodInv(a)
  BY DEF LimitInv
<1>3. /\ \A t \in Times : t >= R + P => undelayed[a][t] = 0
      /\ Passed(undelayed[a], From(R)) <= L /\ Passed(undelayed[a], From(R)) <= total
      /\ \A s \in Times : s > R - P => Passed(undelayed[a], Between(s, R)) <= L
  BY <1>2 DEF PeriodInv
<1>4. now \in Times /\ Times \subseteq Nat
  BY <1>2, TimesAreNat, StrategyNumbers
<1>5. ASSUME NEW T \in SUBSET Times
      PROVE  /\ Passed(undelayed'[a], T) = Passed(undelayed[a], T) + IF now \in T THEN d ELSE 0
             /\ Passed(undelayed[a], T) \in Nat
  <2>1. Passed(undelayed'[a], T) = Passed(undelayed[a], T) + IF now \in T THEN d ELSE 0
    BY <1>2, PassedAfterUpdate, ZenonT(60)
  <2>2. Passed(undelayed[a], T) \in Nat
    BY <1>2, PassedIsNat, Zenon
  <2>3. QED
    BY <2>1, <2>2
<1>6. /\ totalAmountInCurrentPeriod'[a] = NewTotal(a, n)
      /\ lastResetTimestamp'[a] = IF PeriodOver(a) THEN now ELSE R
  BY <1>2 DEF UpdatePeriodLimit, StrategyTypeOK
<1>7. CASE ~PeriodOver(a)
  <2>1. /\ now < R + P
        /\ NewTotal(a, n) = total + n
        /\ totalAmountInCurrentPeriod'[a] = total + n
        /\ lastResetTimestamp'[a] = R
    BY <1>1, <1>6, <1>7 DEF PeriodOver, NewTotal
  <2>2. now \in From(R) /\ From(R) \in SUBSET Times
    BY <1>1, <1>4 DEF From
  <2>3. Passed(undelayed'[a], From(R)) = Passed(undelayed[a], From(R)) + d /\ Passed(undelayed[a], From(R)) \in Nat
    BY <1>5, <2>2
  <2>4. Passed(undelayed'[a], From(R)) <= L /\ Passed(undelayed'[a], From(R)) <= total + n
    BY <1>1, <1>3, <2>1, <2>3
  <2>5. ASSUME NEW s \in Times, s > R - P PROVE Passed(undelayed'[a], Between(s, R)) <= L
    <3>1. now \notin Between(s, R) /\ Between(s, R) \in SUBSET Times
      BY <1>1 DEF Between
    <3>2. Passed(undelayed'[a], Between(s, R)) = Passed(undelayed[a], Between(s, R)) + 0 /\ Passed(undelayed[a], Between(s, R)) \in Nat
      BY <1>5, <3>1
    <3>3. QED
      BY <1>3, <2>5, <3>2
  <2>6. \A t \in Times : t >= R + P => undelayed'[a][t] = 0
    BY <1>1, <1>3, <1>4, <2>1
  <2>7. QED
    BY <2>1, <2>4, <2>5, <2>6 DEF PeriodInv, From, Between, Passed, Times
<1>8. CASE PeriodOver(a)
  <2>1. /\ now >= R + P
        /\ NewTotal(a, n) = n
        /\ totalAmountInCurrentPeriod'[a] = n
        /\ lastResetTimestamp'[a] = now
    BY <1>1, <1>6, <1>8 DEF PeriodOver, NewTotal
  <2>2. now \in From(now) /\ From(now) \in SUBSET Times
    BY <1>1, <1>4 DEF From
  <2>3. Passed(undelayed[a], From(now)) = 0
    <3>1. ASSUME NEW t \in From(now) PROVE undelayed[a][t] = 0
      <4>1. t \in Times /\ t \in Nat /\ t >= now
        BY <1>4 DEF From
      <4>2. t >= R + P
        BY <1>1, <2>1, <4>1
      <4>3. QED
        BY <1>3, <4>1, <4>2
    <3>2. QED
      BY <1>2, <2>2, <3>1, PassedIsNat
  <2>4. Passed(undelayed'[a], From(now)) = d
    BY <1>5, <2>2, <2>3
  <2>5. d <= L /\ d <= n
    BY <1>1, <2>1
  <2>6. ASSUME NEW s \in Times, s > now - P PROVE Passed(undelayed'[a], Between(s, now)) <= L
    <3>1. now \notin Between(s, now) /\ Between(s, now) \in SUBSET Times
      BY <1>1 DEF Between
    <3>2. Between(s, now) \in SUBSET From(R) /\ From(R) \in SUBSET Times
      <4>1. s > R
        BY <1>1, <1>4, <2>1, <2>6
      <4>2. \A t \in Times : t >= s => t >= R
        BY <1>1, <1>4, <4>1
      <4>3. Between(s, now) \in SUBSET From(R)
        BY <4>2 DEF Between, From
      <4>4. From(R) \in SUBSET Times
        BY DEF From
      <4>. QED
        BY <4>3, <4>4
    <3>3. Passed(undelayed[a], Between(s, now)) <= Passed(undelayed[a], From(R)) /\ Passed(undelayed[a], From(R)) \in Nat
      BY <1>2, <3>2, PassedIsNat
    <3>4. Passed(undelayed'[a], Between(s, now)) = Passed(undelayed[a], Between(s, now)) + 0
          /\ Passed(undelayed[a], Between(s, now)) \in Nat
      BY <1>5, <3>1
    <3>5. QED
      BY <1>1, <1>3, <3>3, <3>4
  <2>7. \A t \in Times : t >= now + P => undelayed'[a][t] = 0
    BY <1>1, <1>3, <1>4, <2>1
  <2>8. QED
    BY <2>1, <2>4, <2>5, <2>6, <2>7 DEF PeriodInv, From, Between, Passed, Times
<1>9. QED
  BY <1>7, <1>8

\* A window that reaches into the running period has at most the limit of it
\* and the limit before it; an earlier one does not change.
LEMMA UpdateKeepsWindow ==
    ASSUME StrategyAssumption, LimitInv, StrategyTypeOK', now' = now,
           NEW a \in Assets, Strategy[a].period > 0, PeriodInv(a)', lastResetTimestamp'[a] <= now,
           NEW d \in Nat, undelayed' \in [Assets -> [Times -> Nat]],
           \A t \in Times : undelayed'[a][t] = undelayed[a][t] + IF t = now THEN d ELSE 0,
           NEW s \in Times
    PROVE  Passed(undelayed'[a], Window(a, s)) <= 2 * Strategy[a].poolPeriodLimit
<1> DEFINE R == lastResetTimestamp'[a]
           P == Strategy[a].period
           L == Strategy[a].poolPeriodLimit
           W == Window(a, s)
<1>1. P \in Nat \ {0} /\ L \in Nat /\ now \in Nat /\ R \in Nat /\ Times \subseteq Nat
  <2>1. P \in Nat \ {0} /\ L \in Nat /\ now \in Nat
    BY StrategyNumbers DEF LimitInv
  <2>2. R \in Nat
    BY DEF StrategyTypeOK
  <2>3. QED
    BY <2>1, <2>2, TimesAreNat
<1>2. W \in SUBSET Times /\ Window(a, s)' = W
  BY DEF Window, Times
<1>3. CASE s <= R - P
  <2>1. now \notin W
    BY <1>1, <1>3 DEF Window
  <2>2. Passed(undelayed'[a], W) = Passed(undelayed[a], W) + 0
    BY <1>2, <2>1, PassedAfterUpdate DEF LimitInv
  <2>3. Passed(undelayed[a], W) \in Nat
    BY <1>2, PassedIsNat DEF LimitInv
  <2>4. Passed(undelayed[a], W) <= 2 * L
    BY DEF LimitInv, WindowLimit, Window, Passed
  <2>5. QED
    BY <2>2, <2>3, <2>4
<1>4. CASE s > R - P
  <2> DEFINE early == {t \in W : t < R}
             late == W \ early
  <2>1. /\ early \in SUBSET W /\ early \in SUBSET Between(s, R) /\ late \in SUBSET From(R)
        /\ Between(s, R) \in SUBSET Times /\ From(R) \in SUBSET Times
    <3>1. \A t \in W : t \in Times /\ t \in Nat /\ t >= s
      BY <1>1 DEF Window
    <3>2. early \in SUBSET W /\ early \in SUBSET Between(s, R)
      BY <3>1 DEF Between
    <3>3. late \in SUBSET From(R)
      BY <1>1, <3>1 DEF From
    <3>4. QED
      BY <3>2, <3>3 DEF Between, From
  <2>2. Passed(undelayed'[a], From(R)) <= L /\ Passed(undelayed'[a], Between(s, R)) <= L
    BY <1>4 DEF PeriodInv, From, Between, Times, Passed
  <2>3. ASSUME NEW T \in SUBSET Times, NEW U \in SUBSET T
        PROVE  Passed(undelayed'[a], T) \in Nat /\ Passed(undelayed'[a], U) \in Nat /\ Passed(undelayed'[a], U) <= Passed(undelayed'[a], T)
    <3>1. \A t \in T : undelayed'[a][t] \in Nat
      OBVIOUS
    <3>2. IsFiniteSet(T) /\ IsFiniteSet(U) /\ U \subseteq T
      BY TimesAreFinite
    <3>3. QED
      BY <3>1, <3>2, SumNat, SumOfPart DEF Passed
  <2>4. Passed(undelayed'[a], W) = Passed(undelayed'[a], early) + Passed(undelayed'[a], late)
    <3>1. \A t \in W : undelayed'[a][t] \in Int
      BY <1>2
    <3>2. IsFiniteSet(W)
      BY <1>2, TimesAreFinite
    <3>3. QED
      BY <2>1, <3>1, <3>2, SumSplit DEF Passed
  <2> HIDE DEF early, late
  <2>5. /\ Passed(undelayed'[a], early) \in Nat /\ Passed(undelayed'[a], late) \in Nat
        /\ Passed(undelayed'[a], Between(s, R)) \in Nat /\ Passed(undelayed'[a], From(R)) \in Nat
        /\ Passed(undelayed'[a], early) <= Passed(undelayed'[a], Between(s, R)) /\ Passed(undelayed'[a], late) <= Passed(undelayed'[a], From(R))
    BY <2>1, <2>3
  <2>6. Passed(undelayed'[a], early) + Passed(undelayed'[a], late) <= L + L
    BY <1>1, <2>2, <2>5
  <2>7. QED
    BY <1>1, <1>2, <2>4, <2>6 DEF Passed
<1>5. QED
  BY <1>1, <1>3, <1>4

\* What is noted, by the release time of the new agreement, is at most the amount,
\* and nothing when the strategy adds the extra delay: it is in the release time of
\* whoever is not listed.
LEMMA NotedWithinLimit ==
    ASSUME TimeLockAssumption, StrategyAssumption, LockInv,
           StrategyTypeOK, undelayed \in [Assets -> [Times -> Nat]],
           NEW b \in Assets, NEW n \in Nat, NEW m, NEW T, NEW u,
           CreateAgreement(b, m, T, u, ReleaseTime(b, n)), NoteUndelayed(b, n, u)
    PROVE  \E d \in 0 .. n :
              /\ d > 0 => NewTotal(b, n) <= Strategy[b].poolPeriodLimit
              /\ undelayed' = [undelayed EXCEPT ![b] = [undelayed[b] EXCEPT ![now] = undelayed[b][now] + d]]
<1>1. now \in Times /\ undelayed[b] \in [Times -> Nat] /\ undelayed[b][now] \in Nat
  BY DEF LockInv, LockTypes
<1>2. CASE undelayed' = undelayed
  <2>1. undelayed[b] = [undelayed[b] EXCEPT ![now] = undelayed[b][now] + 0]
    BY <1>1
  <2>2. undelayed' = [undelayed EXCEPT ![b] = [undelayed[b] EXCEPT ![now] = undelayed[b][now] + 0]]
    BY <1>2, <2>1
  <2>3. 0 \in 0 .. n /\ ~(0 > 0)
    OBVIOUS
  <2>4. QED
    BY <2>2, <2>3, Zenon
<1>3. CASE undelayed' # undelayed
  <2> DEFINE extraWait == agreements'[agreementCount].releaseTime - (now + WaitTime(b, n))
  <2>1. /\ u \notin whiteList
        /\ ~(extraWait >= Strategy[b].poolPeriodWaitTime)
        /\ undelayed' = [undelayed EXCEPT ![b] = [undelayed[b] EXCEPT ![now] = undelayed[b][now] + n]]
    BY <1>3 DEF NoteUndelayed
  <2>2. agreements'[agreementCount].releaseTime = ReleaseTime(b, n)
    BY <2>1 DEF CreateAgreement, LockInv, LockTypes
  <2>3. now \in Nat /\ WaitTime(b, n) \in Nat /\ Strategy[b].poolPeriodWaitTime \in Nat
    BY <1>1 DEF WaitTime, StrategyAssumption, StrategyData, Times
  <2>4. CASE NewTotal(b, n) > Strategy[b].poolPeriodLimit
    <3>1. ReleaseTime(b, n) = now + Strategy[b].poolPeriodWaitTime + WaitTime(b, n)
      BY <2>4 DEF ReleaseTime, ExtraDelay
    <3>2. QED
      BY <2>1, <2>2, <2>3, <3>1
  <2>5. CASE ~(NewTotal(b, n) > Strategy[b].poolPeriodLimit)
    <3>1. NewTotal(b, n) \in Int /\ Strategy[b].poolPeriodLimit \in Int
      BY <1>1 DEF NewTotal, StrategyTypeOK, StrategyAssumption, StrategyData
    <3>2. n \in 0 .. n /\ NewTotal(b, n) <= Strategy[b].poolPeriodLimit
      BY <2>5, <3>1
    <3>3. QED
      BY <2>1, <3>2, Zenon
  <2>6. QED
    BY <2>4, <2>5
<1>4. QED
  BY <1>2, <1>3

\* Counting an amount and noting a part of it that the limit lets pass keeps the
\* limit, of its asset and of the others.
LEMMA UpdateKeepsLimit ==
    ASSUME StrategyAssumption, LimitInv, NEW b \in Assets, NEW n \in Nat,
           UpdatePeriodLimit(b, n), now' = now,
           NEW d \in 0 .. n, d > 0 => NewTotal(b, n) <= Strategy[b].poolPeriodLimit,
           undelayed' = [undelayed EXCEPT ![b] = [undelayed[b] EXCEPT ![now] = undelayed[b][now] + d]]
    PROVE  LimitInv'
<1>1. StrategyTypeOK'
  BY UpdateKeepsTypes DEF LimitInv
<1>2. now \in Times /\ now \in Nat /\ Times \subseteq Nat /\ d \in Nat /\ d <= n
  BY TimesAreNat DEF LimitInv, StrategyTypeOK
<1>3. \A a \in Assets : lastResetTimestamp'[a] = lastResetTimestamp[a] \/ lastResetTimestamp'[a] = now
  BY DEF LimitInv, StrategyTypeOK, UpdatePeriodLimit
<1>4. \A a \in Assets : lastResetTimestamp'[a] <= now
  BY <1>2, <1>3 DEF LimitInv
<1>5. \A t \in Times : undelayed'[b][t] = undelayed[b][t] + IF t = now THEN d ELSE 0
  BY <1>2 DEF LimitInv
<1>6. undelayed' \in [Assets -> [Times -> Nat]]
  <2>1. [undelayed[b] EXCEPT ![now] = undelayed[b][now] + d] \in [Times -> Nat]
    BY <1>2 DEF LimitInv
  <2>2. QED
    BY <2>1 DEF LimitInv
<1>7. \A a \in Assets \ {b} : /\ undelayed'[a] = undelayed[a]
                              /\ lastResetTimestamp'[a] = lastResetTimestamp[a]
                              /\ totalAmountInCurrentPeriod'[a] = totalAmountInCurrentPeriod[a]
  BY DEF LimitInv, StrategyTypeOK, UpdatePeriodLimit
<1>8. ASSUME NEW a \in Assets, Strategy[a].period > 0 PROVE PeriodInv(a)'
  <2>1. CASE a = b
    BY <1>2, <1>5, <1>6, <1>8, <2>1, UpdateKeepsPeriod
  <2>2. CASE a # b
    BY <1>7, <1>8, <2>2 DEF LimitInv, PeriodInv, From, Between, Times
  <2>3. QED
    BY <2>1, <2>2
<1>9. ASSUME NEW a \in Assets, NEW s \in Times
      PROVE  Passed(undelayed'[a], Window(a, s)) <= 2 * Strategy[a].poolPeriodLimit
  <2>1. CASE a # b
    BY <1>7, <2>1 DEF LimitInv, WindowLimit, Window, Passed
  <2>2. CASE a = b /\ Strategy[a].period > 0
    BY <1>1, <1>2, <1>4, <1>5, <1>6, <1>8, <2>2, UpdateKeepsWindow
  <2>3. CASE ~(Strategy[a].period > 0)
    <3>1. Window(a, s) = {} /\ Strategy[a].poolPeriodLimit \in Nat
      <4>1. Strategy[a].period = 0 /\ Strategy[a].poolPeriodLimit \in Nat
        BY <2>3, StrategyNumbers DEF LimitInv
      <4>2. \A t \in Times : ~(t \in s .. s + Strategy[a].period - 1)
        BY <1>2, <4>1
      <4>3. QED
        BY <4>1, <4>2 DEF Window
    <3>2. Passed(undelayed'[a], {}) = 0
      BY SumEmpty DEF Passed
    <3>3. QED
      BY <3>1, <3>2
  <2>4. QED
    BY <2>1, <2>2, <2>3
<1>10. WindowLimit'
  BY <1>9 DEF WindowLimit, Window, Passed, Times
<1>11. QED
  BY <1>1, <1>4, <1>6, <1>8, <1>10 DEF LimitInv, Times

\* Time passes, or nothing is withdrawn: the limit is kept.
LEMMA RestKeepsLimit ==
    ASSUME StrategyAssumption, LimitInv, UNCHANGED <<strategyVars, undelayed>>,
           now' \in Times, now' >= now
    PROVE  LimitInv'
<1>1. /\ undelayed' = undelayed /\ lastResetTimestamp' = lastResetTimestamp
      /\ totalAmountInCurrentPeriod' = totalAmountInCurrentPeriod
  BY DEF strategyVars
<1>2. StrategyTypeOK'
  BY <1>1 DEF LimitInv, StrategyTypeOK, Times
<1>3. \A a \in Assets : PeriodInv(a) => PeriodInv(a)'
  BY <1>1 DEF PeriodInv, From, Between, Times
<1>4. \A a \in Assets : lastResetTimestamp'[a] <= now'
  <2>1. \A a \in Assets : lastResetTimestamp[a] \in Nat /\ lastResetTimestamp[a] <= now
    BY DEF LimitInv, StrategyTypeOK
  <2>2. now \in Nat /\ now' \in Nat
    BY TimesAreNat DEF LimitInv, StrategyTypeOK
  <2>3. QED
    BY <1>1, <2>1, <2>2
<1>5. WindowLimit'
  BY <1>1 DEF LimitInv, WindowLimit, Times
<1>6. undelayed' \in [Assets -> [Times' -> Nat]]
  BY <1>1 DEF LimitInv, Times
<1>7. QED
  BY <1>2, <1>3, <1>4, <1>5, <1>6 DEF LimitInv

\* Nothing has passed at the start.
LEMMA LimitInvInit == TimeLockAssumption /\ StrategyAssumption /\ TimeLockInit => LimitInv
<1> SUFFICES ASSUME TimeLockAssumption, StrategyAssumption, TimeLockInit PROVE LimitInv
  OBVIOUS
<1>1. StrategyTypeOK /\ undelayed \in [Assets -> [Times -> Nat]]
  BY CoinInvInit DEF CoinInv, TimeLockInit
<1>2. \A a \in Assets : /\ undelayed[a] = [s \in Times |-> 0] /\ lastResetTimestamp[a] = 0
                        /\ totalAmountInCurrentPeriod[a] = 0
  BY DEF TimeLockInit, StrategyInit
<1>3. ASSUME NEW a \in Assets, NEW T \in SUBSET Times PROVE Passed(undelayed[a], T) = 0
  <2>1. \A t \in T : undelayed[a][t] = 0
    BY <1>2
  <2>2. QED
    BY <1>1, <2>1, PassedIsNat
<1>4. \A r, s : From(r) \in SUBSET Times /\ Between(s, r) \in SUBSET Times
  BY DEF From, Between
<1>5. ASSUME NEW a \in Assets PROVE PeriodInv(a)
  <2>1. Strategy[a].poolPeriodLimit \in Nat
    BY <1>1, StrategyNumbers
  <2>2. QED
    BY <1>2, <1>3, <1>4, <2>1, SMTT(30) DEF PeriodInv
<1>6. \A a \in Assets : lastResetTimestamp[a] <= now
  BY <1>1, <1>2, StrategyNumbers
<1>7. WindowLimit
  <2>1. ASSUME NEW a \in Assets, NEW s \in Times
        PROVE  Passed(undelayed[a], Window(a, s)) <= 2 * Strategy[a].poolPeriodLimit
    <3>1. Window(a, s) \in SUBSET Times
      BY DEF Window
    <3>2. Strategy[a].poolPeriodLimit \in Nat
      BY <1>1, StrategyNumbers
    <3>3. Passed(undelayed[a], Window(a, s)) = 0
      BY <1>3, <3>1
    <3>4. QED
      BY <3>2, <3>3
  <2>2. QED
    BY <2>1 DEF WindowLimit, Window, Passed
<1>8. QED
  BY <1>1, <1>5, <1>6, <1>7 DEF LimitInv

\* Every step of the TimeLock keeps LimitInv.
LEMMA LimitInvNext ==
    ASSUME TimeLockAssumption, StrategyAssumption, LockInv, LimitInv, [TimeLockNext]_timeLockVars
    PROVE  LimitInv'
<1>1. now \in Times /\ now \in Nat /\ Times \subseteq Nat
  BY TimesAreNat DEF LimitInv, StrategyTypeOK
<1>2. ASSUME NEW u \in Users, NEW c \in Coins, NEW n \in Amounts, ReleaseCoins(u, c, n)
      PROVE  LimitInv'
  <2>1. c \in Assets /\ n \in Nat
    BY DEF TimeLockAssumption
  <2>2. /\ CreateAgreement(c, n, {}, u, ReleaseTime(c, n)) /\ NoteUndelayed(c, n, u)
        /\ UpdatePeriodLimit(c, n) /\ now' = now
    BY <1>2 DEF ReleaseCoins
  <2>3. PICK d \in 0 .. n :
          /\ d > 0 => NewTotal(c, n) <= Strategy[c].poolPeriodLimit
          /\ undelayed' = [undelayed EXCEPT ![c] = [undelayed[c] EXCEPT ![now] = undelayed[c][now] + d]]
    BY <2>1, <2>2, NotedWithinLimit DEF LimitInv
  <2>4. QED
    BY <2>1, <2>2, <2>3, UpdateKeepsLimit
<1>3. ASSUME NEW u \in Users, NEW T \in SUBSET NFTs, NEW a \in Assets \ Coins, ReleaseNFTs(u, a, T)
      PROVE  LimitInv'
  <2>1. Cardinality(T) \in Nat
    BY FS_Subset, FS_CardinalityType DEF TimeLockAssumption
  <2>2. /\ CreateAgreement(a, 0, T, u, ReleaseTime(a, Cardinality(T)))
        /\ NoteUndelayed(a, Cardinality(T), u)
        /\ UpdatePeriodLimit(a, Cardinality(T)) /\ now' = now
    BY <1>3 DEF ReleaseNFTs
  <2>3. PICK d \in 0 .. Cardinality(T) :
          /\ d > 0 => NewTotal(a, Cardinality(T)) <= Strategy[a].poolPeriodLimit
          /\ undelayed' = [undelayed EXCEPT ![a] = [undelayed[a] EXCEPT ![now] = undelayed[a][now] + d]]
    BY <2>1, <2>2, NotedWithinLimit DEF LimitInv
  <2>4. QED
    BY <2>1, <2>2, <2>3, UpdateKeepsLimit
<1>4. ASSUME NEW u \in Users, NEW I \in SUBSET Ids,
             Claim(u, I) \/ ClaimMoonBirds(u, I) \/ ClaimETH(u, I) \/ ClaimPunk(u, I)
      PROVE  LimitInv'
  BY <1>1, <1>4, RestKeepsLimit DEF Claim, ClaimMoonBirds, ClaimETH, ClaimPunk, PayOut
<1>5. ASSUME NEW u \in Users, NEW t \in NFTs, SupplyNFT(u, t) PROVE LimitInv'
  BY <1>1, <1>5, RestKeepsLimit DEF SupplyNFT
<1>6. UserStep => LimitInv'
  BY <1>2, <1>3, <1>4, <1>5 DEF UserStep
<1>7. AdminStep => LimitInv'
  BY <1>1, RestKeepsLimit DEF AdminStep, FreezeAgreement, UnfreezeAgreement, SetFrozen,
     FreezeAllAgreements, UnfreezeAllAgreements, SetAllFrozen, UpdateTimeLockWhiteList
<1>8. ASSUME Clock PROVE LimitInv'
  <2>1. now' = now + 1 /\ now < MaxTime /\ UNCHANGED <<strategyVars, undelayed>>
    BY <1>8 DEF Clock, Tick, lockVars
  <2>2. now' \in Times /\ now' >= now
    BY <1>1, <2>1 DEF Times, StrategyAssumption
  <2>3. QED
    BY <2>1, <2>2, RestKeepsLimit
<1>9. UNCHANGED timeLockVars => LimitInv'
  BY <1>1, RestKeepsLimit DEF timeLockVars, lockVars
<1>10. QED
  BY <1>6, <1>7, <1>8, <1>9 DEF TimeLockNext

\* Whatever the limits, the periods, the withdrawals and the listings, beneficiaries who
\* are not listed take out, in no stretch of time as long as a period, more than twice the
\* limit without the extra delay, by the release times that their agreements have.
THEOREM WindowLimitHolds ==
    ASSUME TimeLockAssumption, StrategyAssumption
    PROVE  TimeLockSpec => []WindowLimit
<1>1. TimeLockInit => LockInv /\ LimitInv
  BY LockInvInit, LimitInvInit
<1>2. LockInv /\ LimitInv /\ [TimeLockNext]_timeLockVars => LockInv' /\ LimitInv'
  BY LockInvNext, LimitInvNext
<1>3. LimitInv => WindowLimit
  BY DEF LimitInv
<1>4. QED
  BY <1>1, <1>2, <1>3, PTL DEF TimeLockSpec

\* The types of all the variables: no claim takes more than the TimeLock holds.
THEOREM TimeLockTypeCorrect ==
    ASSUME TimeLockAssumption, StrategyAssumption
    PROVE  TimeLockSpec => []TimeLockTypeOK
<1>1. TimeLockInit => CoinInv /\ LimitInv
  BY CoinInvInit, LimitInvInit
<1>2. CoinInv /\ LimitInv /\ [TimeLockNext]_timeLockVars => CoinInv' /\ LimitInv'
  BY CoinInvNext, LimitInvNext DEF CoinInv
<1>3. CoinInv /\ LimitInv => TimeLockTypeOK
  BY DEF CoinInv, LimitInv, LockInv, LockTypes, Agreements, TimeLockTypeOK
<1>4. QED
  BY <1>1, <1>2, <1>3, PTL DEF TimeLockSpec

=============================================================================
