-------------------------- MODULE DeploymentProofs --------------------------
(***************************************************************************)
(* Deployment, for any networks whose plans PlansAssumption describes, and *)
(* any number of faults: a task that ends has left out nothing but what a  *)
(* continued run may skip, and after no fault nothing at all.              *)
(***************************************************************************)
EXTENDS Deployment, TLAPS

Ops == Plans[network].ops

-----------------------------------------------------------------------------
(* The invariant.                                                          *)

\* Where a task can be.
PlaceOK ==
    /\ network \in Networks
    /\ faults \in Nat /\ pos \in Nat \ {0}
    /\ pc \in {"run", "done", "aborted", "crashed"}
    /\ pc # "done" => pos \in DOMAIN Ops
    /\ pc = "done" => pos > Len(Ops)
    /\ pc = "crashed" => faults > 0

\* What is required is done as far as the task has come.
DoneSoFar == \A q \in Required(network) : q < pos => Ops[q].id \in done

\* A record stands for what it guards.
GuardsHold ==
    \A p \in DOMAIN Ops : Ops[p].kind = "unless" /\ Ops[p].id \in done =>
        \A i \in SkippedBy(Ops, p) \cap Required(network) : Ops[i].id \in done

\* Without a fault the database holds what the operations so far have established.
FirstRunSoFar ==
    faults = 0 /\ pos > 1 =>
        /\ \A f \in done : Before(Ops, pos, f)
        /\ \A q \in DOMAIN Ops : q < pos /\ Lasting(Ops[q]) =>
              Ops[q].id \in {"addTimeRange", ""} \/ Ops[q].id \in done

DeployInv == PlaceOK /\ DoneSoFar /\ GuardsHold /\ FirstRunSoFar

-----------------------------------------------------------------------------
(* What PlansAssumption says of the plan of the network.                   *)

\* The plan of the network is one that the assumption describes.
LEMMA PlanHere ==
    ASSUME PlaceOK
    PROVE  /\ Plan = Plans[network] /\ Plan.ops = Ops
           /\ InOrder(Plan) /\ FirstRunFits(Plan) /\ RequiredStays(Plan, Required(network))
           /\ Ops \in Seq(Operation) /\ Len(Ops) \in Nat \ {0} /\ DOMAIN Ops = 1 .. Len(Ops)
           /\ Required(network) \subseteq DOMAIN Ops
           /\ \A q \in Required(network) : Lasting(Ops[q])
  <1>1. Plan = Plans[network] /\ Plan.ops = Ops
    BY DEF Plan, Ops
  <1>2. InOrder(Plan) /\ FirstRunFits(Plan) /\ RequiredStays(Plan, Required(network))
    BY <1>1, PlansAssumption DEF PlaceOK
  <1>3. Ops \in Seq(Operation) \ {<< >>}
    BY <1>1, <1>2 DEF InOrder
  <1>4. Required(network) \subseteq DOMAIN Ops /\ \A q \in Required(network) : Lasting(Ops[q])
    BY DEF Required, Ops
  <1>5. Len(Ops) \in Nat \ {0} /\ DOMAIN Ops = 1 .. Len(Ops)
    BY <1>3
  <1> QED
    BY <1>1, <1>2, <1>3, <1>4, <1>5

\* The operation that is next.
LEMMA OperationHere ==
    ASSUME PlaceOK, pc = "run"
    PROVE  /\ pos \in DOMAIN Ops /\ Ops[pos] \in Operation
           /\ Ops[pos].n \in Nat
           /\ Ops[pos].kind = "wipe" <=> pos = 1
  <1>1. pos \in DOMAIN Ops
    BY DEF PlaceOK
  <1>2. Ops[pos] \in Operation
    BY <1>1, PlanHere
  <1>3. Ops[pos].n \in Nat
    BY <1>2 DEF Operation
  <1>4. Ops[pos].kind = "wipe" <=> pos = 1
    BY <1>1, PlanHere DEF InOrder
  <1> QED
    BY <1>1, <1>2, <1>3, <1>4

\* A step within a run leaves the task in a place it can be.
LEMMA GotoPlace ==
    ASSUME PlaceOK, NEW p \in Nat \ {0}, Goto(Plan, p), network' = network, faults' \in Nat
    PROVE  PlaceOK' /\ pos' = p
  <1>1. pos' = p /\ pc' = IF p > Len(Ops) THEN "done" ELSE "run"
    BY PlanHere DEF Goto
  <1>2. Ops' = Ops /\ DOMAIN Ops = 1 .. Len(Ops) /\ Len(Ops) \in Nat
    BY PlanHere DEF Ops
  <1>3. p \in DOMAIN Ops \/ p > Len(Ops)
    BY <1>2
  <1> HIDE DEF Ops
  <1> QED
    BY <1>1, <1>2, <1>3 DEF PlaceOK

-----------------------------------------------------------------------------
(* What the operations do to the database.                                 *)

\* The operation at pos establishes its fact and loses at most what it may.
Establishes ==
    /\ Lasting(Ops[pos])
    /\ \E lost \in SUBSET LostAt(Plan, pos) : done' = (done \ lost) \union {Ops[pos].id}

\* An operation that establishes its fact, and then goes on, keeps the invariant.
LEMMA EstablishKeepsInv ==
    ASSUME DeployInv, pc = "run", Advance(Plan), Establishes, network' = network, faults' = faults
    PROVE  DeployInv'
  <1> DEFINE R == Required(network)
             id == Ops[pos].id
  <1>1. PlaceOK
    BY DEF DeployInv
  <1>2. PlaceOK' /\ pos' = pos + 1
    BY <1>1, GotoPlace DEF Advance, PlaceOK
  <1>3. Ops' = Ops /\ Required(network)' = R
    BY DEF Ops
  <1>4. PICK lost \in SUBSET LostAt(Plan, pos) : done' = (done \ lost) \union {id}
    BY DEF Establishes
  <1>5. pos \in DOMAIN Ops /\ Ops[pos].kind # "wipe" /\ pos > 1 /\ pos \in Nat
    BY <1>1, OperationHere DEF Establishes, Lasting, PlaceOK
  <1>6. RequiredStays(Plan, R) /\ FirstRunFits(Plan) /\ R \subseteq DOMAIN Ops /\ Plan.ops = Ops
    BY <1>1, PlanHere
  <1>7. DOMAIN Ops \subseteq Nat
    BY <1>1, PlanHere
  <1> HIDE DEF R, id
  <1>8. \A q \in R : q <= pos => Ops[q].id \in done'
    <2> SUFFICES ASSUME NEW q \in R, q <= pos PROVE Ops[q].id \in done'
      OBVIOUS
    <2>1. CASE q = pos
      BY <1>4, <2>1 DEF id
    <2>2. CASE q < pos
      <3>1. Ops[q].id \in done
        BY <2>2 DEF DeployInv, DoneSoFar, R
      <3>2. Ops[q].id \notin LostAt(Plan, pos)
        BY <1>5, <1>6, <2>2 DEF RequiredStays
      <3> QED
        BY <1>4, <3>1, <3>2
    <2> QED
      BY <1>5, <1>6, <1>7, <2>1, <2>2
  <1>9. DoneSoFar'
    BY <1>2, <1>3, <1>5, <1>6, <1>7, <1>8 DEF DoneSoFar
  <1>10. GuardsHold'
    <2> SUFFICES ASSUME NEW p \in DOMAIN Ops, Ops[p].kind = "unless", Ops[p].id \in done',
                        NEW i \in SkippedBy(Ops, p) \cap R
                 PROVE  Ops[i].id \in done'
      BY <1>3 DEF GuardsHold
    <2>1. CASE Ops[p].id \in done
      <3>1. Ops[i].id \in done
        BY <2>1 DEF DeployInv, GuardsHold, R
      <3>2. Ops[i].id \notin LostAt(Plan, pos)
        BY <1>5, <1>6 DEF RequiredStays
      <3> QED
        BY <1>4, <3>1, <3>2
    <2>2. CASE Ops[p].id = id
      <3>1. \/ Ops[i].id = Ops[p].id
            \/ \E k \in R : k <= pos /\ Ops[k].id = Ops[i].id
        BY <1>5, <1>6, <2>2 DEF RequiredStays, Establishes, id
      <3> QED
        BY <1>8, <3>1
    <2> QED
      BY <1>4, <2>1, <2>2
  <1>11. FirstRunSoFar'
    <2> SUFFICES ASSUME faults = 0
                 PROVE  /\ \A f \in done' : Before(Ops, pos + 1, f)
                        /\ \A q \in DOMAIN Ops : q < pos + 1 /\ Lasting(Ops[q]) =>
                              Ops[q].id \in {"addTimeRange", ""} \/ Ops[q].id \in done'
      BY <1>2, <1>3 DEF FirstRunSoFar
    <2>1. /\ \A f \in done : Before(Ops, pos, f)
          /\ \A q \in DOMAIN Ops : q < pos /\ Lasting(Ops[q]) =>
                Ops[q].id \in {"addTimeRange", ""} \/ Ops[q].id \in done
      BY <1>5 DEF DeployInv, FirstRunSoFar
    <2>2. ASSUME NEW f \in done' PROVE Before(Ops, pos + 1, f)
      <3>1. CASE f \in done
        <4>1. PICK k \in DOMAIN Ops : k < pos /\ Lasting(Ops[k]) /\ Ops[k].id = f
          BY <2>1, <3>1 DEF Before
        <4>2. k < pos + 1
          BY <1>5, <1>7, <4>1
        <4> QED
          BY <4>1, <4>2 DEF Before
      <3>2. CASE f = id
        <4>1. pos < pos + 1
          BY <1>5
        <4> QED
          BY <1>5, <3>2, <4>1 DEF Before, Establishes, id
      <3> QED
        BY <1>4, <2>2, <3>1, <3>2
    <2>3. ASSUME NEW q \in DOMAIN Ops, q < pos + 1, Lasting(Ops[q])
          PROVE  Ops[q].id \in {"addTimeRange", ""} \/ Ops[q].id \in done'
      <3>1. CASE q = pos
        BY <1>4, <3>1 DEF id
      <3>2. CASE q < pos
        <4>1. q \in 1 .. pos - 1
          BY <1>1, <1>5, <3>2, PlanHere
        <4>2. Ops[q].id \in {"addTimeRange", ""} \/ Ops[q].id \notin LostAt(Plan, pos)
          BY <1>5, <1>6, <2>3, <4>1 DEF FirstRunFits
        <4> QED
          BY <1>4, <2>1, <2>3, <3>2, <4>2
      <3>3. q \in Nat /\ pos \in Nat
        BY <1>5, <1>7
      <3>4. q = pos \/ q < pos
        BY <2>3, <3>3
      <3> QED
        BY <3>1, <3>2, <3>4
    <2> QED
      BY <2>2, <2>3
  <1> QED
    BY <1>2, <1>9, <1>10, <1>11 DEF DeployInv

\* A run that goes on, or goes back, to p without touching the database passes over nothing
\* that is required and missing, and without a fault over nothing that is missing.
PassesOver(p) ==
    /\ \A q \in Required(network) : q < p /\ q >= pos => Ops[q].id \in done
    /\ faults' = 0 => /\ faults = 0 /\ pos > 1 /\ p > pos
                      /\ \A q \in DOMAIN Ops : q < p /\ q >= pos /\ Lasting(Ops[q]) =>
                            Ops[q].id \in {"addTimeRange", ""} \/ Ops[q].id \in done

\* Such a move keeps the invariant.
LEMMA MoveKeepsInv ==
    ASSUME DeployInv, NEW p \in Nat \ {0}, Goto(Plan, p), PassesOver(p),
           network' = network, done' = done, faults' \in Nat
    PROVE  DeployInv'
  <1>1. PlaceOK
    BY DEF DeployInv
  <1>2. PlaceOK' /\ pos' = p
    BY <1>1, GotoPlace
  <1>3. Ops' = Ops /\ Required(network)' = Required(network)
    BY DEF Ops
  <1>4. DOMAIN Ops \subseteq Nat /\ Required(network) \subseteq Nat
    BY <1>1, PlanHere
  <1>5. pos \in Nat
    BY <1>1 DEF PlaceOK
  <1>6. \A q \in Nat : q < p => q < pos \/ q >= pos
    BY <1>5
  <1>7. DoneSoFar'
    <2>1. \A q \in Required(network) : q < p => Ops[q].id \in done
      BY <1>4, <1>6 DEF DeployInv, DoneSoFar, PassesOver
    <2> QED
      BY <1>2, <1>3, <2>1 DEF DoneSoFar
  <1>8. GuardsHold'
    BY <1>3 DEF DeployInv, GuardsHold
  <1>9. FirstRunSoFar'
    <2> SUFFICES ASSUME faults' = 0 PROVE FirstRunSoFar'
      BY DEF FirstRunSoFar
    <2>1. faults = 0 /\ pos > 1 /\ p > pos
      BY DEF PassesOver
    <2>2. \A f \in done : Before(Ops, p, f)
      <3>1. \A f \in done : Before(Ops, pos, f)
        BY <2>1 DEF DeployInv, FirstRunSoFar
      <3>2. \A k \in Nat : k < pos => k < p
        BY <1>5, <2>1
      <3> QED
        BY <1>4, <3>1, <3>2 DEF Before
    <2>3. \A q \in DOMAIN Ops : q < p /\ Lasting(Ops[q]) =>
              Ops[q].id \in {"addTimeRange", ""} \/ Ops[q].id \in done
      BY <1>4, <1>6, <2>1 DEF DeployInv, FirstRunSoFar, PassesOver
    <2> QED
      BY <1>2, <1>3, <2>2, <2>3 DEF FirstRunSoFar
  <1> QED
    BY <1>2, <1>7, <1>8, <1>9 DEF DeployInv

-----------------------------------------------------------------------------
(* The actions.                                                            *)

\* A contract that takes an id.
LEMMA SupersedeEstablishes ==
    ASSUME Supersede(Plan, Ops[pos].id), Ops[pos].kind \in {"new", "create", "register"},
           Plan.ops = Ops
    PROVE  Establishes
  <1> DEFINE id == Ops[pos].id
             lost == IF id \in done THEN {id} \union (Plan.under[id] \cap done) ELSE {}
  <1>1. done' = (done \ lost) \union {id}
    BY DEF Supersede, ReplaceBy
  <1>2. lost \ {id} \in SUBSET LostAt(Plan, pos)
    BY DEF LostAt
  <1>3. done' = (done \ (lost \ {id})) \union {id}
    BY <1>1
  <1> QED
    BY <1>2, <1>3 DEF Establishes, Lasting

\* A call or a record that replaces nothing.
LEMMA EstablishEstablishes ==
    ASSUME Establish(Ops[pos].id), Lasting(Ops[pos])
    PROVE  Establishes
  <1>1. done' = (done \ {}) \union {Ops[pos].id} /\ {} \in SUBSET LostAt(Plan, pos)
    BY DEF Establish
  <1> QED
    BY <1>1 DEF Establishes

\* A run that ends where it is keeps the invariant.
LEMMA AbortInv ==
    ASSUME DeployInv, pc = "run", pc' \in {"aborted", "crashed"}, pos' = pos, done' = done,
           network' = network, faults' \in Nat, faults' >= faults,
           pc' = "crashed" => faults' > 0
    PROVE  DeployInv'
  <1>1. Ops' = Ops /\ Required(network)' = Required(network)
    BY DEF Ops
  <1>2. PlaceOK'
    BY <1>1 DEF DeployInv, PlaceOK
  <1>3. DoneSoFar' /\ GuardsHold'
    BY <1>1 DEF DeployInv, DoneSoFar, GuardsHold
  <1>4. FirstRunSoFar'
    <2>1. faults' = 0 => faults = 0
      BY DEF DeployInv, PlaceOK
    <2> QED
      BY <1>1, <2>1 DEF DeployInv, FirstRunSoFar
  <1> QED
    BY <1>2, <1>3, <1>4 DEF DeployInv

\* What an operation passes over on its way from pos to p.
LEMMA PassedBy ==
    ASSUME PlaceOK, pc = "run", NEW q \in DOMAIN Ops, q >= pos, q < pos + 1 + Ops[pos].n
    PROVE  q = pos \/ q \in SkippedBy(Ops, pos)
  <1> DEFINE n == Ops[pos].n
  <1>1. q \in Nat /\ pos \in Nat /\ n \in Nat
    BY OperationHere, PlanHere DEF PlaceOK
  <1>2. q >= pos /\ q < pos + 1 + n
    OBVIOUS
  <1> HIDE DEF n
  <1>3. q = pos \/ q \in pos + 1 .. pos + n
    BY <1>1, <1>2
  <1> QED
    BY <1>3 DEF SkippedBy, n

\* The same, for an operation that does not skip.
LEMMA PassedOne ==
    ASSUME PlaceOK, NEW q \in DOMAIN Ops, q >= pos, q < pos + 1
    PROVE  q = pos
  <1>1. q \in Nat /\ pos \in Nat
    BY PlanHere DEF PlaceOK
  <1> QED
    BY <1>1

\* A deployment, or an incremental run that finds the contract and what belongs to it.
LEMMA DeployKeepsInv ==
    ASSUME DeployInv, Deploy(Plan, Ops[pos])
    PROVE  DeployInv'
  <1> DEFINE op == Ops[pos]
             R == Required(network)
  <1>1. /\ pc = "run" /\ op.kind = "new" /\ network' = network /\ faults' = faults
        /\ PlaceOK
    BY DEF Deploy, DeployInv
  <1>2. Plan.ops = Ops /\ RequiredStays(Plan, R) /\ FirstRunFits(Plan) /\ R \subseteq DOMAIN Ops
    BY <1>1, PlanHere
  <1>3. /\ pos \in DOMAIN Ops /\ op.n \in Nat /\ pos \in Nat /\ faults' \in Nat /\ pos > 1
    BY <1>1, OperationHere DEF PlaceOK
  <1>4. CASE incremental /\ op.id \in done
    <2>1. Goto(Plan, pos + 1 + op.n) /\ done' = done
      BY <1>4 DEF Deploy
    <2>2. SkippedBy(Ops, pos) \cap R = {}
      BY <1>1, <1>2, <1>3 DEF RequiredStays
    <2>3. pos + 1 + op.n \in Nat \ {0} /\ pos + 1 + op.n > pos
      BY <1>3
    <2>4. faults = 0 => SkippedBy(Ops, pos) = {}
      <3> SUFFICES ASSUME faults = 0 PROVE SkippedBy(Ops, pos) = {}
        OBVIOUS
      <3>1. Before(Ops, pos, op.id)
        BY <1>3, <1>4 DEF DeployInv, FirstRunSoFar
      <3>2. ~(op.n > 0)
        BY <1>1, <1>2, <1>3, <3>1 DEF FirstRunFits
      <3>3. op.n = 0
        BY <1>3, <3>2
      <3> QED
        BY <1>3, <3>3 DEF SkippedBy
    <2>5. PassesOver(pos + 1 + op.n)
      BY <1>1, <1>2, <1>3, <1>4, <2>2, <2>3, <2>4, PassedBy DEF PassesOver
    <2> QED
      BY <1>1, <1>3, <2>1, <2>3, <2>5, MoveKeepsInv
  <1>5. CASE ~(incremental /\ op.id \in done)
    <2>1. Advance(Plan) /\ Supersede(Plan, op.id)
      BY <1>5 DEF Deploy
    <2> QED
      BY <1>1, <1>2, <2>1, SupersedeEstablishes, EstablishKeepsInv
  <1> QED
    BY <1>4, <1>5

\* A record that takes its id, or is made once more.
LEMMA RecordKeepsInv ==
    ASSUME DeployInv, Record(Plan, Ops[pos])
    PROVE  DeployInv'
  <1>1. /\ pc = "run" /\ Ops[pos].kind \in {"create", "register", "put"} /\ Advance(Plan)
        /\ network' = network /\ faults' = faults
    BY DEF Record
  <1>2. Plan.ops = Ops /\ Lasting(Ops[pos])
    BY <1>1 DEF Plan, Ops, Lasting
  <1>3. Establishes
    <2>1. \/ Supersede(Plan, Ops[pos].id) /\ Ops[pos].kind \in {"create", "register"}
          \/ Establish(Ops[pos].id)
      BY DEF Record
    <2> QED
      BY <1>2, <2>1, SupersedeEstablishes, EstablishEstablishes
  <1> QED
    BY <1>1, <1>3, EstablishKeepsInv

\* A call that must succeed.
LEMMA CallKeepsInv ==
    ASSUME DeployInv, Call(Plan, Ops[pos])
    PROVE  DeployInv'
  <1>1. /\ pc = "run" /\ Lasting(Ops[pos]) /\ Advance(Plan) /\ Establish(Ops[pos].id)
        /\ network' = network /\ faults' = faults
    BY DEF Call, Lasting
  <1> QED
    BY <1>1, EstablishEstablishes, EstablishKeepsInv

\* A call whose failure is caught skips nothing that is required.
LEMMA CaughtPassesOver ==
    ASSUME DeployInv, pc = "run", Ops[pos].kind \in {"try", "keep"}
    PROVE  /\ pos + 1 + Ops[pos].n \in Nat \ {0}
           /\ \A q \in Required(network) : ~(q < pos + 1 + Ops[pos].n /\ q >= pos)
  <1>1. PlaceOK
    BY DEF DeployInv
  <1>2. RequiredStays(Plan, Required(network)) /\ Required(network) \subseteq DOMAIN Ops
    BY <1>1, PlanHere
  <1>3. /\ pos \in DOMAIN Ops /\ pos \in Nat /\ Ops[pos].n \in Nat
    BY <1>1, OperationHere DEF PlaceOK
  <1>4. pos \notin Required(network) /\ SkippedBy(Ops, pos) \cap Required(network) = {}
    BY <1>1, <1>2, <1>3, PlanHere DEF RequiredStays
  <1> QED
    BY <1>1, <1>2, <1>3, <1>4, PassedBy

\* A call whose failure is caught fails only after a fault, so a first run makes it.
LEMMA CallCaughtKeepsInv ==
    ASSUME DeployInv, CallCaught(Plan, Ops[pos])
    PROVE  DeployInv'
  <1> DEFINE op == Ops[pos]
  <1>1. /\ pc = "run" /\ op.kind \in {"try", "keep"} /\ network' = network /\ faults' = faults
        /\ PlaceOK
    BY DEF CallCaught, DeployInv
  <1>2. pos \in DOMAIN Ops /\ pos > 1 /\ faults' \in Nat
    BY <1>1, OperationHere DEF PlaceOK
  <1>3. CASE op.id \in done \/ Refused(op) \/ Missing(op)
    <2>1. Goto(Plan, pos + 1 + op.n) /\ done' = done
      BY <1>3 DEF CallCaught
    <2>2. faults # 0
      <3> SUFFICES ASSUME faults = 0 PROVE FALSE
        OBVIOUS
      <3>1. /\ \A f \in done : Before(Ops, pos, f)
            /\ \A q \in DOMAIN Ops : q < pos /\ Lasting(Ops[q]) =>
                  Ops[q].id \in {"addTimeRange", ""} \/ Ops[q].id \in done
        BY <1>2 DEF DeployInv, FirstRunSoFar
      <3>2. /\ ~Before(Ops, pos, op.id) /\ ~Before(Ops, pos, "handedOver")
            /\ \A f \in Needs(op) \union ({op.on} \ {""}) :
                  f \notin {"addTimeRange", ""} /\ Before(Ops, pos, f)
        <4>1. FirstRunFits(Plan) /\ Plan.ops = Ops
          BY <1>1, PlanHere
        <4> QED
          BY <1>1, <1>2, <4>1 DEF FirstRunFits
      <3>3. op.id \notin done /\ ~Refused(op)
        BY <3>1, <3>2 DEF Refused
      <3>4. ASSUME NEW f \in Needs(op) \union ({op.on} \ {""}) PROVE f \in done
        <4>1. PICK k \in DOMAIN Ops : k < pos /\ Lasting(Ops[k]) /\ Ops[k].id = f
          BY <3>2, <3>4 DEF Before
        <4>2. f \notin {"addTimeRange", ""}
          BY <3>2, <3>4
        <4> QED
          BY <3>1, <4>1, <4>2
      <3> QED
        BY <1>3, <3>3, <3>4 DEF Missing
    <2>3. PassesOver(pos + 1 + op.n)
      BY <1>1, <2>2, CaughtPassesOver DEF PassesOver
    <2> QED
      BY <1>1, <1>2, <2>1, <2>3, CaughtPassesOver, MoveKeepsInv
  <1>4. CASE ~(op.id \in done \/ Refused(op) \/ Missing(op))
    <2>1. Advance(Plan) /\ Establish(op.id)
      BY <1>4 DEF CallCaught
    <2>2. Establishes
      BY <1>1, <2>1, EstablishEstablishes DEF Lasting
    <2> QED
      BY <1>1, <2>1, <2>2, EstablishKeepsInv
  <1> QED
    BY <1>3, <1>4

\* What a check finds recorded stands for what it skips.
LEMMA CheckKeepsInv ==
    ASSUME DeployInv, Check(Plan, Ops[pos])
    PROVE  DeployInv'
  <1> DEFINE op == Ops[pos]
             skips == op.kind = "unless" /\ op.id \in done
  <1>1. /\ pc = "run" /\ op.kind \in {"unless", "look"} /\ network' = network
        /\ faults' = faults /\ done' = done /\ PlaceOK
        /\ Goto(Plan, IF skips THEN pos + 1 + op.n ELSE pos + 1)
    BY DEF Check, DeployInv
  <1>2. /\ pos \in DOMAIN Ops /\ pos \in Nat /\ op.n \in Nat /\ faults' \in Nat /\ pos > 1
    BY <1>1, OperationHere DEF PlaceOK
  <1>3. /\ FirstRunFits(Plan) /\ Plan.ops = Ops /\ Required(network) \subseteq DOMAIN Ops
        /\ ~Lasting(op) /\ pos \notin Required(network)
    BY <1>1, PlanHere DEF Lasting
  <1>4. CASE skips
    <2>1. \A q \in SkippedBy(Ops, pos) \cap Required(network) : Ops[q].id \in done
      BY <1>2, <1>4 DEF DeployInv, GuardsHold
    <2>2. ASSUME faults = 0, NEW q \in SkippedBy(Ops, pos), q \in DOMAIN Ops, Lasting(Ops[q])
          PROVE  Ops[q].id \in {"addTimeRange", ""} \/ Ops[q].id \in done
      <3>1. Before(Ops, pos, op.id)
        BY <1>2, <1>4, <2>2 DEF DeployInv, FirstRunSoFar
      <3>2. Ops[q].id \in {"addTimeRange", ""} \/ Before(Ops, pos, Ops[q].id)
        BY <1>2, <1>3, <1>4, <2>2, <3>1 DEF FirstRunFits
      <3> QED
        BY <1>2, <2>2, <3>2 DEF DeployInv, FirstRunSoFar, Before
    <2>3. pos + 1 + op.n \in Nat \ {0} /\ pos + 1 + op.n > pos
      BY <1>2
    <2>4. PassesOver(pos + 1 + op.n)
      BY <1>1, <1>2, <1>3, <2>1, <2>2, <2>3, PassedBy DEF PassesOver
    <2> QED
      BY <1>1, <1>2, <1>4, <2>3, <2>4, MoveKeepsInv
  <1>5. CASE ~skips
    <2>1. pos + 1 \in Nat \ {0} /\ pos + 1 > pos
      BY <1>2
    <2>2. PassesOver(pos + 1)
      BY <1>1, <1>2, <1>3, <2>1, PassedOne DEF PassesOver
    <2> QED
      BY <1>1, <1>2, <1>5, <2>1, <2>2, MoveKeepsInv
  <1> QED
    BY <1>4, <1>5

\* The database is deleted, at the beginning of a task.
LEMMA DeleteDbKeepsInv ==
    ASSUME DeployInv, DeleteDb(Plan, Ops[pos])
    PROVE  DeployInv'
  <1>1. /\ pc = "run" /\ Ops[pos].kind = "wipe" /\ network' = network /\ faults' = faults
        /\ done' = {} /\ Goto(Plan, pos + 1) /\ PlaceOK
    BY DEF DeleteDb, Advance, DeployInv
  <1>2. pos = 1 /\ faults' \in Nat /\ ~Lasting(Ops[1])
    BY <1>1, OperationHere DEF PlaceOK, Lasting
  <1>3. PlaceOK' /\ pos' = 2
    BY <1>1, <1>2, GotoPlace
  <1>4. Ops' = Ops /\ Required(network)' = Required(network)
    BY <1>1 DEF Ops
  <1>5. \A q \in DOMAIN Ops : q < 2 => q = 1
    BY <1>1, PlanHere
  <1>6. DoneSoFar'
    BY <1>1, <1>2, <1>3, <1>4, <1>5, PlanHere DEF DoneSoFar
  <1>7. GuardsHold' /\ FirstRunSoFar'
    BY <1>1, <1>2, <1>3, <1>4, <1>5 DEF GuardsHold, FirstRunSoFar
  <1> QED
    BY <1>3, <1>6, <1>7 DEF DeployInv

\* An operation of a run, whichever it is, or its failure.
LEMMA RunKeepsInv ==
    ASSUME DeployInv, Run
    PROVE  DeployInv'
  <1>1. Plan.ops[pos] = Ops[pos]
    BY DEF Plan, Ops
  <1>2. Step(Plan, Ops[pos])
    BY <1>1 DEF Run
  <1>3. CASE Abort(Ops[pos])
    <2>1. /\ pc = "run" /\ pc' = "aborted" /\ pos' = pos /\ done' = done /\ network' = network
          /\ faults' = faults
      BY <1>3 DEF Abort
    <2>2. faults' \in Nat /\ faults' >= faults
      BY <2>1 DEF DeployInv, PlaceOK
    <2> QED
      BY <2>1, <2>2, AbortInv
  <1> QED
    BY <1>2, <1>3, DeployKeepsInv, RecordKeepsInv, CallKeepsInv, CallCaughtKeepsInv,
       CheckKeepsInv, DeleteDbKeepsInv DEF Step

\* A failed transaction, and a process that dies.
LEMMA AccidentKeepsInv ==
    ASSUME DeployInv, Accident(Plan, Ops[pos])
    PROVE  DeployInv'
  <1> DEFINE op == Ops[pos]
  <1>1. pc = "run" /\ faults' = faults + 1 /\ done' = done /\ network' = network /\ PlaceOK
    BY DEF Accident, Crash, RetryInit, FailCaught, DeployInv
  <1>2. faults' \in Nat /\ faults' >= faults /\ faults' > 0
    BY <1>1 DEF PlaceOK
  <1>3. pos \in DOMAIN Ops /\ pos \in Nat \ {0} /\ (op.kind = "wipe" <=> pos = 1)
    BY <1>1, OperationHere DEF PlaceOK
  <1>4. ~(faults' = 0)
    BY <1>2
  <1>5. CASE Crash
    <2>1. pc' = "crashed" /\ pos' = pos
      BY <1>5 DEF Crash
    <2> QED
      BY <1>1, <1>2, <2>1, AbortInv
  <1>6. CASE RetryInit(Plan, op)
    <2>1. op.kind = "init" /\ Goto(Plan, IF incremental THEN pos + 1 ELSE pos - 1)
      BY <1>6 DEF RetryInit
    <2>2. pos \notin Required(network)
      BY <1>1, <1>3, <2>1, PlanHere DEF RequiredStays
    <2>3. Required(network) \subseteq DOMAIN Ops
      BY <1>1, PlanHere
    <2>4. CASE incremental
      <3>1. pos + 1 \in Nat \ {0}
        BY <1>3
      <3>2. PassesOver(pos + 1)
        BY <1>1, <1>4, <2>2, <2>3, PassedOne DEF PassesOver
      <3> QED
        BY <1>1, <1>2, <2>1, <2>4, <3>1, <3>2, MoveKeepsInv
    <2>5. CASE ~incremental
      <3>1. pos - 1 \in Nat \ {0}
        BY <1>3, <2>1
      <3>2. \A q \in Nat : ~(q < pos - 1 /\ q >= pos)
        BY <1>3
      <3>3. Required(network) \subseteq Nat
        BY <1>1, <2>3, PlanHere
      <3>4. PassesOver(pos - 1)
        BY <1>4, <3>2, <3>3 DEF PassesOver
      <3> QED
        BY <1>1, <1>2, <2>1, <2>5, <3>1, <3>4, MoveKeepsInv
    <2> QED
      BY <2>4, <2>5
  <1>7. CASE FailCaught(Plan, op)
    <2>1. op.kind \in {"try", "keep"} /\ Goto(Plan, pos + 1 + op.n)
      BY <1>7 DEF FailCaught
    <2>2. /\ pos + 1 + op.n \in Nat \ {0}
          /\ \A q \in Required(network) : ~(q < pos + 1 + op.n /\ q >= pos)
      BY <1>1, <2>1, CaughtPassesOver
    <2>3. PassesOver(pos + 1 + op.n)
      BY <1>4, <2>2 DEF PassesOver
    <2> QED
      BY <1>1, <1>2, <2>1, <2>2, <2>3, MoveKeepsInv
  <1> QED
    BY <1>5, <1>6, <1>7 DEF Accident

\* A task that is started again begins before the operation it has come to.
LEMMA StartKeepsInv ==
    ASSUME DeployInv, NEW step \in 0 .. 25, NEW inc, Start(Plan, step, inc),
           Plan.start[step] <= pos, pc # "done",
           faults > 0 \/ Plan.start[step] = 1
    PROVE  DeployInv'
  <1> DEFINE p == Plan.start[step]
  <1>1. /\ pc' = "run" /\ pos' = p /\ network' = network /\ done' = done /\ faults' = faults
    BY DEF Start
  <1>2. PlaceOK /\ p \in Nat \ {0} /\ p <= pos
    BY PlanHere DEF DeployInv, InOrder
  <1>3. Ops' = Ops /\ Required(network)' = Required(network)
    BY <1>1 DEF Ops
  <1>4. /\ pos \in DOMAIN Ops /\ DOMAIN Ops = 1 .. Len(Ops) /\ Len(Ops) \in Nat /\ pos \in Nat
    BY <1>2, PlanHere DEF PlaceOK
  <1> HIDE DEF p
  <1>5. p \in DOMAIN Ops
    <2> HIDE DEF Ops
    <2> QED
      BY <1>2, <1>4
  <1>6. PlaceOK'
    BY <1>1, <1>2, <1>3, <1>5 DEF PlaceOK
  <1>7. DoneSoFar'
    <2>1. \A q \in Nat : q < p => q < pos
      BY <1>2, <1>4
    <2>2. Required(network) \subseteq Nat
      BY <1>2, <1>4, PlanHere
    <2> QED
      BY <1>1, <1>3, <2>1, <2>2 DEF DeployInv, DoneSoFar
  <1>8. GuardsHold'
    BY <1>1, <1>3 DEF DeployInv, GuardsHold
  <1>9. FirstRunSoFar'
    <2>1. faults = 0 => p = 1
      BY <1>2 DEF PlaceOK, p
    <2>2. ~(1 > 1)
      OBVIOUS
    <2>3. faults' = 0 /\ pos' > 1 => FALSE
      BY <1>1, <2>1, <2>2
    <2> QED
      BY <2>3 DEF FirstRunSoFar
  <1> QED
    BY <1>6, <1>7, <1>8, <1>9 DEF DeployInv

\* DEPLOY_START names a step that is not after the one that was interrupted.
LEMMA RestartKeepsInv ==
    ASSUME DeployInv, Restart
    PROVE  DeployInv'
  <1>1. PlaceOK /\ InOrder(Plan) /\ Plan.ops = Ops
    BY PlanHere DEF DeployInv
  <1>2. CASE Resume(Plan)
    <2>1. PICK step \in {4, StepOf(Plan, pos)}, inc \in BOOLEAN :
            step <= StepOf(Plan, pos) /\ Start(Plan, step, inc)
      BY <1>2 DEF Resume
    <2>2. pc \in {"crashed", "aborted"} /\ faults > 0 /\ pos \in DOMAIN Ops
      BY <1>1, <1>2 DEF Resume, PlaceOK
    <2>3. /\ StepOf(Plan, pos) \in 0 .. 25
          /\ Plan.start[StepOf(Plan, pos)] <= pos
      <3>1. \E s \in 0 .. 25 : /\ Plan.start[s] <= pos
                               /\ s = 25 \/ pos < Plan.start[s + 1]
        BY <1>1, <2>2 DEF InOrder
      <3> QED
        BY <3>1 DEF StepOf
    <2>4. step \in 0 .. 25
      BY <2>1, <2>3
    <2>5. Plan.start[step] <= pos
      <3>1. Plan.start[step] <= Plan.start[StepOf(Plan, pos)]
        BY <1>1, <2>1, <2>3, <2>4 DEF InOrder
      <3>2. Plan.start[step] \in Nat /\ Plan.start[StepOf(Plan, pos)] \in Nat /\ pos \in Nat
        BY <1>1, <2>3, <2>4 DEF InOrder, PlaceOK
      <3> QED
        BY <2>3, <3>1, <3>2
    <2> QED
      BY <2>1, <2>2, <2>4, <2>5, StartKeepsInv
  <1>3. CASE StartOver(Plan)
    <2>1. pc # "done" /\ \E inc \in BOOLEAN : Start(Plan, 0, inc)
      BY <1>3 DEF StartOver
    <2>2. Plan.start[0] = 1 /\ Plan.start[0] <= pos
      BY <1>1 DEF InOrder, PlaceOK
    <2> QED
      BY <2>1, <2>2, StartKeepsInv
  <1> QED
    BY <1>2, <1>3 DEF Restart, RestartOf

\* A task that begins has done nothing and has nothing to have done.
LEMMA InitInv == Init => DeployInv
  <1> SUFFICES ASSUME Init PROVE DeployInv
    OBVIOUS
  <1>1. network \in Networks /\ pc = "run" /\ pos = 1 /\ done = {} /\ faults = 0
    BY DEF Init
  <1>2. 1 \in DOMAIN Ops /\ DOMAIN Ops \subseteq Nat \ {0}
    <2>1. Ops \in Seq(Operation) \ {<< >>}
      BY <1>1, PlansAssumption DEF InOrder, Ops
    <2>2. Len(Ops) \in Nat \ {0} /\ DOMAIN Ops = 1 .. Len(Ops)
      BY <2>1
    <2> HIDE DEF Ops
    <2> QED
      BY <2>2
  <1>3. PlaceOK
    BY <1>1, <1>2 DEF PlaceOK
  <1>4. DoneSoFar
    BY <1>1, <1>2, <1>3, PlanHere DEF DoneSoFar
  <1>5. GuardsHold /\ FirstRunSoFar
    BY <1>1 DEF GuardsHold, FirstRunSoFar
  <1> QED
    BY <1>3, <1>4, <1>5 DEF DeployInv

\* Every step keeps the invariant.
LEMMA StepInv == DeployInv /\ [Next]_vars => DeployInv'
  <1> SUFFICES ASSUME DeployInv, [Next]_vars PROVE DeployInv'
    OBVIOUS
  <1>1. CASE Next
    <2>1. Plan.ops[pos] = Ops[pos]
      BY DEF Plan, Ops
    <2> QED
      BY <1>1, <2>1, RunKeepsInv, AccidentKeepsInv, RestartKeepsInv DEF Next
  <1>2. CASE UNCHANGED vars
    <2>1. Ops' = Ops /\ UNCHANGED <<network, pc, pos, done, faults>>
      BY <1>2 DEF vars, Ops
    <2> QED
      BY <2>1 DEF DeployInv, PlaceOK, DoneSoFar, GuardsHold, FirstRunSoFar
  <1> QED
    BY <1>1, <1>2

-----------------------------------------------------------------------------
\* However often a task is interrupted and continued, what is required is done as far as it
\* has come, and what guards a group of records stands for all of them.
THEOREM DeployInvHolds == Spec => []DeployInv
  <1>1. Init => DeployInv
    BY InitInv
  <1>2. DeployInv /\ [Next]_vars => DeployInv'
    BY StepInv
  <1> QED
    BY <1>1, <1>2, PTL DEF Spec

\* A task that ends has left out nothing but what Skippable names, and nothing but the time
\* range of a staking contract that is not its own when there was no fault.
THEOREM NothingElseSkippedHolds == Spec => []NothingElseSkipped
  <1>1. DeployInv => NothingElseSkipped
    <2> SUFFICES ASSUME DeployInv, pc = "done"
                 PROVE  /\ DOMAIN Plan.uses \ done \subseteq Skippable
                        /\ faults = 0 => DOMAIN Plan.uses \ done \subseteq {"addTimeRange", ""}
      BY DEF NothingElseSkipped
    <2>1. PlaceOK /\ pos > Len(Ops) /\ network \in Networks /\ pos \in Nat
      BY DEF DeployInv, PlaceOK
    <2>2. DOMAIN Ops = 1 .. Len(Ops) /\ Len(Ops) \in Nat \ {0}
      BY <2>1, PlanHere
    <2>3. DOMAIN Plan.uses = {o.id : o \in ToSet(Ops)}
      BY <2>1 DEF Plan, Plans, PlanOf, Ops
    <2>4. \A q \in DOMAIN Ops : q < pos
      <3> HIDE DEF Ops
      <3> QED
        BY <2>1, <2>2
    <2>5. {o.id : o \in ToSet(Ops)} \subseteq
             SkippableOf(network) \union {Ops[q].id : q \in Required(network)}
      BY <2>1, PlansAssumption DEF Ops
    <2>6. \A q \in Required(network) : Ops[q].id \in done
      BY <2>1, <2>4, PlanHere DEF DeployInv, DoneSoFar
    <2>7. ASSUME faults = 0, NEW o \in ToSet(Ops), o.id \notin {"addTimeRange", ""}
          PROVE  o.id \in done
      <3>1. Before(Ops, Len(Ops) + 1, o.id)
        BY <2>1, <2>7, PlansAssumption DEF Ops
      <3>2. pos > 1
        BY <2>1, <2>2
      <3> QED
        BY <2>4, <2>7, <3>1, <3>2 DEF Before, DeployInv, FirstRunSoFar
    <2> QED
      BY <2>3, <2>5, <2>6, <2>7 DEF Skippable
  <1> QED
    BY <1>1, DeployInvHolds, PTL

=============================================================================
