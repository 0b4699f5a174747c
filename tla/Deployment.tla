----------------------------- MODULE Deployment -----------------------------
(***************************************************************************)
(* The task deploy:all: it runs the steps in order, from DEPLOY_START, and *)
(* hands addresses from one to the next through the deployment database.   *)
(* A step that throws ends the process.  The operator starts again, from   *)
(* the step that was interrupted, from the protocol's first contract (step *)
(* 4) or from an empty database, and may do so with DEPLOY_INCREMENTAL.    *)
(*                                                                         *)
(* A contract deployed anew takes its id in the database.  What was done   *)
(* to its predecessor is lost with it, and whoever was built with the      *)
(* predecessor's address still has it: that is a stale link.               *)
(***************************************************************************)
EXTENDS DeployPlan

CONSTANT MaxFaults   \* crashes and failed transactions

ASSUME FaultsAssumption == MaxFaults \in Nat

VARIABLES
    network,
    incremental,   \* DEPLOY_INCREMENTAL of this run
    pc,            \* "run", "done", or how the run ended
    pos,           \* the operation to run
    done,          \* the facts established about the contracts of the database
    stale,         \* <<fact, id>>: the fact rests on a predecessor of id
    here,          \* contracts that were deployed by this very run
    faults,
    resumed        \* this run continues an earlier one

vars == <<network, incremental, pc, pos, done, stale, here, faults, resumed>>

-----------------------------------------------------------------------------
\* The operations in their order, and where each step begins; what a fact relies on, and the
\* facts that are lost with a contract: its state, and that of what it created.
PlanOf(steps) ==
    LET ops == FlattenSeq(steps)
        all == ToSet(ops)
        facts == {o.id : o \in all}
        livingOn == [f \in facts |-> {o.id : o \in {q \in all : q.on = f}}]
        WithNested(S) == S \union UNION {livingOn[g] : g \in S}
    IN  [ops |-> ops,
         start |-> [s \in 0 .. 25 |-> Len(FlattenSeq(SubSeq(steps, 1, s))) + 1],
         uses |-> [f \in facts |-> UNION {Needs(o) : o \in {q \in all : q.id = f}}],
         under |-> [f \in facts |-> WithNested(WithNested(livingOn[f]))]]

\* The plan of a network.
Plans == [n \in Networks |-> PlanOf(Steps(Markets[n]))]

\* The actions have the plan of the network, and the operation that is next, as parameters.
Plan == Plans[network]

StepOf(plan, p) == CHOOSE s \in 0 .. 25 : /\ plan.start[s] <= p
                                          /\ s = 25 \/ p < plan.start[s + 1]

\* The contracts only their owner can administer after the handover.
Governed == {"PoolAddressesProviderRegistry", "PoolAddressesProvider", "ACLManager", "pool",
             "configurator"}

Refused(op) ==
    /\ "handedOver" \in done /\ op.on \in Governed
    /\ op.kind \in {"set", "once", "keep"} /\ op.id # "handedOver"
-----------------------------------------------------------------------------
Init ==
    /\ network \in Networks /\ incremental \in BOOLEAN
    /\ pc = "run" /\ pos = 1
    /\ done = {} /\ stale = {} /\ here = {}
    /\ faults = 0 /\ resumed = FALSE

Goto(plan, p) == pos' = p /\ pc' = IF p > Len(plan.ops) THEN "done" ELSE "run"
Advance(plan) == Goto(plan, pos + 1)

\* A contract takes the id: what was known of its predecessor goes, and those who use it, or
\* what it had created, are stale.
ReplaceBy(plan, id, lost) ==
    /\ done' = (done \ lost) \union {id}
    /\ stale' = {p \in stale : p[1] \notin lost \union {id}}
                  \union {p \in (done \ lost) \X lost : p[2] \in plan.uses[p[1]]}
Supersede(plan, id) ==
    ReplaceBy(plan, id, IF id \in done THEN {id} \union (plan.under[id] \cap done) ELSE {})

\* (mutant: what was set stays as it was set first)
EstablishOnce(id) ==
    done' = done \union {id} /\ stale' = {p \in stale : p[1] # id \/ id \in done}
Establish(id) ==
    done' = done \union {id} /\ stale' = {p \in stale : p[1] # id}

\* An address is missing in the database, or a call reverts.
Missing(op) == ~(Needs(op) \union ({op.on} \ {""}) \subseteq done)
Throws(op) ==
    \/ op.kind \notin {"unless", "put", "wipe", "keep"} /\ Missing(op)
    \/ op.kind = "look" /\ op.id # "" /\ op.id \notin here
    \/ op.kind = "once" /\ op.id \in done
    \/ op.kind \in {"set", "once"} /\ Refused(op)

Abort(op) ==
    /\ pc = "run" /\ Throws(op)
    /\ pc' = "aborted"
    /\ UNCHANGED <<network, incremental, pos, done, stale, here, faults, resumed>>

\* (mutant: a contract that is found skips one operation too many)
DeployAndNext(plan, op) ==
    /\ pc = "run" /\ ~Throws(op) /\ op.kind = "new"
    /\ IF incremental /\ op.id \in done
       THEN Goto(plan, pos + 2 + op.n) /\ UNCHANGED <<done, stale, here>>
       ELSE /\ Advance(plan) /\ Supersede(plan, op.id)
            /\ here' = here \union ({op.id} \cap {"stETH"})
    /\ UNCHANGED <<network, incremental, faults, resumed>>

Deploy(plan, op) ==
    /\ pc = "run" /\ ~Throws(op) /\ op.kind = "new"
    /\ IF incremental /\ op.id \in done
       THEN Goto(plan, pos + 1 + op.n) /\ UNCHANGED <<done, stale, here>>
       ELSE /\ Advance(plan) /\ Supersede(plan, op.id)
            /\ here' = here \union ({op.id} \cap {"stETH"})
    /\ UNCHANGED <<network, incremental, faults, resumed>>

\* A record changes when the contract that answers is another one.
Record(plan, op) ==
    /\ pc = "run" /\ ~Throws(op) /\ op.kind \in {"create", "register", "put"}
    /\ Advance(plan)
    /\ IF op.kind = "create" \/ (op.kind = "register" /\ \E p \in stale : p[1] = op.id)
       THEN Supersede(plan, op.id) ELSE Establish(op.id)
    /\ UNCHANGED <<network, incremental, here, faults, resumed>>

Call(plan, op) ==
    /\ pc = "run" /\ ~Throws(op) /\ op.kind \in {"set", "once", "init"}
    /\ Advance(plan) /\ Establish(op.id)
    /\ UNCHANGED <<network, incremental, here, faults, resumed>>

\* A call whose failure is caught: the first initialization stands.
CallCaught(plan, op) ==
    /\ pc = "run" /\ ~Throws(op) /\ op.kind \in {"try", "keep"}
    /\ IF op.id \in done \/ Refused(op) \/ Missing(op)
       THEN Goto(plan, pos + 1 + op.n) /\ UNCHANGED <<done, stale>>
       ELSE Advance(plan) /\ Establish(op.id)
    /\ UNCHANGED <<network, incremental, here, faults, resumed>>

Check(plan, op) ==
    /\ pc = "run" /\ ~Throws(op) /\ op.kind \in {"unless", "look"}
    /\ Goto(plan, IF op.kind = "unless" /\ op.id \in done THEN pos + 1 + op.n ELSE pos + 1)
    /\ UNCHANGED <<network, incremental, done, stale, here, faults, resumed>>

\* (mutant: the database is kept)
KeepDb(plan, op) ==
    /\ pc = "run" /\ op.kind = "wipe"
    /\ Advance(plan)
    /\ UNCHANGED <<network, incremental, done, stale, here, faults, resumed>>

DeleteDb(plan, op) ==
    /\ pc = "run" /\ op.kind = "wipe"
    /\ Advance(plan) /\ done' = {} /\ stale' = {}
    /\ UNCHANGED <<network, incremental, here, faults, resumed>>

Step(plan, op) ==
    \/ Abort(op) \/ Deploy(plan, op) \/ Record(plan, op) \/ Call(plan, op)
    \/ CallCaught(plan, op) \/ Check(plan, op) \/ DeleteDb(plan, op)
Run == Step(Plan, Plan.ops[pos])

\* The process dies, or a transaction fails for good.
Crash ==
    /\ pc = "run" /\ faults < MaxFaults
    /\ pc' = "crashed" /\ faults' = faults + 1
    /\ UNCHANGED <<network, incremental, pos, done, stale, here, resumed>>

\* A transaction fails and withSaveAndVerify tries once more: the proxy is deployed anew, or
\* taken from the database as it is.
RetryInit(plan, op) ==
    /\ pc = "run" /\ op.kind = "init" /\ faults < MaxFaults
    /\ faults' = faults + 1
    /\ Goto(plan, IF incremental THEN pos + 1 ELSE pos - 1)
    /\ UNCHANGED <<network, incremental, done, stale, here, resumed>>

\* A caught call fails by accident.
FailCaught(plan, op) ==
    /\ pc = "run" /\ ~Throws(op) /\ op.kind \in {"try", "keep"} /\ faults < MaxFaults
    /\ faults' = faults + 1
    /\ Goto(plan, pos + 1 + op.n)
    /\ UNCHANGED <<network, incremental, done, stale, here, resumed>>

Start(plan, step, inc) ==
    /\ pc' = "run" /\ pos' = plan.start[step] /\ incremental' = inc /\ here' = {}
    /\ UNCHANGED <<network, done, stale, faults>>

\* DEPLOY_START is the interrupted step, or the protocol's first one.  (No run stops before
\* something went wrong: AbortHasCause.)
Resume(plan) ==
    /\ pc \in {"crashed", "aborted"} /\ faults > 0
    /\ \E step \in {4, StepOf(plan, pos)}, inc \in BOOLEAN :
          step <= StepOf(plan, pos) /\ Start(plan, step, inc)
    /\ resumed' = TRUE

StartOver(plan) ==
    /\ pc \in {"crashed", "aborted"}
    /\ \E inc \in BOOLEAN : Start(plan, 0, inc)
    /\ resumed' = FALSE

Accident(plan, op) == Crash \/ RetryInit(plan, op) \/ FailCaught(plan, op)
RestartOf(plan) == Resume(plan) \/ StartOver(plan)
Restart == RestartOf(Plan)
Next == Run \/ Accident(Plan, Plan.ops[pos]) \/ Restart

Spec == Init /\ [][Next]_vars
\* The process runs on, and the operator does not give up: if the runs that continue keep
\* stopping, some day a run starts over.
FairSpec == Spec /\ WF_vars(Run) /\ SF_vars(StartOver(Plan))
-----------------------------------------------------------------------------
\* Records that step 2 writes after the token that guards them.
RecordedWithToken == {"UniswapV3Factory", "UniswapV3SwapRouter", "PUNKS"}

\* On every network the steps fit together: without a fault, no step misses a record that an
\* earlier one should have left, and no call reverts.
\* A continued run fails for one of few reasons.  A plain one repeats the whole step, on
\* contracts of its own, and trips only over the calls to contracts of an earlier step: the
\* two proxies of the provider, the first vault and the time lock.  Records that were skipped with
\* their token, a stETH of an earlier run and a market without reserves are the others.
AbortHasCause ==
    pc = "aborted" => faults > 0 /\ \E op \in {Plan.ops[pos]} :
      \/ /\ op.kind = "once" /\ op.id \in done
         /\ ~incremental => op.id \in {"pool", "configurator", "initializeCApe", "initializeTimeLock"}
      \/ (Needs(op) \cap RecordedWithToken) \ done # {}
      \/ op.id = "stETH" /\ "stETH" \in done \ here
      \/ \E f \in Needs(op) \ done : \E g \in 1 .. Len(GroupsOf[network]) :
            f = "reserves" \o ToString(g)

\* The libraries and implementations that hold no state of their own: an older one that stays
\* in use does what the new one does.
Stateless ==
    {"SupplyLogic", "BorrowLogic"}
      \union UNION {Plan.uses["reserves" \o ToString(g)] : g \in 1 .. Len(GroupsOf[network])}

\* However a deployment was interrupted and continued: when the task ends, no contract and no
\* entry of the address book rests on a contract that was replaced, but for libraries the
\* position mover deploys once more and the token implementations of reserves listed before.
CoherentSystem == pc = "done" => \A p \in stale : p[2] \in Stateless

\* What a task that ends may have left out: calls and records that follow a deployment which
\* the next run does not repeat, and calls whose failure was caught.
SkippableOf(n) ==
    {"setNestingOpen", "setDeployer", "addTimeRange", "initializeFloorOracle", "setConfig", ""}
      \union RecordedWithToken
      \union {"reserves" \o ToString(g) : g \in 1 .. Len(GroupsOf[n])}
      \union {"configureReserves" \o ToString(g) : g \in 1 .. Len(GroupsOf[n])}
      \union {id \o ".initialize" : id \in {"WETHGatewayProxy", "WPunkGatewayProxy",
                                            "BlurExchangeProxy", "UserFlashClaimRegistryProxy"}}
Skippable == SkippableOf(network)

\* Nothing else is missing, and nothing at all without a fault, where the contract was
\* deployed by the task.
NothingElseSkipped ==
    pc = "done" =>
      /\ DOMAIN Plan.uses \ done \subseteq Skippable
      /\ faults = 0 => DOMAIN Plan.uses \ done \subseteq {"addTimeRange", ""}

-----------------------------------------------------------------------------
(* What NothingElseSkipped rests on in the plans, whatever goes wrong in a *)
(* run.                                                                    *)

\* The operations that establish their fact unless they are skipped, and what one skips.
Lasting(op) == op.kind \notin {"look", "unless", "wipe"}
SkippedBy(ops, p) == p + 1 .. p + ops[p].n

\* A fact that an operation before p establishes.
Before(ops, p, f) == \E k \in DOMAIN ops : k < p /\ Lasting(ops[k]) /\ ops[k].id = f

\* A record that is written after the one that guards it: a run that stops in between leaves
\* it out for good.
WrittenLate(ops, q) ==
    \E p \in 1 .. q - 1 : /\ ops[p].kind = "unless" /\ q \in SkippedBy(ops, p)
                          /\ \E r \in p + 1 .. q - 1 : ops[r].id = ops[p].id

\* The operations that every task that ends has carried out, or has found done.
Required(n) ==
    LET ops == Plans[n].ops
    IN  {q \in DOMAIN ops : /\ Lasting(ops[q]) /\ ops[q].id \notin SkippableOf(n)
                            /\ ~WrittenLate(ops, q)}

\* What the contract deployed at p takes with it.
LostAt(plan, p) ==
    IF plan.ops[p].kind \in {"new", "create", "register"}
    THEN plan.under[plan.ops[p].id] \ {plan.ops[p].id} ELSE {}

Operation == [kind : STRING, id : STRING, on : STRING, uses : SUBSET STRING, n : Nat]

\* The database is deleted at the beginning and never again; the steps follow each other.
InOrder(plan) ==
    /\ plan.ops \in Seq(Operation) \ {<< >>}
    /\ \A p \in DOMAIN plan.ops : plan.ops[p].kind = "wipe" <=> p = 1
    /\ plan.start \in [0 .. 25 -> Nat \ {0}] /\ plan.start[0] = 1
    /\ \A s, t \in 0 .. 25 : s <= t => plan.start[s] <= plan.start[t]
    /\ \A p \in DOMAIN plan.ops :
          \E s \in 0 .. 25 : plan.start[s] <= p /\ (s = 25 \/ p < plan.start[s + 1])

\* Nothing that is required is skipped by an operation at p that fails or finds its contract,
\* lost with a contract that is deployed later, or recorded later than what guards it.
RequiredStays(plan, required) ==
    LET ops == plan.ops
    IN  \A p \in DOMAIN ops :
          /\ ops[p].kind \in {"try", "keep", "init"} => p \notin required
          /\ ops[p].kind \in {"new", "try", "keep"} => SkippedBy(ops, p) \cap required = {}
          /\ \A q \in required : q < p => ops[q].id \notin LostAt(plan, p)
          /\ ops[p].kind = "unless" =>
                \A i \in SkippedBy(ops, p) \cap required : \A q \in DOMAIN ops :
                  /\ ops[i].id \notin LostAt(plan, q)
                  /\ Lasting(ops[q]) /\ ops[q].id = ops[p].id =>
                        \/ ops[i].id = ops[p].id
                        \/ \E k \in required : k <= q /\ ops[k].id = ops[i].id

\* A first run loses nothing, and skips only what it has done before.
FirstRunFits(plan) ==
    LET ops == plan.ops
        optional == {"addTimeRange", ""}
    IN  \A p \in DOMAIN ops :
          /\ \A q \in 1 .. p - 1 : Lasting(ops[q]) =>
                ops[q].id \in optional \/ ops[q].id \notin LostAt(plan, p)
          /\ ops[p].kind = "unless" /\ Before(ops, p, ops[p].id) =>
                \A i \in SkippedBy(ops, p) : Lasting(ops[i]) =>
                   ops[i].id \in optional \/ Before(ops, p, ops[i].id)
          /\ ops[p].kind = "new" /\ ops[p].n > 0 => ~Before(ops, p, ops[p].id)
          /\ ops[p].kind \in {"try", "keep"} =>
                /\ ~Before(ops, p, ops[p].id) /\ ~Before(ops, p, "handedOver")
                /\ \A f \in Needs(ops[p]) \union ({ops[p].on} \ {""}) :
                      f \notin optional /\ Before(ops, p, f)

\* Every fact that may not be left out has an operation that is required.
ASSUME PlansAssumption == \A n \in Networks :
    LET ops == Plans[n].ops
    IN  /\ InOrder(Plans[n]) /\ FirstRunFits(Plans[n]) /\ RequiredStays(Plans[n], Required(n))
        /\ {o.id : o \in ToSet(ops)} \subseteq SkippableOf(n) \union {ops[q].id : q \in Required(n)}
        /\ \A o \in ToSet(ops) :
              o.id \in {"addTimeRange", ""} \/ Before(ops, Len(ops) + 1, o.id)

-----------------------------------------------------------------------------
\* The getters that attach another class than the contract they find, or find another one.
Mismatched == {"getSupplyExtendedLogic", "getFlashClaimLogic", "getNTokenBAYC", "getNTokenMAYC"}
Interfaces == {"INonfungiblePositionManager", "ISwapRouter", "ERC20", "ERC721"}

\* A getter attaches the class of the contract that a complete deployment records under its
\* id; four do not.
GettersFindTheirContracts ==
    pc = "done" =>
      \A g \in DOMAIN Getters :
        Getters[g].id \in done /\ Getters[g].as \notin Interfaces
            /\ Contract(Getters[g].id).contract # "Mintable"
          => (Getters[g].as = Contract(Getters[g].id).contract <=> g \notin Mismatched)

\* The operator gets there: starting over is always possible, and is needed at most as often
\* as something fails.
EventuallyDeployed == <>(pc = "done")

=============================================================================
