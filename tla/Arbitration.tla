----------------------------- MODULE Arbitration -----------------------------
(***************************************************************************)
(* contracts/AITraceArbitration.sol: disputes about certificates, their    *)
(* stakes, the votes of arbitrators and their reputation.  A transaction   *)
(* is atomic and one that does not meet its requirements changes nothing,  *)
(* so each entry point is one action.  One account owns the contract.      *)
(*                                                                         *)
(* Whether the registry has an attestation of the certificate is an input  *)
(* of createDispute.  A deadline is open or past; stakes are amounts.  So  *)
(* setRegistry, setVotingPeriod and setMinStake change nothing that is not *)
(* an input here; transferOwnership changes who makes the owner's calls.   *)
(***************************************************************************)
EXTENDS Integers, FiniteSets, FiniteSetsExt

CONSTANTS
  Accounts,           \* accounts that vote or have disputes
  Refusing,           \* those of them that are contracts which take no transfer
  Owner,              \* who deployed the contract
  Parties,            \* the accounts that have disputes
  Disputes,           \* dispute ids
  Stakes,             \* amounts sent with createDispute; minStake may be anything
  Minimums,           \* what the owner sets minArbitrators to
  InitialReputation,  \* INITIAL_REPUTATION
  MaxChanges          \* bound on what the owner does

ASSUME ArbitrationAssumption ==
  /\ Owner \in Accounts /\ IsFiniteSet(Accounts) /\ Refusing \subseteq Accounts
  /\ Stakes \subseteq Nat /\ Minimums \subseteq Nat
  /\ Parties \subseteq Accounts
  /\ InitialReputation \in 8 .. 204 /\ MaxChanges \in Nat

VARIABLES
  dispute,         \* disputes by id
  votes,           \* disputeVotes
  arbitratorList,  \* active arbitrators
  reputation,
  minArbitrators,
  balance,         \* of the contract
  paid,            \* history: what was paid out of each dispute to each account
  withdrawn,       \* history: emergencyWithdraw has been called
  changes          \* calls of the owner, bounded by MaxChanges

arbitrationVars ==
  <<dispute, votes, arbitratorList, reputation, minArbitrators, balance, paid, withdrawn, changes>>

Nobody == "nobody"
NoDispute ==
  [status |-> "None", plaintiff |-> Owner, defendant |-> Owner, stake |-> 0, open |-> FALSE,
   votesInFavor |-> 0, votesAgainst |-> 0, votesAbstain |-> 0, winner |-> Nobody]

ArbitrationInit ==
  /\ dispute = [d \in Disputes |-> NoDispute]
  /\ votes = [d \in Disputes |-> [a \in Accounts |-> "None"]]
  /\ arbitratorList = {Owner}
  /\ reputation = [a \in Accounts |-> IF a = Owner THEN InitialReputation ELSE 0]
  /\ minArbitrators = 3
  /\ balance = 0
  /\ paid = [d \in Disputes |-> [a \in Accounts |-> 0]]
  /\ withdrawn = FALSE
  /\ changes = 0

----------------------------------------------------------------------------
createDispute(d, attested, plaintiff, defendant, stake) ==
  /\ dispute[d].status = "None"
  /\ plaintiff # defendant /\ attested
  /\ dispute' = [dispute EXCEPT ![d] =
       [NoDispute EXCEPT !.status = "Pending", !.plaintiff = plaintiff, !.defendant = defendant,
                         !.stake = stake, !.open = TRUE]]
  /\ balance' = balance + stake
  /\ UNCHANGED <<votes, arbitratorList, reputation, minArbitrators, paid, withdrawn, changes>>

startVoting(d) ==
  /\ dispute[d].status = "Pending"
  /\ Cardinality(arbitratorList) >= minArbitrators
  /\ dispute' = [dispute EXCEPT ![d].status = "Voting", ![d].open = TRUE]
  /\ UNCHANGED <<votes, arbitratorList, reputation, minArbitrators, balance, paid, withdrawn, changes>>

(* block.timestamp passes the deadline.                                    *)
Deadline(d) ==
  /\ dispute[d].open
  /\ dispute' = [dispute EXCEPT ![d].open = FALSE]
  /\ UNCHANGED <<votes, arbitratorList, reputation, minArbitrators, balance, paid, withdrawn, changes>>

MayVote_AsParty(d, a) == votes[d][a] = "None"
MayVote(d, a) == votes[d][a] = "None" /\ a \notin {dispute[d].plaintiff, dispute[d].defendant}

Tallied(v, result) ==
  [v EXCEPT !.votesInFavor = IF result = "InFavor" THEN @ + 1 ELSE @,
            !.votesAgainst = IF result = "Against" THEN @ + 1 ELSE @,
            !.votesAbstain = IF result = "Abstain" THEN @ + 1 ELSE @]

vote(d, a, result) ==
  /\ a \in arbitratorList
  /\ dispute[d].status = "Voting" /\ dispute[d].open
  /\ MayVote(d, a)
  /\ votes' = [votes EXCEPT ![d][a] = result]
  /\ dispute' = [dispute EXCEPT ![d] = Tallied(@, result)]
  /\ UNCHANGED <<arbitratorList, reputation, minArbitrators, balance, paid, withdrawn, changes>>

----------------------------------------------------------------------------
(* resolveDispute.                                                         *)

Decisive(d) == dispute[d].votesInFavor + dispute[d].votesAgainst
TotalVotes(d) == Decisive(d) + dispute[d].votesAbstain

(* Past the deadline, or as many votes as there are arbitrators now.       *)
VotingEnded(d) == ~dispute[d].open \/ TotalVotes(d) >= Cardinality(arbitratorList)

Outcome(v) ==
  CASE v.votesInFavor > v.votesAgainst ->
         [status |-> "Resolved", winner |-> v.plaintiff, payee |-> v.plaintiff]
    [] v.votesAgainst > v.votesInFavor ->
         [status |-> "Rejected", winner |-> v.defendant, payee |-> v.defendant]
    [] OTHER ->
         [status |-> "Resolved", winner |-> Nobody, payee |-> v.plaintiff]

CanResolve_Pending(d) == dispute[d].status \in {"Voting", "Resolved"}
CanResolve(d) == dispute[d].status = "Voting"

(* transfer reverts the transaction if the balance does not cover it or    *)
(* the recipient refuses it.                                               *)
Pay(d, payee) ==
  /\ payee \notin Refusing /\ balance >= dispute[d].stake
  /\ balance' = balance - dispute[d].stake
  /\ paid' = [paid EXCEPT ![d][payee] = @ + dispute[d].stake]

Raised(r) == IF r < 200 THEN r + 5 ELSE r
Lowered(r) == IF r > 10 THEN r - 3 ELSE r

(* _updateArbitratorReputation: of those who voted and still are           *)
(* arbitrators; a draw counts as a vote against.                           *)
NewReputation(d, winner) ==
  LET winning == IF winner = dispute[d].plaintiff THEN "InFavor" ELSE "Against" IN
  [a \in Accounts |->
     CASE a \notin arbitratorList \/ votes[d][a] \in {"None", "Abstain"} -> reputation[a]
       [] a \in arbitratorList /\ votes[d][a] = winning -> Raised(reputation[a])
       [] OTHER -> Lowered(reputation[a])]

Expire(d) ==
  /\ CanResolve(d) /\ VotingEnded(d)
  /\ Decisive(d) < minArbitrators
  /\ Pay(d, dispute[d].plaintiff)
  /\ dispute' = [dispute EXCEPT ![d].status = "Expired"]
  /\ UNCHANGED <<votes, arbitratorList, reputation, minArbitrators, withdrawn, changes>>

Resolve(d) ==
  /\ CanResolve(d) /\ VotingEnded(d)
  /\ Decisive(d) >= minArbitrators
  /\ LET o == Outcome(dispute[d]) IN
       /\ Pay(d, o.payee)
       /\ dispute' = [dispute EXCEPT ![d].status = o.status, ![d].winner = o.winner]
       /\ reputation' = NewReputation(d, o.winner)
  /\ UNCHANGED <<votes, arbitratorList, minArbitrators, withdrawn, changes>>

----------------------------------------------------------------------------
(* The owner.                                                              *)

(* A call by the owner; the owner may make as many as it likes.            *)
OwnerCall == changes < MaxChanges /\ changes' = changes + 1

(* Registering again starts from the initial reputation.                   *)
registerArbitrator(a) ==
  /\ OwnerCall
  /\ a \notin arbitratorList
  /\ arbitratorList' = arbitratorList \cup {a}
  /\ reputation' = [reputation EXCEPT ![a] = InitialReputation]
  /\ UNCHANGED <<dispute, votes, minArbitrators, balance, paid, withdrawn>>

removeArbitrator(a) ==
  /\ OwnerCall
  /\ a \in arbitratorList
  /\ arbitratorList' = arbitratorList \ {a}
  /\ UNCHANGED <<dispute, votes, reputation, minArbitrators, balance, paid, withdrawn>>

setMinArbitrators(n) ==
  /\ OwnerCall
  /\ minArbitrators' = n
  /\ UNCHANGED <<dispute, votes, arbitratorList, reputation, balance, paid, withdrawn>>

(* To an owner that takes the transfer.                                    *)
emergencyWithdraw ==
  /\ OwnerCall
  /\ balance' = 0 /\ withdrawn' = TRUE
  /\ UNCHANGED <<dispute, votes, arbitratorList, reputation, minArbitrators, paid>>

----------------------------------------------------------------------------
ArbitrationNext ==
  \/ \E d \in Disputes, exists \in BOOLEAN, p, q \in Parties, s \in Stakes : createDispute(d, exists, p, q, s)
  \/ \E d \in Disputes : startVoting(d) \/ Deadline(d) \/ Expire(d) \/ Resolve(d)
  \/ \E d \in Disputes, a \in Accounts, r \in {"InFavor", "Against", "Abstain"} : vote(d, a, r)
  \/ \E a \in Accounts : registerArbitrator(a) \/ removeArbitrator(a)
  \/ \E n \in Minimums : setMinArbitrators(n)
  \/ emergencyWithdraw

ArbitrationSpec == ArbitrationInit /\ [][ArbitrationNext]_arbitrationVars

----------------------------------------------------------------------------
Closed == {"Resolved", "Rejected", "Expired"}
Running == {"Pending", "Voting"}

DisputeType ==
  [status : {"None"} \cup Running \cup Closed, plaintiff : Accounts, defendant : Accounts,
   stake : Nat, open : BOOLEAN, votesInFavor : Nat, votesAgainst : Nat, votesAbstain : Nat,
   winner : Accounts \cup {Nobody}]

(* Every variable keeps its type, and a reputation its range, whatever the *)
(* votes and however often an arbitrator is registered                     *)
(* (AITraceArbitration.sol:428).                                           *)
ArbitrationTypeOK ==
  /\ dispute \in [Disputes -> DisputeType]
  /\ votes \in [Disputes -> [Accounts -> {"None", "InFavor", "Against", "Abstain"}]]
  /\ arbitratorList \subseteq Accounts
  /\ reputation \in [Accounts -> 0 .. 204]
  /\ minArbitrators \in Nat /\ balance \in Nat
  /\ paid \in [Disputes -> [Accounts -> Nat]]
  /\ withdrawn \in BOOLEAN
  /\ changes \in Nat

Voters(d, result) == {a \in Accounts : votes[d][a] = result}

(* The defendant, if more accounts voted against the claim than for it and *)
(* enough of them; else the plaintiff.                                     *)
Entitled(d) ==
  IF dispute[d].status # "Expired" /\ Cardinality(Voters(d, "Against")) > Cardinality(Voters(d, "InFavor"))
    THEN dispute[d].defendant ELSE dispute[d].plaintiff

(* A stake is paid out once, when its dispute closes, to the party that    *)
(* the accounts who voted gave it to, and to nobody else or at any other   *)
(* time, by whatever calls of resolveDispute (AITraceArbitration.sol:310). *)
StakePaidOnce ==
  \A d \in Disputes, a \in Accounts :
    paid[d][a] = IF dispute[d].status \in Closed /\ a = Entitled(d) THEN dispute[d].stake ELSE 0

(* The counters of a dispute count accounts, each once, through removals   *)
(* and new registrations while the vote is on, and neither party of it has *)
(* voted (AITraceArbitration.sol:280, 293).                                *)
VotesCountAccounts ==
  \A d \in Disputes :
    /\ dispute[d].votesInFavor = Cardinality(Voters(d, "InFavor"))
    /\ dispute[d].votesAgainst = Cardinality(Voters(d, "Against"))
    /\ dispute[d].votesAbstain = Cardinality(Voters(d, "Abstain"))
    /\ votes[d][dispute[d].plaintiff] = "None" /\ votes[d][dispute[d].defendant] = "None"

(* Until the owner withdraws it, the contract holds the stakes of the      *)
(* disputes that are not closed, so that every one of them can be paid     *)
(* (AITraceArbitration.sol:539).                                           *)
StakesAreHeld ==
  ~withdrawn => balance = MapThenSumSet(LAMBDA d : dispute[d].stake,
                                        {d \in Disputes : dispute[d].status \in Running})

(* The three together: the money of disputes and the numbers that decide   *)
(* whose it is (AITraceArbitration.sol:322-350).                           *)
StakesArePaidOnce == ArbitrationTypeOK /\ StakePaidOnce /\ StakesAreHeld
=============================================================================
