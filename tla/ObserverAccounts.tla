-------------------------- MODULE ObserverAccounts --------------------------
(***************************************************************************)
(* How the observer leads an account from the proposal to its deployment   *)
(* (observer/holder.go, observer/node.go, observer/store.go), with the     *)
(* keeper's two account handlers and the operation price.                  *)
(*                                                                         *)
(*   the keeper answers a proposal -> row of the accounts table            *)
(*   the holder signs at the HTTP server -> signature                      *)
(*   sendAccountApprovals asks the keeper, again every 30 minutes          *)
(*   the keeper answers the approval with the price paid -> deployed       *)
(*                                                                         *)
(* Three activities of the observer interleave: the snapshot reader, the   *)
(* HTTP server and the approval loop, which works through a list it read   *)
(* before.  A crash stops all three between any two writes; the start that *)
(* follows sends the price of the configuration.  A request is a transfer  *)
(* whose trace is the request id: an id counts once.                       *)
(*                                                                         *)
(* The answer to an approval is compared with the price that was in force  *)
(* when its snapshot was created, among the prices that the keeper has     *)
(* executed when the observer reads it.                                    *)
(***************************************************************************)
EXTENDS Naturals, Sequences, FiniteSets, SequencesExt

CONSTANTS
    Accounts,       \* numbers, in the order in which the rows are written
    Holders,
    Owners,         \* subset of [Accounts -> Holders]
    Prices,         \* operation prices the operator configures: asset and amount
    FirstPrice,     \* the one of the first start
    ListLimit,      \* rows of ListProposedAccountsWithSig (100)
    ResendWait,     \* ticks of the 30 minutes between two approval requests
    MaxUnfunded, MaxRestarts, MaxQueue      \* bounds

ASSUME ConstantsAssumption ==
    /\ Accounts \subseteq Nat \ {0}
    /\ Owners \subseteq [Accounts -> Holders]
    /\ FirstPrice \in Prices /\ \A v \in Prices : v.amount \in Nat \ {0}
    /\ {ListLimit, ResendWait} \subseteq Nat \ {0}
    /\ {MaxUnfunded, MaxRestarts, MaxQueue} \subseteq Nat

VARIABLES
    holderOf,   \* holderOf[a]: the holder of the account
    conf,       \* price in the configuration of the observer
    priceIds,   \* prices whose request id was used
    returned,   \* history: a price was configured again after another
    prices,     \* price requests, in order
    done,       \* how many of them the keeper has executed
    paid,       \* paid[a]: price paid with the proposal in the keeper
    safe,       \* safe[h]: account of the holder's safe
    queue,      \* queue[a]: approval requests the keeper has not executed
    responses,  \* answers of the keeper after the snapshot checkpoint
    refused,    \* history: accounts whose answer was passed over for its price
    rows,       \* the accounts table, oldest first
    signed, deployed,           \* accounts whose row has the column
    age,        \* age[a]: ticks since approved_at, ResendWait before and after
    fresh,      \* fresh[a]: no request used the id the row now gives
    quiet,      \* quiet[a]: ticks since a request with a new id, up to ResendWait
    bond,       \* bond[h]: the bond asset of the holder
    list,       \* accounts the approval loop has still to look at
    marking,    \* the account it asked for and has not marked, in a set
    unfunded, restarts \* bounded counters

vars == <<holderOf, conf, priceIds, returned, prices, done, paid, safe, queue, responses, refused, rows,
          signed, deployed, age, fresh, quiet, bond, list, marking, unfunded, restarts>>

priceVars == <<holderOf, conf, priceIds, returned, prices, done>>
keeperVars == <<paid, safe, queue>>
rowVars == <<rows, signed, deployed, age, fresh, refused>>
loopVars == <<list, marking>>
bounds == <<unfunded, restarts>>

NoSafe == 0

NoPrice == [asset |-> "none", amount |-> 0]

\* An answer; at: the price requests there were when its snapshot was created,
\* 0 before that.
Response(kind, a, at) == [kind |-> kind, account |-> a, at |-> at]

\* ReadLatestOperationParams for a moment at which there were n price requests.
ParamsAt(n) ==
    LET last == IF n < done THEN n ELSE done
    IN IF last = 0 THEN NoPrice ELSE prices[last]

\* What was paid is in the asset of the price and not below it.
Meets(payment, price) == payment.asset = price.asset /\ payment.amount >= price.amount

Init ==
    /\ holderOf \in Owners
    /\ conf = FirstPrice
    /\ priceIds = {conf} /\ returned = FALSE /\ prices = <<conf>> /\ done = 0
    /\ paid = [a \in Accounts |-> NoPrice]
    /\ safe = [h \in Holders |-> NoSafe]
    /\ queue = [a \in Accounts |-> 0]
    /\ responses = {} /\ refused = {} /\ rows = << >> /\ signed = {} /\ deployed = {}
    /\ age = [a \in Accounts |-> ResendWait]
    /\ fresh = [a \in Accounts |-> TRUE]
    /\ quiet = [a \in Accounts |-> ResendWait]
    /\ bond = [h \in Holders |-> "none"]
    /\ list = << >> /\ marking = {}
    /\ unfunded = 0 /\ restarts = 0

------------------------------------------------------------------------------
(* The operation price.                                                     *)

\* slip: the amount is left out of the id
PriceIdNewWithoutAmount(v) == v.asset \notin {w.asset : w \in priceIds}

\* The id is a hash of the configured values, the asset and the amount.
PriceIdNew(v) == v \notin priceIds

\* The observer starts again, after a crash or with another price; Boot sends
\* the price of the configuration.
Restart(v) ==
    /\ restarts < MaxRestarts
    /\ restarts' = restarts + 1
    /\ conf' = v
    /\ priceIds' = priceIds \cup {v}
    /\ returned' = (returned \/ v \in priceIds \ {conf})
    /\ prices' = IF PriceIdNew(v) THEN Append(prices, v) ELSE prices
    /\ list' = << >> /\ marking' = {}
    /\ UNCHANGED <<holderOf, done, keeperVars, responses, rowVars, quiet, bond, unfunded>>

WriteOperationParams ==
    /\ done < Len(prices)
    /\ done' = done + 1
    /\ UNCHANGED <<holderOf, conf, priceIds, returned, prices, keeperVars, responses, rowVars, quiet,
                   bond, loopVars, bounds>>

------------------------------------------------------------------------------
(* The keeper.                                                              *)

\* An account is proposed with a payment of the price; the answer to it is in
\* the asset of the observer and does not depend on the price.
Propose(a) ==
    /\ done > 0
    /\ paid[a] = NoPrice
    /\ safe[holderOf[a]] = NoSafe
    /\ paid' = [paid EXCEPT ![a] = ParamsAt(done)]
    /\ responses' = responses \cup {Response("proposed", a, 0)}
    /\ UNCHANGED <<priceVars, safe, queue, rowVars, quiet, bond, loopVars, bounds>>

\* The holder has no safe.
Approvable(a) == safe[holderOf[a]] = NoSafe

\* An approval request is executed: the answer will carry what the proposal paid.
KeeperApprove(a) ==
    /\ queue[a] > 0
    /\ queue' = [queue EXCEPT ![a] = @ - 1]
    /\ \/ /\ Approvable(a)
          /\ safe' = [safe EXCEPT ![holderOf[a]] = a]
          /\ responses' = responses \cup {Response("approved", a, 0)}
          /\ UNCHANGED unfunded
       \/ /\ Approvable(a)
          /\ unfunded < MaxUnfunded
          /\ unfunded' = unfunded + 1
          /\ UNCHANGED <<safe, responses>>
       \/ /\ ~Approvable(a)
          /\ UNCHANGED <<safe, responses, unfunded>>
    /\ UNCHANGED <<priceVars, paid, rowVars, quiet, bond, loopVars, restarts>>

\* The group has signed the transfer of the answer, and its snapshot is created.
CreateSnapshot(a) ==
    /\ Response("approved", a, 0) \in responses
    /\ responses' = (responses \ {Response("approved", a, 0)})
                      \cup {Response("approved", a, Len(prices))}
    /\ UNCHANGED <<priceVars, keeperVars, rowVars, quiet, bond, loopVars, bounds>>

------------------------------------------------------------------------------
(* The snapshot reader.                                                     *)

\* checkOrDeployKeeperBond: there is one, or it is deployed now.
DeployBond(h) == bond' = [bond EXCEPT ![h] = IF @ = "none" THEN "deploying" ELSE @]

BondArrives(h) ==
    /\ bond[h] = "deploying"
    /\ bond' = [bond EXCEPT ![h] = "bonded"]
    /\ UNCHANGED <<priceVars, keeperVars, responses, rowVars, quiet, loopVars, bounds>>

\* A snapshot is behind the checkpoint once it was handled, unless the observer
\* restarts before the checkpoint is written.
Read(r, restarted) == responses' = IF restarted THEN responses ELSE responses \ {r}

\* WriteAccountProposalIfNotExists.
RowsWith(a) == IF a \in Range(rows) THEN rows ELSE Append(rows, a)

\* keeperSaveAccountProposal.
SaveAccountProposal(a, restarted) ==
    /\ \A b \in Accounts : b < a => b \in Range(rows)
    /\ Response("proposed", a, 0) \in responses
    /\ Read(Response("proposed", a, 0), restarted)
    /\ DeployBond(holderOf[a])
    /\ rows' = RowsWith(a)
    /\ UNCHANGED <<priceVars, keeperVars, signed, deployed, age, fresh, refused, quiet, loopVars,
                   bounds>>

\* deployed_at is set once.
MarkDeployed(a) == deployed' = deployed \cup {a}

\* deployBitcoinSafeBond and deployEthereumGnosisSafeAccount, for an answer that
\* meets the price; another answer is passed over.
DeployAccount(a, restarted) ==
    \E n \in 1..Len(prices) :
        /\ Response("approved", a, n) \in responses
        /\ Read(Response("approved", a, n), restarted)
        /\ \/ /\ Meets(paid[a], ParamsAt(n))
              /\ safe[holderOf[a]] = a
              /\ DeployBond(holderOf[a])
              /\ MarkDeployed(a)
              /\ UNCHANGED refused
           \/ /\ ~Meets(paid[a], ParamsAt(n))
              /\ refused' = IF restarted THEN refused ELSE refused \cup {a}
              /\ UNCHANGED <<bond, deployed>>
        /\ UNCHANGED <<priceVars, keeperVars, rows, signed, age, fresh, quiet, loopVars, bounds>>

------------------------------------------------------------------------------
(* The HTTP server.                                                         *)

\* The observer has a row for the proposal.
Proposed(a) == a \in Range(rows)

\* The keeper has no approved safe with this address.
Unapproved(a) == safe[holderOf[a]] # a

\* SaveAccountApprovalSignature: the first signature stays.
SaveSignature(a) == a \notin signed /\ signed' = signed \cup {a}

\* httpApproveSafeAccount with a signature of the holder that verifies.
ApproveSafeAccount(a) ==
    /\ Proposed(a)
    /\ Unapproved(a)
    /\ SaveSignature(a)
    /\ UNCHANGED <<priceVars, keeperVars, responses, rows, deployed, age, fresh, refused, quiet,
                   bond, loopVars, bounds>>

------------------------------------------------------------------------------
(* The approval loop.                                                       *)

Wait(t) == IF t < ResendWait THEN t + 1 ELSE t

\* Time passes; MaxQueue bounds what the keeper leaves undone.
Tick ==
    /\ \A a \in Accounts : queue[a] <= MaxQueue
    /\ age' = [a \in Accounts |-> Wait(age[a])]
    /\ quiet' = [a \in Accounts |-> Wait(quiet[a])]
    /\ <<age', quiet'>> # <<age, quiet>>
    /\ UNCHANGED <<priceVars, keeperVars, responses, rows, signed, deployed, fresh, refused, bond,
                   loopVars, bounds>>

Listed(a) == a \in signed \ deployed

\* ListProposedAccountsWithSig: the oldest rows with a signature and without a
\* deployment.
ListAccounts ==
    /\ list = << >> /\ marking = {}
    /\ LET found == SelectSeq(rows, Listed)
       IN list' = SubSeq(found, 1, IF Len(found) < ListLimit THEN Len(found) ELSE ListLimit)
    /\ list' # << >>
    /\ UNCHANGED <<priceVars, keeperVars, responses, rowVars, quiet, bond, marking, bounds>>

\* slip: the id is made of the time of sending
IdNewByClock(a) == TRUE

\* The id is made of the row: address, signature, and approved_at or created_at.
IdNew(a) == fresh[a]

\* An account of the list that is waiting, or has no bond yet, is passed over;
\* the approval of any other is requested.
SendApproval ==
    /\ list # << >> /\ marking = {}
    /\ list' = Tail(list)
    /\ LET a == Head(list)
           h == holderOf[a]
       IN \/ /\ age[a] < ResendWait
             /\ UNCHANGED <<queue, fresh, quiet, bond, marking>>
          \/ /\ age[a] = ResendWait
             /\ bond[h] # "bonded"
             /\ DeployBond(h)
             /\ UNCHANGED <<queue, fresh, quiet, marking>>
          \/ /\ age[a] = ResendWait
             /\ bond[h] = "bonded"
             /\ queue' = IF IdNew(a) THEN [queue EXCEPT ![a] = @ + 1] ELSE queue
             /\ quiet' = IF IdNew(a) THEN [quiet EXCEPT ![a] = 0] ELSE quiet
             /\ fresh' = [fresh EXCEPT ![a] = FALSE]
             /\ marking' = {a}
             /\ UNCHANGED bond
    /\ UNCHANGED <<priceVars, paid, safe, responses, rows, signed, deployed, age, refused, bounds>>

\* slip: the id stays the one of the first request
FreshOnce(a) == fresh[a]

\* A new approved_at makes a new id.
FreshAgain(a) == TRUE

MarkAccountApproved ==
    /\ \E a \in marking :
         /\ age' = [age EXCEPT ![a] = 0]
         /\ fresh' = [fresh EXCEPT ![a] = FreshAgain(a)]
    /\ marking' = {}
    /\ UNCHANGED <<priceVars, keeperVars, responses, rows, signed, deployed, refused, quiet, bond,
                   list, bounds>>

------------------------------------------------------------------------------
ApprovalLoop == ListAccounts \/ SendApproval \/ MarkAccountApproved

Next ==
    \/ \E v \in Prices : Restart(v)
    \/ WriteOperationParams
    \/ \E a \in Accounts :
         \/ Propose(a) \/ KeeperApprove(a) \/ CreateSnapshot(a) \/ ApproveSafeAccount(a)
         \/ \E restarted \in BOOLEAN : SaveAccountProposal(a, restarted) \/ DeployAccount(a, restarted)
    \/ \E h \in Holders : BondArrives(h)
    \/ Tick
    \/ ApprovalLoop

Spec == Init /\ [][Next]_vars

\* Each of these happens once for a holder or an account, so that fairness of one
\* of them is fairness of all.
Arrival ==
    \/ \E h \in Holders : BondArrives(h)
    \/ \E a \in Accounts : CreateSnapshot(a) \/ DeployAccount(a, FALSE)

\* The keeper executes approval requests, its answers are signed, the snapshot reader passes what it has
\* handled, the approval loop runs, bonds arrive and time passes.  Nobody has to
\* propose or to sign.
FairSpec ==
    /\ Spec
    /\ WF_vars(Tick) /\ WF_vars(ApprovalLoop)
    /\ WF_vars(Arrival)
    /\ \A a \in Accounts : WF_vars(KeeperApprove(a))

------------------------------------------------------------------------------
(* Properties.                                                              *)

\* The tables hold what their columns allow, with one row per account.
TypeOK ==
    /\ holderOf \in Owners
    /\ conf \in priceIds /\ priceIds \subseteq Prices
    /\ prices \in Seq(Prices) /\ done \in 0..Len(prices)
    /\ paid \in [Accounts -> Prices \cup {NoPrice}]
    /\ safe \in [Holders -> Accounts \cup {NoSafe}]
    /\ queue \in [Accounts -> Nat]
    /\ rows \in Seq(Accounts) /\ IsInjective(rows)
    /\ deployed \subseteq Range(rows) /\ signed \subseteq Range(rows)
    /\ refused \subseteq Accounts
    /\ age \in [Accounts -> 0..ResendWait] /\ quiet \in [Accounts -> 0..ResendWait]
    /\ bond \in [Holders -> {"none", "deploying", "bonded"}]
    /\ marking \subseteq Accounts /\ Cardinality(marking) <= 1

\* Two different approval requests for one account are at least ResendWait
\* apart, also when the observer crashes after it sent one and before it wrote
\* approved_at.
RequestsApart == [][\A a \in Accounts : queue'[a] > queue[a] => quiet[a] = ResendWait]_vars

\* A row that is listed for ever: the holder has another safe, or the answer of
\* the keeper was passed over.
Dead(a) ==
    /\ Listed(a)
    /\ a \in refused \/ safe[holderOf[a]] \notin {a, NoSafe}

\* Rows that are listed for ever, and are older, fill the list.
Starved(a) ==
    \E n \in DOMAIN rows :
        rows[n] = a /\ Cardinality({m \in 1..(n - 1) : Dead(rows[m])}) >= ListLimit

\* Every account its holder signed for is deployed in the end, unless another
\* account of the holder became the safe first, the price that was in force when
\* the answer became a snapshot is not one that the proposal paid, or the list is
\* full of older rows that never leave it: after crashes, and after approvals
\* the keeper could not fund.
SignedIsDeployed ==
    \A a \in Accounts :
        a \in signed ~> \/ a \in deployed \/ a \in refused
                        \/ safe[holderOf[a]] \notin {a, NoSafe}
                        \/ Starved(a)

\* When the keeper has executed every price request, its price is the one the
\* observer was last started with, as long as no price was configured again after
\* another: the id of sendPriceInfo is a hash of the values, so that the keeper
\* ignores a price that returns.
PriceIsSet == done = Len(prices) /\ ~returned => ParamsAt(done) = conf

=============================================================================
