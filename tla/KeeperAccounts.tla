--------------------------- MODULE KeeperAccounts ---------------------------
(***************************************************************************)
(* How the replicas of the keeper hand out signer and observer keys and    *)
(* open accounts (keeper/store/key.go, and the account handlers of         *)
(* keeper/bitcoin.go; those of keeper/ethereum.go choose keys the same     *)
(* way).                                                                   *)
(*                                                                         *)
(* All replicas execute one log of requests, each at its own pace.  A      *)
(* request that proposes an account commits twice: the pair of keys is     *)
(* bound to the holder in a transaction of its own, then the proposal is   *)
(* written.  What a replica keeps between the two is only what the store   *)
(* holds, so a replica that restarts there repeats the request and finds   *)
(* the pair: AssignKeys and WriteProposal are two steps with any delay in  *)
(* between.                                                                *)
(*                                                                         *)
(* Two things that decide a proposal are not in the log.  Spare keys are   *)
(* old enough when they were created SafeKeyBackupMaturity before the      *)
(* clock of the replica, read when the request is executed.  And a         *)
(* proposal that names its recovery key is refused when the Mixin API does *)
(* not tell the replica, whenever it executes the request, that every      *)
(* receiver has a safe.                                                    *)
(* Keys are numbers because the store breaks ties by public key.           *)
(***************************************************************************)
EXTENDS Naturals, Sequences, FiniteSets

CONSTANTS
    Replicas,
    Holders,
    Proposals,      \* ids of the requests that propose an account
    HolderOf,       \* [Proposals -> Holders]
    HolderKeys,     \* subset of [Holders -> Nat]: the public keys holders may be
    Timelock,       \* [Proposals -> Nat]: with the pair, decides the address
    Pref,           \* [Proposals -> CustomKeys \cup {0}], the observer wanted
    SignerKeys, ObserverKeys, CustomKeys,   \* disjoint sets of numbers
    Maturity,       \* SafeKeyBackupMaturity in ticks
    Terms, Funds,   \* what payments and group balances are like
    MaxTime, MaxLag, MaxPending, MaxDenied  \* bounds

Keys == SignerKeys \cup ObserverKeys \cup CustomKeys

ASSUME ConstantsAssumption ==
    /\ Keys \subseteq Nat \ {0}
    /\ HolderOf \in [Proposals -> Holders]
    /\ HolderKeys \subseteq [Holders -> Nat]
    /\ Timelock \in [Proposals -> Nat]
    /\ Pref \in [Proposals -> CustomKeys \cup {0}]
    /\ Terms \subseteq {"no plan", "bad", "good"} /\ Funds \subseteq BOOLEAN
    /\ {Maturity, MaxTime, MaxLag, MaxPending, MaxDenied} \subseteq Nat

VARIABLES
    holderKey,  \* holderKey[h]: the public key that the holder h is
    now,        \* the time
    log,        \* the log from the first request some replica has not executed;
                \* seen: the keys of age when a replica last looked for keys for it
    pos,        \* pos[r]: how many requests of log replica r has executed
    addedAt,    \* addedAt[k]: time of the first request that adds k, 0 if none
    proposed,   \* proposals that are or were in the log
    key,        \* key[r][k]: row of the keys table, at = 0 when there is none
    proposal,   \* proposal[r][p]: row of safe_proposals
    safe,       \* safe[r][h]: proposal the safe of the holder comes from
    state,      \* state[r][p]: what became of the request p
    bound,      \* bound[r]: r has bound a pair for the request it executes
    ripened,    \* two replicas looked for keys for one proposal and a key came
                \* of age in between
    denied,     \* denied[r][p]: the API refused the receivers of p, if it did
    halted      \* halted[r]: the assertion that stopped r

vars == <<holderKey, now, log, pos, addedAt, proposed, key, proposal, safe, state, bound, ripened, denied,
          halted>>

NoHolder == "nobody"
NoRow == [signer |-> 0, observer |-> 0]
NoSafe == "none"
NoLook == {0}

Requests ==
    [kind : {"key"}, key : Keys]
      \cup [kind : {"propose"}, id : Proposals, terms : Terms, funded : Funds]
      \cup [kind : {"approve"}, id : Proposals, funded : Funds]

Init ==
    /\ holderKey \in HolderKeys
    /\ now = 1
    /\ log = << >>
    /\ pos = [r \in Replicas |-> 0]
    /\ addedAt = [k \in Keys |-> 0]
    /\ proposed = {}
    /\ key = [r \in Replicas |-> [k \in Keys |-> [at |-> 0, holder |-> NoHolder]]]
    /\ proposal = [r \in Replicas |-> [p \in Proposals |-> NoRow]]
    /\ safe = [r \in Replicas |-> [h \in Holders |-> NoSafe]]
    /\ state = [r \in Replicas |-> [p \in Proposals |-> "none"]]
    /\ bound = [r \in Replicas |-> FALSE]
    /\ ripened = FALSE
    /\ denied = [r \in Replicas |-> [p \in Proposals |-> "no"]]
    /\ halted = [r \in Replicas |-> "no"]

------------------------------------------------------------------------------
(* The group and the clock.                                                 *)

\* A request enters the log.  A proposal has an id of its own and enters once;
\* keys and approvals may be sent again.  Whether the outputs of the group
\* cover the storage and the response (funded) is a fact of the log, the same
\* on every replica, and so is what the payment is worth under the plan (terms).
Submit(q) ==
    /\ Len(log) < MaxPending
    /\ log' = Append(log, [req |-> q, at |-> now, seen |-> NoLook])
    /\ \/ /\ q.kind = "key"
          /\ addedAt' = IF addedAt[q.key] = 0 THEN [addedAt EXCEPT ![q.key] = now] ELSE addedAt
          /\ UNCHANGED proposed
       \/ /\ q.kind = "propose" /\ q.id \notin proposed
          /\ proposed' = proposed \cup {q.id}
          /\ UNCHANGED addedAt
       \/ /\ q.kind = "approve"
          /\ UNCHANGED <<addedAt, proposed>>
    /\ UNCHANGED <<now, pos, key, proposal, safe, state, bound, ripened, denied, halted>>

\* Time passes; MaxLag bounds how far a replica that runs is behind.
Tick ==
    /\ now < MaxTime
    /\ \A r \in Replicas :
         halted[r] = "no" /\ pos[r] < Len(log) => now - log[pos[r] + 1].at < MaxLag
    /\ now' = now + 1
    /\ UNCHANGED <<log, pos, addedAt, proposed, key, proposal, safe, state, bound, ripened, denied,
                   halted>>

------------------------------------------------------------------------------
(* The keys table.                                                          *)

\* The request replica r executes next.
Current(r, kind) ==
    /\ halted[r] = "no"
    /\ pos[r] < Len(log)
    /\ log[pos[r] + 1].req.kind = kind

Req(r) == log[pos[r] + 1].req

\* Every handler ends by marking the request done or failed.  The log forgets a
\* request that all replicas have executed; entries is the log otherwise.
FinishLog(r, entries) ==
    LET ahead == [pos EXCEPT ![r] = @ + 1]
        last == \A s \in Replicas : ahead[s] > 0
    IN /\ pos' = IF last THEN [s \in Replicas |-> ahead[s] - 1] ELSE ahead
       /\ log' = IF last THEN Tail(entries) ELSE entries
       /\ bound' = [bound EXCEPT ![r] = FALSE]
       /\ UNCHANGED <<now, addedAt, proposed>>

Finish(r) == FinishLog(r, log)

\* slip: the row is stamped with the clock of the replica
CreatedAtByClock(r) == now

\* created_at of a key is the time of the request that added it.
CreatedAt(r) == log[pos[r] + 1].at

\* processKeyAdd: a key that is already there fails the request.  So does one
\* that is malformed, on every replica alike: it is as if it were never sent.
AddKey(r) ==
    /\ Current(r, "key")
    /\ key' = IF key[r][Req(r).key].at # 0 THEN key
              ELSE [key EXCEPT ![r][Req(r).key].at = CreatedAt(r)]
    /\ Finish(r)
    /\ UNCHANGED <<proposal, safe, state, ripened, denied, halted>>

\* The keys of a role that the holder has.
Owned(r, h, role) == {k \in role : key[r][k].holder = h}

\* Rows with no holder and no flag that were created before the clock of the
\* replica less the maturity.
Ripe(r, role) ==
    {k \in role : /\ key[r][k].at # 0
                  /\ key[r][k].holder = NoHolder
                  /\ key[r][k].at + Maturity < now}

\* ORDER BY created_at ASC, public_key ASC LIMIT 1; 0 when there is no row.
Oldest(r, role) ==
    IF Ripe(r, role) = {} THEN 0
    ELSE CHOOSE k \in Ripe(r, role) : \A j \in Ripe(r, role) :
           \/ key[r][k].at < key[r][j].at
           \/ key[r][k].at = key[r][j].at /\ k <= j

\* A preferred observer key is the custom key with that public key, however
\* new it is, or nothing.
PickObserver(r, pref) ==
    CASE pref = 0 -> Oldest(r, ObserverKeys)
      [] key[r][pref].at # 0 /\ key[r][pref].holder = NoHolder -> pref
      [] OTHER -> 0

PairFound(s, o) == s # 0 /\ o # 0

------------------------------------------------------------------------------
(* Proposing and approving an account.                                      *)

\* What stops a proposal before keys are looked for: no plan, terms that do not
\* meet it, or a safe of the holder.
Refused(r) == Req(r).terms # "good" \/ safe[r][HolderOf[Req(r).id]] # NoSafe

\* ParseMixinRecipient fails: the API did not answer, or did not vouch for every
\* receiver.  It is asked only for a proposal that names its recovery key, each
\* time the request is executed, so also after a restart between the commits.
RejectReceivers(r) ==
    /\ Current(r, "propose")
    /\ LET p == Req(r).id
       IN /\ Pref[p] # 0
          /\ Cardinality({q \in Proposals : denied[r][q] # "no"}) < MaxDenied
          /\ denied' = [denied EXCEPT ![r][p] =
                          IF bound[r] THEN "after keys" ELSE "before keys"]
          /\ state' = [state EXCEPT ![r][p] = "failed"]
    /\ Finish(r)
    /\ UNCHANGED <<key, proposal, safe, ripened, halted>>

\* Without a plan the payment goes back; a proposal refused otherwise keeps it.
RefuseProposal(r) ==
    /\ Current(r, "propose")
    /\ Refused(r)
    /\ state' = [state EXCEPT ![r][Req(r).id] =
                   IF Req(r).terms = "no plan" THEN "refunded" ELSE "failed"]
    /\ Finish(r)
    /\ UNCHANGED <<key, proposal, safe, ripened, denied, halted>>

HasPair(r, h) ==
    Owned(r, h, SignerKeys) # {} /\ Owned(r, h, ObserverKeys \cup CustomKeys) # {}

\* The spare keys in the log that are of age by the clock of a replica.
OfAge == {k \in SignerKeys \cup ObserverKeys : addedAt[k] # 0 /\ addedAt[k] + Maturity < now}

\* AssignSignerAndObserverToHolder when the holder has no keys yet (its panic on
\* half a pair is what AccountsFollowKeys rules out).  Without a spare signer or
\* observer the payment goes back; otherwise both rows are bound at once.
AssignKeys(r) ==
    /\ Current(r, "propose")
    /\ ~Refused(r)
    /\ LET p == Req(r).id
           h == HolderOf[p]
           s == Oldest(r, SignerKeys)
           o == PickObserver(r, Pref[p])
           looked == [log EXCEPT ![pos[r] + 1].seen = OfAge]
       IN /\ Owned(r, h, Keys) = {}
          /\ ripened' = (ripened \/ log[pos[r] + 1].seen \notin {NoLook, OfAge})
          /\ \/ /\ ~PairFound(s, o)
                /\ state' = [state EXCEPT ![r][p] = "refunded"]
                /\ FinishLog(r, looked)
                /\ UNCHANGED key
             \/ /\ PairFound(s, o)
                /\ key' = [key EXCEPT ![r] = [k \in Keys |->
                             IF k \in {s, o} THEN [@[k] EXCEPT !.holder = h] ELSE @[k]]]
                /\ bound' = [bound EXCEPT ![r] = TRUE]
                /\ log' = looked
                /\ UNCHANGED <<now, pos, addedAt, proposed, state>>
    /\ UNCHANGED <<proposal, safe, denied, halted>>

\* The pair of a holder that has one.
Pair(r, h) ==
    [signer |-> CHOOSE k \in Owned(r, h, SignerKeys) : TRUE,
     observer |-> CHOOSE k \in Owned(r, h, ObserverKeys \cup CustomKeys) : TRUE]

\* The address follows from the holder, the pair and the timelock.
Address(p, pair) == <<HolderOf[p], pair, Timelock[p]>>

\* ReadSafeProposalByAddress finds nothing.
Fresh(r, p, pair) ==
    \A q \in Proposals :
        proposal[r][q] # NoRow => Address(q, proposal[r][q]) # Address(p, pair)

\* slip: the wish is not compared with the key that was found
PrefMissIgnored(p, pair) == FALSE

\* The key the holder has is not the one this proposal wants.
PrefMiss(p, pair) == Pref[p] # 0 /\ Pref[p] # pair.observer

\* CheckUnique: the holder is neither of the keys that it was given.
Unique(h, pair) == holderKey[h] \notin {pair.signer, pair.observer}

\* What becomes of a proposal whose holder has a pair.  A payment goes back when
\* the keys are not unique or the storage is not funded; the pair stays bound.
Outcome(r, p, pair) ==
    CASE ~Unique(HolderOf[p], pair) -> "refunded"
      [] Unique(HolderOf[p], pair) /\ ~Fresh(r, p, pair) -> "failed"
      [] OTHER -> IF Req(r).funded THEN "proposed" ELSE "refunded"

\* The rest of processBitcoinSafeProposeAccount, once the holder has a pair,
\* bound for this request or by an earlier one.
WriteProposal(r) ==
    /\ Current(r, "propose")
    /\ ~Refused(r)
    /\ LET p == Req(r).id
           pair == Pair(r, HolderOf[p])
           result == Outcome(r, p, pair)
       IN /\ HasPair(r, HolderOf[p])
          /\ \/ /\ PrefMiss(p, pair)
                /\ halted' = [halted EXCEPT ![r] = "another observer"]
                /\ UNCHANGED <<now, log, pos, addedAt, proposed, proposal, state, bound>>
             \/ /\ ~PrefMiss(p, pair)
                /\ proposal' = IF result # "proposed" THEN proposal
                               ELSE [proposal EXCEPT ![r][p] = pair]
                /\ state' = [state EXCEPT ![r][p] = result]
                /\ Finish(r)
                /\ UNCHANGED halted
    /\ UNCHANGED <<key, safe, ripened, denied>>

\* The holder has no safe, and the proposal exists.
Approvable(r, p) == safe[r][HolderOf[p]] = NoSafe /\ proposal[r][p] # NoRow

\* processBitcoinSafeApproveAccount, with the signature of the holder.
ApproveAccount(r) ==
    /\ Current(r, "approve")
    /\ LET p == Req(r).id
       IN safe' = IF Approvable(r, p) /\ Req(r).funded
                  THEN [safe EXCEPT ![r][HolderOf[p]] = p] ELSE safe
    /\ Finish(r)
    /\ UNCHANGED <<key, proposal, state, ripened, denied, halted>>

------------------------------------------------------------------------------
Execute(r) ==
    \/ AddKey(r) \/ RefuseProposal(r) \/ RejectReceivers(r)
    \/ AssignKeys(r) \/ WriteProposal(r) \/ ApproveAccount(r)

Next ==
    /\ \/ \E q \in Requests : Submit(q)
       \/ Tick
       \/ \E r \in Replicas : Execute(r)
    /\ UNCHANGED holderKey

Spec == Init /\ [][Next]_vars

------------------------------------------------------------------------------
(* Properties.                                                              *)

\* The tables hold what their columns allow.
TypeOK ==
    /\ holderKey \in HolderKeys
    /\ now \in 1..MaxTime
    /\ pos \in [Replicas -> 0..Len(log)]
    /\ key \in [Replicas -> [Keys -> [at : 0..MaxTime, holder : Holders \cup {NoHolder}]]]
    /\ proposal \in [Replicas -> [Proposals ->
         {NoRow} \cup [signer : SignerKeys, observer : ObserverKeys \cup CustomKeys]]]
    /\ safe \in [Replicas -> [Holders -> Proposals \cup {NoSafe}]]
    /\ state \in [Replicas -> [Proposals -> {"none", "failed", "refunded", "proposed"}]]
    /\ bound \in [Replicas -> BOOLEAN]
    /\ ripened \in BOOLEAN
    /\ denied \in [Replicas -> [Proposals -> {"no", "before keys", "after keys"}]]
    /\ halted \in [Replicas -> {"no", "another observer"}]

\* A holder has a pair of keys or none, wherever a replica stopped between the
\* two commits.  Every proposal and every safe is held by keys that the keeper
\* gave to its holder, with the observer key the proposal asked for when it
\* asked for one, its three keys differ, and two proposals never share an
\* address.
AccountsFollowKeys ==
    \A r \in Replicas :
        /\ \A h \in Holders :
             /\ Cardinality(Owned(r, h, SignerKeys)) <= 1
             /\ Cardinality(Owned(r, h, SignerKeys))
                  = Cardinality(Owned(r, h, ObserverKeys \cup CustomKeys))
        /\ \A p \in Proposals : proposal[r][p] # NoRow =>
             /\ key[r][proposal[r][p].signer].holder = HolderOf[p]
             /\ key[r][proposal[r][p].observer].holder = HolderOf[p]
             /\ Pref[p] # 0 => proposal[r][p].observer = Pref[p]
             /\ \A q \in Proposals \ {p} : proposal[r][q] # NoRow =>
                  Address(p, proposal[r][p]) # Address(q, proposal[r][q])
             /\ Unique(HolderOf[p], proposal[r][p])
        /\ \A h \in Holders : safe[r][h] # NoSafe =>
             HolderOf[safe[r][h]] = h /\ proposal[r][safe[r][h]] # NoRow

\* The API gave r and s the same answers about the receivers of every proposal,
\* and at the same point of the request.
SameAnswers(r, s) == denied[r] = denied[s]

\* Two replicas that have executed the same requests hold the same keys,
\* proposals and safes and refunded the same payments, unless a key came of age
\* between their executions of one proposal, or the Mixin API told them
\* different things of its receivers: the clock that readKeyWithRoleAndCurve
\* reads and the API that ParseMixinRecipient asks are all that a proposal
\* depends on beside the log.
AgreeOnClockAndApi ==
    \A r, s \in Replicas :
        /\ pos[r] = pos[s] /\ ~bound[r] /\ ~bound[s]
        /\ ~ripened
        /\ SameAnswers(r, s)
        => /\ key[r] = key[s] /\ proposal[r] = proposal[s]
           /\ safe[r] = safe[s] /\ state[r] = state[s]

\* No replica stops at an assertion: the check after the keys were assigned
\* that the observer key is the one the proposal named.
NeverHalts == \A r \in Replicas : halted[r] = "no"

=============================================================================
