---------------------------- MODULE ObserverKeys ----------------------------
(***************************************************************************)
(* How the observer keeps the keeper supplied with keys (observer/key.go): *)
(* one loop per curve asks the signers for a batch of keys when few are    *)
(* spare, and moves recovery keys from a local table to the keeper; the    *)
(* snapshot reader registers the recovery keys that holders pay for.       *)
(*                                                                         *)
(* A request to the keeper is a transfer whose trace is the request id, so *)
(* sending an id twice is sending it once.  The observer may crash between *)
(* any two of its steps; its table, the time of the last key request and   *)
(* the snapshot checkpoint survive.  The keeper executes what was sent in  *)
(* any order, and its accounts use keys up at any time.                    *)
(***************************************************************************)
EXTENDS Naturals, FiniteSets

CONSTANTS
    TableKeys,      \* recovery keys the operator prepares
    Malformed,      \* sets of them that may fail the checks of the keeper
    CustomKeys,     \* recovery keys of holders
    SpareLimit,     \* spare keys of each role the observer aims at (1000)
    Batch,          \* signer keys of one request (16)
    KeygenWait,     \* ticks of the 60 minutes between two requests
    MaxCrashes, MaxUnfunded, MaxImports, MaxOutstanding    \* bounds

Keys == TableKeys \cup CustomKeys

ASSUME ConstantsAssumption ==
    /\ \A ks \in Malformed : ks \subseteq TableKeys
    /\ TableKeys \cap CustomKeys = {}
    /\ SpareLimit \in Nat \ {0} /\ Batch \in Nat \ {0} /\ KeygenWait \in Nat \ {0}
    /\ {MaxCrashes, MaxUnfunded, MaxImports, MaxOutstanding} \subseteq Nat

VARIABLES
    bad,        \* keys of the operator that fail the checks of the keeper
    table,      \* observers table: keys still to be sent
    hand,       \* the key deleted from the table and not yet sent, in a set
    loop,       \* what safeKeyLoop does next
    count,      \* its count of spare observer keys
    sent,       \* keys whose request the keeper has not executed
    key,        \* key[k]: "none", or the row of the keeper: "spare", "held"
    asked,      \* a key request with the id of the current request time was sent
    elapsed,    \* ticks since the request time was written, up to KeygenWait
    quiet,      \* ticks since a key request with a new id, up to KeygenWait
    keygen,     \* key requests the keeper has not executed
    making,     \* signer keys being generated
    signerKeys, \* spare signer keys of the keeper
    paid,       \* custom keys paid for
    unread,     \* payments after the snapshot checkpoint
    imports,    \* imports[k]: how often the operator put k into the table
    crashes, unfunded           \* bounded counters

vars == <<bad, table, hand, loop, count, sent, key, asked, elapsed, quiet, keygen,
          making, signerKeys, paid, unread, crashes, unfunded, imports>>

keyVars == <<table, hand, count, sent, key>>
keygenVars == <<asked, elapsed, quiet, keygen, making, signerKeys>>
customVars == <<paid, unread, bad>>
bounds == <<crashes, unfunded, imports>>

Init ==
    /\ bad \in Malformed
    /\ table = {} /\ hand = {} /\ loop = "keygen" /\ count = 0 /\ sent = {}
    /\ key = [k \in Keys |-> "none"]
    /\ asked = FALSE /\ elapsed = KeygenWait /\ quiet = KeygenWait /\ keygen = 0
    /\ making = 0 /\ signerKeys = 0
    /\ paid = {} /\ unread = {}
    /\ crashes = 0 /\ unfunded = 0 /\ imports = [k \in TableKeys |-> 0]

------------------------------------------------------------------------------
(* The keeper.                                                              *)

\* CountSpareKeys with no flag: the spare keys of the table.
SpareKeys == Cardinality({k \in TableKeys : key[k] = "spare"})

\* sendKeeperResponse with the id of the key; the keeper has no row for it.
Send(k) == sent' = sent \cup {k}

\* processKeyAdd: a key that is there already, or does not derive, fails the
\* request.  The operator's keys are not checked before; a holder's are.
AddKey(k) ==
    /\ k \in sent
    /\ key' = [key EXCEPT ![k] = IF @ = "none" /\ k \notin bad THEN "spare" ELSE @]
    /\ sent' = sent \ {k}
    /\ UNCHANGED <<table, hand, count, loop, keygenVars, customVars, bounds>>

\* An account takes a recovery key.
UseObserverKey(k) ==
    /\ key[k] = "spare"
    /\ key' = [key EXCEPT ![k] = "held"]
    /\ UNCHANGED <<table, hand, count, sent, loop, keygenVars, customVars, bounds>>

\* processSignerKeygenRequests: one keygen operation per key of the batch, or a
\* failed request when the group cannot fund them.
RequestKeygen ==
    /\ keygen > 0
    /\ keygen' = keygen - 1
    /\ \/ /\ making' = making + Batch
          /\ UNCHANGED unfunded
       \/ /\ unfunded < MaxUnfunded
          /\ unfunded' = unfunded + 1
          /\ UNCHANGED making
    /\ UNCHANGED <<keyVars, loop, asked, elapsed, quiet, signerKeys, customVars, crashes, imports>>

\* The signers answer with a new key.
AddSignerKey ==
    /\ making > 0
    /\ making' = making - 1
    /\ signerKeys' = signerKeys + 1
    /\ UNCHANGED <<keyVars, loop, asked, elapsed, quiet, keygen, customVars, bounds>>

UseSignerKey ==
    /\ signerKeys > 0
    /\ signerKeys' = signerKeys - 1
    /\ UNCHANGED <<keyVars, loop, asked, elapsed, quiet, keygen, making, customVars, bounds>>

------------------------------------------------------------------------------
(* The key loop of the observer.                                            *)

Wait(t) == IF t < KeygenWait THEN t + 1 ELSE t

\* Time passes; MaxOutstanding bounds the work the signers leave undone.
Tick ==
    /\ keygen + making <= MaxOutstanding
    /\ elapsed' = Wait(elapsed)
    /\ quiet' = Wait(quiet)
    /\ <<elapsed, quiet>> # <<KeygenWait, KeygenWait>>
    /\ UNCHANGED <<keyVars, loop, asked, keygen, making, signerKeys, customVars, bounds>>

\* Few keys are spare and the last request is old enough.
KeygenDue == signerKeys <= SpareLimit /\ elapsed = KeygenWait

SkipKeygen ==
    /\ loop = "keygen"
    /\ ~KeygenDue
    /\ loop' = "fill"
    /\ count' = SpareKeys
    /\ UNCHANGED <<table, hand, sent, key, keygenVars, customVars, bounds>>

\* slip: the id is made of the time of sending
NewKeygenIdByClock == TRUE

\* The id is made of the written request time: it is new unless it was sent.
NewKeygenId == ~asked

SendKeygen ==
    /\ loop = "keygen"
    /\ KeygenDue
    /\ loop' = "time"
    /\ asked' = TRUE
    /\ keygen' = IF NewKeygenId THEN keygen + 1 ELSE keygen
    /\ quiet' = IF NewKeygenId THEN 0 ELSE quiet
    /\ UNCHANGED <<keyVars, elapsed, making, signerKeys, customVars, bounds>>

\* slip: the time is written only when there is none
AskedForOldTime == asked

\* A new time makes a new id.
AskedForNewTime == FALSE

\* writeSignerKeygenRequestTime; then the spare observer keys are counted.
WriteKeygenTime ==
    /\ loop = "time"
    /\ elapsed' = 0
    /\ asked' = AskedForNewTime
    /\ loop' = "fill"
    /\ count' = SpareKeys
    /\ UNCHANGED <<table, hand, sent, key, quiet, keygen, making, signerKeys, customVars, bounds>>

\* slip: all the keys that are wanted are taken at once
TakesAll(ks) == ks = table

\* ReadObserverKey returns one row.
Takes(ks) == \E k \in table : ks = {k}

\* One turn of safeAddObserverKeys: a row is read and deleted.
DeleteObserverKey ==
    /\ loop = "fill"
    /\ hand = {}
    /\ count < SpareLimit
    /\ table # {}
    /\ \E ks \in SUBSET table :
         /\ Takes(ks)
         /\ hand' = ks
         /\ table' = table \ ks
    /\ UNCHANGED <<loop, count, sent, key, keygenVars, customVars, bounds>>

\* The keeper has a row for the key.
Known(k) == key[k] # "none"

\* The deleted key goes to the keeper, unless the keeper has it.
SendObserverKey ==
    /\ \E k \in hand :
         /\ hand' = hand \ {k}
         /\ IF Known(k) THEN UNCHANGED <<sent, count>>
            ELSE Send(k) /\ count' = count + 1
    /\ UNCHANGED <<table, key, loop, keygenVars, customVars, bounds>>

\* The table is empty or enough keys are spare: the next round starts later.
EndRound ==
    /\ loop = "fill"
    /\ hand = {}
    /\ count >= SpareLimit \/ table = {}
    /\ loop' = "keygen"
    /\ UNCHANGED <<keyVars, keygenVars, customVars, bounds>>

\* WriteObserverKeys: the operator prepares a key, maybe once more one that was
\* there before.
WriteObserverKeys(k) ==
    /\ k \in TableKeys \ table
    /\ imports[k] < MaxImports
    /\ table' = table \cup {k}
    /\ imports' = [imports EXCEPT ![k] = @ + 1]
    /\ UNCHANGED <<hand, count, sent, key, loop, keygenVars, customVars, crashes, unfunded>>

\* The process dies; safeKeyLoop starts again.
Crash ==
    /\ crashes < MaxCrashes
    /\ crashes' = crashes + 1
    /\ loop' = "keygen"
    /\ hand' = {}
    /\ count' = 0
    /\ UNCHANGED <<table, sent, key, keygenVars, customVars, unfunded, imports>>

------------------------------------------------------------------------------
(* Recovery keys of holders.                                                *)

PayCustomKey(k) ==
    /\ k \in CustomKeys \ paid
    /\ paid' = paid \cup {k}
    /\ unread' = unread \cup {k}
    /\ UNCHANGED <<keyVars, loop, bad, keygenVars, bounds>>

\* handleCustomObserverKeyRegistration for a payment that meets the price, with
\* a key that derives.  The checkpoint is written afterwards; a restart before
\* that reads the payment again.
RegisterCustomKey(k, restarted) ==
    /\ k \in unread
    /\ unread' = IF restarted THEN unread ELSE unread \ {k}
    /\ IF Known(k) THEN UNCHANGED sent ELSE Send(k)
    /\ UNCHANGED <<table, hand, count, key, loop, paid, bad, keygenVars, bounds>>

------------------------------------------------------------------------------
KeyLoop == SkipKeygen \/ SendKeygen \/ WriteKeygenTime \/ DeleteObserverKey \/ SendObserverKey \/ EndRound

Next ==
    \/ \E k \in Keys : AddKey(k) \/ UseObserverKey(k)
    \/ RequestKeygen \/ AddSignerKey \/ UseSignerKey
    \/ Tick
    \/ KeyLoop
    \/ \E k \in TableKeys : WriteObserverKeys(k)
    \/ Crash
    \/ \E k \in CustomKeys : PayCustomKey(k) \/ RegisterCustomKey(k, TRUE) \/ RegisterCustomKey(k, FALSE)

Spec == Init /\ [][Next]_vars

\* The loop runs, time passes, and the keeper and the signers execute what they
\* receive.
FairSpec ==
    /\ Spec
    /\ WF_vars(KeyLoop) /\ WF_vars(Tick)
    /\ WF_vars(RequestKeygen) /\ WF_vars(AddSignerKey)
    /\ \A k \in Keys : WF_vars(AddKey(k))

------------------------------------------------------------------------------
(* Properties.                                                              *)

\* The observer reads at most one row at a time, and the counters stay in range.
TypeOK ==
    /\ bad \in Malformed
    /\ table \subseteq TableKeys /\ hand \subseteq TableKeys /\ Cardinality(hand) <= 1
    /\ loop \in {"keygen", "time", "fill"}
    /\ sent \subseteq Keys /\ key \in [Keys -> {"none", "spare", "held"}]
    /\ asked \in BOOLEAN /\ {elapsed, quiet} \subseteq 0..KeygenWait
    /\ {count, keygen, making, signerKeys, crashes, unfunded} \subseteq Nat
    /\ imports \in [TableKeys -> 0..MaxImports]
    /\ unread \subseteq paid /\ paid \subseteq CustomKeys

\* Keys that were in the table and are nowhere any more, but for those that the
\* keeper refuses.
Lost ==
    {k \in TableKeys \ bad : imports[k] > 0 /\ k \notin table \cup hand \cup sent /\ key[k] = "none"}

\* DeleteObserverKey comes before the request to the keeper, so a crash in
\* between loses the key; but each crash loses one key at the most, whatever
\* the table, the keeper and earlier crashes are like.
OneLostPerCrash == Cardinality(Lost) <= crashes

\* Two batches of signer keys are requested at least KeygenWait apart, also when
\* the observer crashes after it sent the request and before it wrote the time.
KeygensApart == [][keygen' > keygen => quiet = KeygenWait]_vars

\* When no signer key is left, new ones are made, also after a batch the group
\* could not fund and a crash.
SignerKeysReturn == signerKeys = 0 ~> signerKeys > 0

=============================================================================
