----------------------------- MODULE SignerSession -----------------------------
(***************************************************************************)
(* One signature session of the signer group, on every node.  The keeper   *)
(* asks for a signature; the nodes that want to take part send a prepare   *)
(* transaction to the group; the first threshold+1 of them run the         *)
(* multi-party computation, and each sends its signature, or an empty      *)
(* result, to the group; when all of these are the same signature the      *)
(* group replies to the keeper.                                            *)
(*                                                                         *)
(* A node has a worker that processes the outputs of the group in the one  *)
(* order all nodes share (signer/group.go), and four loops that share the  *)
(* database with it (signer/node.go).  Every database transaction is an    *)
(* action, so that loops and worker interleave between any two of them.    *)
(* A crash or a panic loses what is in memory: the position inside a       *)
(* handler, the loops, the operation map and the running computation.      *)
(*                                                                         *)
(* A definition marked "slip" is a faulty variant of the one below it; it  *)
(* is not part of the specification and shows that a property can fail.    *)
(***************************************************************************)
EXTENDS Integers, Sequences, FiniteSets, FiniteSetsExt

CONSTANTS
    Nodes,          \* the members of the group, numbered in GetMembers order
    Thresholds,     \* the values of node.threshold
    NoSig,          \* the empty extra of a result, and the absence of a reply
    NoRow,          \* the absence of a session_signers row
    Faulty,         \* the nodes that may crash, fail or let a session expire
    MaxCrashes      \* bound on the crashes of all nodes

ASSUME NodesAssumption == IsFiniteSet(Nodes) /\ Nodes \subseteq Nat
ASSUME ThresholdAssumption == Thresholds \subseteq Nat
ASSUME FaultAssumption == Faulty \subseteq Nodes /\ MaxCrashes \in Nat

(* A signature is named by what it was computed from: for each member the  *)
(* attempt at the session whose messages went into it, 0 for the others.   *)
Signatures == [Nodes -> Nat]
Extras == Signatures \cup {NoSig}

ASSUME ExtraAssumption == NoSig \notin Signatures /\ NoRow \notin Extras

VARIABLES
    threshold,      \* node.threshold, the same on every node and for ever
    log,            \* the prepare and result outputs, in the group's order
    session,        \* the row of table sessions, per node
    signers,        \* table session_signers, per node
    results,        \* table action_results: the replies, per node and output
    worker,         \* where the worker is in its handler, and what it read
    initial,        \* loopInitialSessions
    prepared,       \* loopPreparedSessions
    pending,        \* loopPendingSessions
    accepting,      \* acceptIncomingMessages has found the session Initial
    operations,     \* node.operations holds the session
    attempt,        \* how often the node has started the computation
    running,        \* the computation is running
    view,           \* the attempts of the others it works with
    shares,         \* last round messages of the computation
    crashes         \* number of crashes so far

vars == <<threshold, log, session, signers, results, worker, initial, prepared,
          pending, accepting, operations, attempt, running, view, shares, crashes>>

database == <<session, signers, results>>
setting == <<threshold, crashes>>

-----------------------------------------------------------------------------
Outputs == [type : {"Prepare", "Result"}, from : Nodes, extra : Extras]

SessionRow == [state : {"none", "Initial", "Pending", "Done"},
               committed : BOOLEAN,      \* committed_at IS NOT NULL
               prepared : BOOLEAN,       \* prepared_at IS NOT NULL
               extra : Extras]           \* the signature appended to extra

NoSession == [state |-> "none", committed |-> FALSE, prepared |-> FALSE,
              extra |-> NoSig]

(* The worker is between two outputs, before UPDATE prepared_at, before    *)
(* UpdateSessionSigner, before MarkSessionPending, or before it writes the *)
(* action result.                                                          *)
Worker == [at : {"idle", "mark", "update", "finish", "record"},
           seen : SessionRow,            \* the session as read by the handler
           reply : Extras]

Idle == [at |-> "idle", seen |-> NoSession, reply |-> NoSig]
At(step, seen, reply) == [at |-> step, seen |-> seen, reply |-> reply]

Init ==
    /\ threshold \in Thresholds
    /\ log = <<>>
    /\ session = [n \in Nodes |-> NoSession]
    /\ signers = [n \in Nodes |-> [m \in Nodes |-> NoRow]]
    /\ results = [n \in Nodes |-> <<>>]
    /\ worker = [n \in Nodes |-> Idle]
    /\ initial = [n \in Nodes |-> "idle"]
    /\ prepared = [n \in Nodes |-> "idle"]
    /\ pending = [n \in Nodes |-> "idle"]
    /\ accepting = [n \in Nodes |-> FALSE]
    /\ operations = [n \in Nodes |-> FALSE]
    /\ attempt = [n \in Nodes |-> 0]
    /\ running = [n \in Nodes |-> FALSE]
    /\ view = [n \in Nodes |-> NoSig]
    /\ shares = {}
    /\ crashes = 0

-----------------------------------------------------------------------------
(* Queries.                                                                *)

Members(n) == {m \in Nodes : signers[n][m] # NoRow}

Output(n) == log[Len(results[n]) + 1]

HasOutput(n, type) ==
    /\ worker[n].at = "idle"
    /\ session[n].state # "none"
    /\ Len(results[n]) < Len(log)
    /\ Output(n).type = type

ListedInitial(n) ==
    session[n].state = "Initial" /\ ~session[n].committed /\ ~session[n].prepared

ListedPrepared(n) ==
    session[n].state = "Initial" /\ session[n].committed /\ session[n].prepared

loops == <<initial, prepared, pending>>
computation == <<accepting, operations, attempt, running, view, shares>>

-----------------------------------------------------------------------------
(* A crash, or a panic: the process starts again from its database.        *)

Forget(n) ==
    /\ worker' = [worker EXCEPT ![n] = Idle]
    /\ initial' = [initial EXCEPT ![n] = "idle"]
    /\ prepared' = [prepared EXCEPT ![n] = "idle"]
    /\ pending' = [pending EXCEPT ![n] = "idle"]
    /\ accepting' = [accepting EXCEPT ![n] = FALSE]
    /\ operations' = [operations EXCEPT ![n] = FALSE]
    /\ running' = [running EXCEPT ![n] = FALSE]
    /\ view' = [view EXCEPT ![n] = NoSig]

Panic(n) ==
    /\ Forget(n)
    /\ UNCHANGED <<log, database, attempt, shares, setting>>

(* A crash that loses nothing is not counted.                              *)
Crash(n) ==
    /\ n \in Faulty /\ crashes < MaxCrashes
    /\ \/ worker[n] # Idle
       \/ initial[n] # "idle" \/ prepared[n] # "idle" \/ pending[n] # "idle"
       \/ accepting[n] \/ operations[n]
    /\ crashes' = crashes + 1
    /\ UNCHANGED threshold
    /\ Forget(n)
    /\ UNCHANGED <<log, database, attempt, shares>>

-----------------------------------------------------------------------------
(* The worker.  The request of the keeper comes before every other output  *)
(* of the session.                                                         *)

WriteSessionIfNotExist(n) ==
    /\ session[n].state = "none"
    /\ session' = [session EXCEPT ![n].state = "Initial"]
    /\ UNCHANGED <<log, signers, results, worker, loops, computation, setting>>

Step(n, w) == worker' = [worker EXCEPT ![n] = w]

(* The handler ends: its result is written and the next output is taken.   *)
WriteActionResults(n, reply) ==
    /\ results' = [results EXCEPT ![n] = Append(@, reply)]
    /\ Step(n, Idle)

(* processSignerPrepare: the sender's row is inserted; once there are more *)
(* than threshold rows the session is prepared, in a second transaction.   *)
\* slip: a prepare that comes after the session is prepared adds its sender
PrepareAlways(n) ==
    LET m == Output(n).from
        rows == Members(n) \cup {m}
    IN
    /\ HasOutput(n, "Prepare")
    /\ signers' = [signers EXCEPT ![n][m] = IF @ = NoRow THEN NoSig ELSE @]
    /\ IF session[n].prepared \/ Cardinality(rows) <= threshold
       THEN WriteActionResults(n, NoSig)
       ELSE Step(n, At("mark", NoSession, NoSig)) /\ UNCHANGED results
    /\ UNCHANGED <<log, session, loops, computation, setting>>
PrepareSessionSignerIfNotExist(n) ==
    LET m == Output(n).from
        rows == Members(n) \cup {m}
    IN
    /\ HasOutput(n, "Prepare")
    /\ IF session[n].prepared
       THEN UNCHANGED signers
       ELSE signers' = [signers EXCEPT ![n][m] = IF @ = NoRow THEN NoSig ELSE @]
    /\ IF session[n].prepared \/ Cardinality(rows) <= threshold
       THEN WriteActionResults(n, NoSig)
       ELSE Step(n, At("mark", NoSession, NoSig)) /\ UNCHANGED results
    /\ UNCHANGED <<log, session, loops, computation, setting>>

MarkSessionPrepared(n) ==
    /\ worker[n].at = "mark"
    /\ IF session[n].state = "Initial"
       THEN /\ session' = [session EXCEPT ![n].prepared = TRUE]
            /\ WriteActionResults(n, NoSig)
            /\ UNCHANGED <<log, signers, loops, computation, setting>>
       ELSE Panic(n)

(* processSignerResult: the session is read, the sender's row is updated,  *)
(* the rows are compared, and a node that has no signature of its own      *)
(* takes the one it read.                                                  *)
ReadSession(n) ==
    /\ HasOutput(n, "Result")
    /\ Step(n, At("update", session[n], NoSig))
    /\ UNCHANGED <<log, database, loops, computation, setting>>

UpdateRow(n) ==
    LET o == Output(n) IN
    IF o.from \in Members(n) THEN [signers[n] EXCEPT ![o.from] = o.extra] ELSE signers[n]

(* The signature is that of the first member, in GetMembers order, that    *)
(* has a row.                                                              *)
Found(rows) == {m \in Nodes : rows[m] # NoRow}
FirstSig(rows) == IF Found(rows) = {} THEN NoSig ELSE rows[Min(Found(rows))]
Agreeing(rows) == {m \in Found(rows) : rows[m] # NoSig /\ rows[m] = FirstSig(rows)}

\* slip: exact := node.threshold
verifyThreshold(rows) == Cardinality(Agreeing(rows)) >= threshold
\* slip: signed > exact
verifyMore(rows) == Cardinality(Agreeing(rows)) > threshold + 1
verifySessionSignerResults(rows) == Cardinality(Agreeing(rows)) >= threshold + 1

UpdateSessionSigner(n) ==
    LET o == Output(n)
        rows == UpdateRow(n)
    IN
    /\ worker[n].at = "update"
    /\ signers' = [signers EXCEPT ![n] = rows]
    /\ session' = IF o.from = n /\ n \in Members(n) /\ session[n].state = "Initial"
                  THEN [session EXCEPT ![n].state = "Pending"]
                  ELSE session
    /\ IF verifySessionSignerResults(rows)
       THEN /\ Step(n, At("finish", worker[n].seen, FirstSig(rows)))
            /\ UNCHANGED results
       ELSE WriteActionResults(n, NoSig)
    /\ UNCHANGED <<log, loops, computation, setting>>

CheckActionResultsBySessionId(n) ==
    \E i \in DOMAIN results[n] : results[n][i] # NoSig

(* The state and the extra are those read at the start of the handler: a   *)
(* node that had no signature then takes the group's one, and panics if    *)
(* one of its loops has changed the row since.  A signature of its own     *)
(* that differs is a panic too, which ReplyByAll excludes.                 *)
Finish(n, answered) ==
    LET seen == worker[n].seen
        sig == worker[n].reply
        absent == seen.state = "Initial" /\ seen.prepared
    IN
    /\ worker[n].at = "finish"
    /\ seen.extra \in {NoSig, sig}
    /\ absent => session[n].state = "Initial" /\ session[n].prepared
    /\ session' = IF absent
                  THEN [session EXCEPT ![n] = [@ EXCEPT !.state = "Pending", !.extra = sig]]
                  ELSE session
    /\ Step(n, At("record", NoSession, IF answered THEN NoSig ELSE sig))
    /\ UNCHANGED <<log, signers, results, loops, computation, setting>>

\* slip: no check whether the session has been answered
FinishAgain(n) == Finish(n, FALSE)
\* slip: the state of the session decides whether it has been answered
FinishByState(n) == Finish(n, session[n].state = "Done")
FinishResult(n) == Finish(n, CheckActionResultsBySessionId(n))

FinishTooLate(n) ==
    /\ worker[n].at = "finish"
    /\ worker[n].seen.state = "Initial" /\ worker[n].seen.prepared
    /\ ~(session[n].state = "Initial" /\ session[n].prepared)
    /\ Panic(n)

(* The reply is built and stored after the session has been marked.        *)
Reply(n) ==
    /\ worker[n].at = "record"
    /\ WriteActionResults(n, worker[n].reply)
    /\ UNCHANGED <<log, session, signers, loops, computation, setting>>

-----------------------------------------------------------------------------
(* loopInitialSessions.  The sessions are listed, the prepare transaction  *)
(* is sent, and the session is marked after it.  A transaction sent before *)
(* has the same trace id and is not sent again.                            *)

Sent(n, type) == \E i \in DOMAIN log : log[i].type = type /\ log[i].from = n

SendOnce(n, type, extra) ==
    log' = IF Sent(n, type)
           THEN log
           ELSE Append(log, [type |-> type, from |-> n, extra |-> extra])

sendSignerPrepareTransaction(n) ==
    /\ initial[n] = "idle"
    /\ ListedInitial(n)
    /\ SendOnce(n, "Prepare", NoSig)
    /\ initial' = [initial EXCEPT ![n] = "sent"]
    /\ UNCHANGED <<database, worker, prepared, pending, computation, setting>>

MarkSessionCommitted(n) ==
    /\ initial[n] = "sent"
    /\ session' = IF session[n].state = "Initial" /\ ~session[n].committed
                  THEN [session EXCEPT ![n].committed = TRUE]
                  ELSE session
    /\ initial' = [initial EXCEPT ![n] = "idle"]
    /\ UNCHANGED <<log, signers, results, worker, prepared, pending, computation, setting>>

-----------------------------------------------------------------------------
(* loopPreparedSessions starts the computation and waits for it, or fails  *)
(* a session older than SessionTimeout; acceptIncomingMessages starts it   *)
(* too, on the first message of another member, and waits for nothing.     *)
(* startSign of a node that is not a member returns at once.  Between the  *)
(* reads of acceptIncomingMessages and its queueOperation the session may  *)
(* start or expire.                                                        *)

queueOperation(n) ==
    /\ ~operations[n]
    /\ operations' = [operations EXCEPT ![n] = TRUE]
    /\ attempt' = IF n \in Members(n) THEN [attempt EXCEPT ![n] = @ + 1] ELSE attempt
    /\ running' = [running EXCEPT ![n] = n \in Members(n)]
    /\ UNCHANGED view

StartPrepared(n) ==
    /\ prepared[n] = "idle"
    /\ ListedPrepared(n)
    /\ queueOperation(n)
    /\ prepared' = [prepared EXCEPT ![n] = IF n \in Members(n) THEN "waiting" ELSE "idle"]
    /\ UNCHANGED <<log, database, worker, initial, pending, accepting, shares, setting>>

\* slip: r.State is not compared with RequestStateInitial
AcceptAnyState(n, m) ==
    /\ m # n /\ attempt[m] > 0 /\ n \in Members(m)
    /\ Cardinality(Members(n)) >= threshold + 1
    /\ ~accepting[n] /\ ~operations[n]
    /\ accepting' = [accepting EXCEPT ![n] = TRUE]
    /\ UNCHANGED <<log, database, worker, loops, operations, attempt, running, view,
                   shares, setting>>
AcceptIncomingMessage(n, m) ==
    /\ m # n /\ attempt[m] > 0 /\ n \in Members(m)
    /\ session[n].state = "Initial"
    /\ Cardinality(Members(n)) >= threshold + 1
    /\ ~accepting[n] /\ ~operations[n]
    /\ accepting' = [accepting EXCEPT ![n] = TRUE]
    /\ UNCHANGED <<log, database, worker, loops, operations, attempt, running, view,
                   shares, setting>>

StartAccepted(n) ==
    /\ accepting[n]
    /\ accepting' = [accepting EXCEPT ![n] = FALSE]
    /\ \/ queueOperation(n)
       \/ operations[n] /\ UNCHANGED <<operations, attempt, running, view>>
    /\ UNCHANGED <<log, database, worker, loops, shares, setting>>

ListExpiredSession(n) ==
    /\ n \in Faulty
    /\ prepared[n] = "idle"
    /\ ListedPrepared(n)
    /\ prepared' = [prepared EXCEPT ![n] = "expiring"]
    /\ UNCHANGED <<log, database, worker, initial, pending, computation, setting>>

Expire(n) ==
    /\ prepared[n] = "expiring"
    /\ IF session[n].state = "Initial"
       THEN /\ session' = [session EXCEPT ![n].state = "Pending"]
            /\ prepared' = [prepared EXCEPT ![n] = "idle"]
            /\ UNCHANGED <<log, signers, results, worker, initial, pending,
                           computation, setting>>
       ELSE Panic(n)

-----------------------------------------------------------------------------
(* The computation, in two rounds.  In the first a member opens an attempt *)
(* and hears of an attempt of every other member, possibly an old one from *)
(* before a crash.  In the second it sends a share for these attempts, one *)
(* per attempt; the shares of all members for the same attempts make the   *)
(* signature.                                                              *)

Share(n) ==
    /\ \E v \in [Nodes -> 0..Max({attempt[m] : m \in Nodes})] :
        /\ v[n] = attempt[n]
        /\ \A m \in Nodes : IF m \in Members(n) THEN v[m] \in 1..attempt[m] ELSE v[m] = 0
        /\ view' = [view EXCEPT ![n] = v]
        /\ shares' = shares \cup {<<n, v>>}
    /\ UNCHANGED <<log, database, worker, loops, accepting, operations, attempt, running,
                   setting>>

SendShare(n) == running[n] /\ view[n] = NoSig /\ Share(n)

(* The end of startSign.  An error goes to loopPreparedSessions, which     *)
(* panics, if that loop started the computation.                           *)
EndSign(n, marked, extra) ==
    IF marked
    THEN /\ session' = [session EXCEPT ![n] = [@ EXCEPT !.state = "Pending", !.extra = extra]]
         /\ running' = [running EXCEPT ![n] = FALSE]
         /\ prepared' = [prepared EXCEPT ![n] = IF @ = "waiting" THEN "idle" ELSE @]
         /\ view' = [view EXCEPT ![n] = NoSig]
         /\ UNCHANGED <<log, signers, results, worker, initial, pending, accepting, operations,
                        attempt, shares, setting>>
    ELSE IF prepared[n] = "waiting"
    THEN Panic(n)
    ELSE /\ running' = [running EXCEPT ![n] = FALSE]
         /\ view' = [view EXCEPT ![n] = NoSig]
         /\ UNCHANGED <<log, database, worker, loops, accepting, operations, attempt, shares, setting>>

MarkSessionPending(n) ==
    /\ running[n] /\ view[n] # NoSig
    /\ \A m \in Members(n) : <<m, view[n]>> \in shares
    /\ EndSign(n, session[n].state = "Initial" /\ session[n].prepared, view[n])

(* A round timeout, a message that does not verify, or a member's answer   *)
(* that it is done with the session.                                       *)
FailSession(n) ==
    /\ n \in Faulty
    /\ running[n]
    /\ EndSign(n, session[n].state = "Initial", session[n].extra)

-----------------------------------------------------------------------------
(* loopPendingSessions sends the signature, or an empty result if there is *)
(* none, and marks the session after it.                                   *)

\* slip: a session without a signature has no result to send
SendSigned(n) ==
    /\ pending[n] = "idle"
    /\ session[n].state = "Pending" /\ session[n].extra # NoSig
    /\ SendOnce(n, "Result", session[n].extra)
    /\ pending' = [pending EXCEPT ![n] = "sent"]
    /\ UNCHANGED <<database, worker, initial, prepared, computation, setting>>
sendSignerResultTransaction(n) ==
    /\ pending[n] = "idle"
    /\ session[n].state = "Pending"
    /\ SendOnce(n, "Result", session[n].extra)
    /\ pending' = [pending EXCEPT ![n] = "sent"]
    /\ UNCHANGED <<database, worker, initial, prepared, computation, setting>>

MarkSessionDone(n) ==
    /\ pending[n] = "sent"
    /\ session' = IF session[n].state = "Pending"
                  THEN [session EXCEPT ![n].state = "Done"]
                  ELSE session
    /\ pending' = [pending EXCEPT ![n] = "idle"]
    /\ UNCHANGED <<log, signers, results, worker, initial, prepared, computation, setting>>

-----------------------------------------------------------------------------
Work(n) ==
    \/ WriteSessionIfNotExist(n)
    \/ PrepareSessionSignerIfNotExist(n)
    \/ MarkSessionPrepared(n)
    \/ ReadSession(n)
    \/ UpdateSessionSigner(n)
    \/ FinishResult(n)
    \/ FinishTooLate(n)
    \/ Reply(n)

LoopInitial(n) ==
    \/ sendSignerPrepareTransaction(n)
    \/ MarkSessionCommitted(n)

LoopPrepared(n) ==
    \/ StartPrepared(n)
    \/ ListExpiredSession(n)
    \/ Expire(n)

LoopPending(n) ==
    \/ sendSignerResultTransaction(n)
    \/ MarkSessionDone(n)

EndComputation(n) ==
    \/ MarkSessionPending(n)
    \/ FailSession(n)

Next ==
    \E n \in Nodes :
        \/ Work(n)
        \/ LoopInitial(n)
        \/ LoopPrepared(n)
        \/ LoopPending(n)
        \/ SendShare(n)
        \/ EndComputation(n)
        \/ \E m \in Nodes : AcceptIncomingMessage(n, m)
        \/ StartAccepted(n)
        \/ Crash(n)

Spec == Init /\ [][Next]_vars

(* The worker and the loops run for ever, messages of running members      *)
(* arrive, and a computation that does not end times out.  Crashes and the *)
(* start by an incoming message are not fair.                              *)
Fairness ==
    \A n \in Nodes :
        /\ WF_vars(Work(n))
        /\ WF_vars(LoopInitial(n))
        /\ WF_vars(LoopPrepared(n))
        /\ WF_vars(LoopPending(n))
        /\ WF_vars(SendShare(n))
        /\ WF_vars(EndComputation(n))

FairSpec == Spec /\ Fairness

-----------------------------------------------------------------------------
(* Every variable has its type, and no node has results for outputs that   *)
(* it has not got (ProcessOutput writes one row per output).               *)
TypeOK ==
    /\ threshold \in Thresholds
    /\ log \in Seq(Outputs)
    /\ session \in [Nodes -> SessionRow]
    /\ signers \in [Nodes -> [Nodes -> Extras \cup {NoRow}]]
    /\ results \in [Nodes -> Seq(Extras)]
    /\ worker \in [Nodes -> Worker]
    /\ initial \in [Nodes -> {"idle", "sent"}]
    /\ prepared \in [Nodes -> {"idle", "expiring", "waiting"}]
    /\ pending \in [Nodes -> {"idle", "sent"}]
    /\ accepting \in [Nodes -> BOOLEAN]
    /\ operations \in [Nodes -> BOOLEAN]
    /\ attempt \in [Nodes -> Nat]
    /\ running \in [Nodes -> BOOLEAN]
    /\ view \in [Nodes -> Extras]
    /\ shares \subseteq Nodes \X Signatures
    /\ crashes \in 0..MaxCrashes
    /\ \A n \in Nodes : Len(results[n]) <= Len(log)

(* The nodes that see a session as prepared have the same members for it,  *)
(* as many as a signature needs: a prepare that comes later changes        *)
(* nothing (processSignerPrepare).                                         *)
SameMembers ==
    \A n, m \in Nodes :
        session[n].prepared /\ session[m].prepared =>
            /\ Members(n) = Members(m)
            /\ Cardinality(Members(n)) = threshold + 1

(* No two nodes end a session with different signatures, though attempts   *)
(* of before and after a crash have the same session id and their messages *)
(* mix (startSign, acceptIncomingMessages).                                *)
OneSignature ==
    \A n, m \in Nodes :
        session[n].extra # NoSig /\ session[m].extra # NoSig =>
            session[n].extra = session[m].extra

(* All nodes build the same transactions for the same output, whatever     *)
(* their own part in the session and wherever they crashed: otherwise the  *)
(* reply would never gather the signatures of the group (ProcessOutput).   *)
RepliesAgree ==
    \A n, m \in Nodes : \A i \in DOMAIN results[n] \cap DOMAIN results[m] :
        results[n][i] = results[m][i]

(* The keeper gets one reply per session, though results of nodes that are *)
(* not members and of members that were late follow the decisive one       *)
(* (CheckActionResultsBySessionId).                                        *)
OneReply ==
    \A n \in Nodes : \A i, j \in DOMAIN results[n] :
        results[n][i] # NoSig /\ results[n][j] # NoSig => i = j

(* The group replies with a signature that every member of the session has *)
(* computed, and the signature a node itself has is no other, so that the  *)
(* comparison at the end of processSignerResult does not panic.            *)
ReplyByAll ==
    \A n \in Nodes :
        /\ \A i \in DOMAIN results[n] : results[n][i] # NoSig =>
            \A m \in Members(n) : session[m].extra = results[n][i]
        /\ worker[n].at = "finish" =>
            /\ worker[n].seen.extra \in {NoSig, worker[n].reply}
            /\ \A m \in Members(n) : session[m].extra = worker[n].reply

(* The computation of the members, among the loops, the worker and the     *)
(* crashes, is that of SigningAttempts: members are chosen once, a node    *)
(* starts only if it has no signature, and shares once per attempt.  A     *)
(* node that is not a member takes its signature from the results.         *)
Chosen ==
    UNION {Members(n) : n \in {k \in Nodes : Cardinality(Members(k)) > threshold}}

Attempts == INSTANCE SigningAttempts WITH
    MaxAttempts <- MaxCrashes + 1,
    members <- Chosen,
    extra <- [n \in Nodes |-> IF n \in Members(n) THEN session[n].extra ELSE NoSig]

(* startSign, as queued by loopPreparedSessions and acceptIncomingMessages *)
(* in any order with crashes, implements the computation of SigningAttempts. *)
ComputesOnce == Attempts!Spec

(* A session that the node has committed to and that is prepared is done   *)
(* in the end, with or without a signature (FailSession keeps it pending   *)
(* so that its empty result is sent).                                      *)
Settles ==
    \A n \in Nodes :
        session[n].committed /\ session[n].prepared ~> session[n].state = "Done"

Refused == \E i \in DOMAIN log : log[i].type = "Result" /\ log[i].extra = NoSig

(* Without crashes a prepared session ends with a reply on every node,     *)
(* unless some node has sent an empty result (processSignerResult).        *)
Answered ==
    (\E n \in Nodes : session[n].prepared) ~>
        Refused \/ crashes > 0 \/ \A n \in Nodes : CheckActionResultsBySessionId(n)

(* When enough prepares have been stored the session is still Initial, as  *)
(* processAction asserts by its panic on the error of MarkSessionPrepared. *)
MarkPossible ==
    \A n \in Nodes : worker[n].at = "mark" => session[n].state = "Initial"

(* A session that processSignerResult has read as Initial and prepared is  *)
(* still so when it is marked, as the panic after MarkSessionPending       *)
(* asserts.                                                                *)
PendPossible ==
    \A n \in Nodes :
        worker[n].at = "finish" /\ worker[n].seen.state = "Initial" /\ worker[n].seen.prepared =>
            session[n].state = "Initial"

=============================================================================
