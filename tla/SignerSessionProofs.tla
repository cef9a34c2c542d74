------------------------- MODULE SignerSessionProofs -------------------------
(***************************************************************************)
(* The invariant of a session of the signer group, and what the steps of   *)
(* a node do to the log, to the types and to the rows: the handlers, the   *)
(* loops and the crashes keep the tables in step with the log (TablesInv). *)
(*                                                                         *)
(* What a node stores is a function of the prefix of the log that it has   *)
(* processed.  The members are the senders of the prepares up to the one   *)
(* that completes a quorum, which is the same output on all nodes; the     *)
(* rows hold the results of the prefix; and the reply belongs to the one   *)
(* result with which every member has sent the same signature.  A crash    *)
(* inside a handler leaves the rows one output ahead of the results, and   *)
(* the handler runs again on what it has written.                          *)
(***************************************************************************)
EXTENDS SignerSession, TLAPS

(* The number of outputs the node has processed.                           *)
Processed(n) == Len(results[n])

-----------------------------------------------------------------------------
(* What the log says.                                                      *)

Senders(k) == {m \in Nodes : \E i \in 1..k : log[i].type = "Prepare" /\ log[i].from = m}

(* The prepare that completes the quorum.                                  *)
Decisive(c) ==
    /\ c \in DOMAIN log
    /\ log[c].type = "Prepare"
    /\ Cardinality(Senders(c)) = threshold + 1

(* One of the first k outputs is the result sig of node m.                 *)
HasResult(m, sig, k) ==
    \E j \in 1..k : log[j].type = "Result" /\ log[j].from = m /\ log[j].extra = sig

AllResults(M, sig, k) == \A m \in M : HasResult(m, sig, k)

(* The result with which all of M have sent the same signature.            *)
Decides(M, i) ==
    /\ log[i].type = "Result" /\ log[i].from \in M /\ log[i].extra # NoSig
    /\ AllResults(M, log[i].extra, i)

(* The reply that belongs to output i.                                     *)
ReplyTo(M, i) == IF Decides(M, i) THEN log[i].extra ELSE NoSig

(* A node sends one transaction of each type.                              *)
SentOnce ==
    \A i, j \in DOMAIN log :
        log[i].type = log[j].type /\ log[i].from = log[j].from => i = j

(* Results come after the decisive prepare.                                *)
ResultsLate ==
    \A i \in DOMAIN log : log[i].type = "Result" => \E c \in DOMAIN log : c < i /\ Decisive(c)

(* When all of M have sent the same signature, one of them was the last.   *)
SomeDecides ==
    \A M \in SUBSET Nodes : \A sig \in Signatures : \A k \in DOMAIN log :
        M # {} /\ AllResults(M, sig, k) => \E i \in 1..k : Decides(M, i)

LogInv == SentOnce /\ ResultsLate /\ SomeDecides

-----------------------------------------------------------------------------
(* What a node has made of it.                                             *)

(* The quorum is not complete: the members are the senders so far.         *)
Preparing(n) ==
    /\ Members(n) = Senders(Processed(n))
    /\ Cardinality(Members(n)) <= threshold
    /\ ~session[n].prepared
    /\ session[n].state \in {"none", "Initial"}
    /\ worker[n].at = "idle"

(* The quorum is complete with output c, which the node has processed or   *)
(* is about to.                                                            *)
PreparedBy(n, c) ==
    /\ Decisive(c)
    /\ Members(n) = Senders(c)
    /\ IF session[n].prepared
       THEN c <= Processed(n) /\ worker[n].at # "mark"
       ELSE c = Processed(n) + 1 /\ worker[n].at \in {"idle", "mark"}
    /\ session[n].state # "none"

Stage(n) == Preparing(n) \/ \E c \in DOMAIN log : PreparedBy(n, c)

(* A handler that is under way has an output.                              *)
Handling(n) ==
    /\ worker[n].at # "idle" => Processed(n) < Len(log)
    /\ worker[n].at = "mark" => Output(n).type = "Prepare"
    /\ worker[n].at \in {"update", "finish", "record"} => Output(n).type = "Result"

(* A row holds a result of the log, at most one output ahead of the        *)
(* results, and no result of a member is missing.                          *)
RowsFromLog(n) ==
    \A m \in Members(n) : signers[n][m] # NoSig =>
        \E j \in DOMAIN log : j <= Processed(n) + 1 /\ log[j].type = "Result"
                              /\ log[j].from = m /\ log[j].extra = signers[n][m]

Applied(n, i) ==
    log[i].type = "Result" /\ log[i].from \in Members(n) =>
        signers[n][log[i].from] = log[i].extra

RowsComplete(n) ==
    /\ \A i \in 1..Processed(n) : Applied(n, i)
    /\ worker[n].at \in {"finish", "record"} => Applied(n, Processed(n) + 1)

(* The replies are those the log determines.                               *)
Replies(n) == \A i \in 1..Processed(n) : results[n][i] = ReplyTo(Members(n), i)

(* What the handler of a result carries from one transaction to the next.  *)
Carried(n) ==
    /\ worker[n].at \in {"update", "finish"} /\ worker[n].seen.extra # NoSig =>
        session[n].extra = worker[n].seen.extra
    /\ worker[n].at = "finish" =>
        /\ worker[n].reply \in Signatures
        /\ AllResults(Members(n), worker[n].reply, Processed(n) + 1)
    /\ worker[n].at = "record" => worker[n].reply = ReplyTo(Members(n), Processed(n) + 1)

(* The extra of the session is written once, when the state leaves         *)
(* Initial, and a node that is not a member has it from the members.       *)
Written(n) ==
    /\ session[n].extra # NoSig => session[n].state \in {"Pending", "Done"}
    /\ session[n].extra # NoSig /\ n \notin Members(n) =>
        \A m \in Members(n) : session[m].extra = session[n].extra

(* The result a node has sent is the extra of its session.                 *)
SentInv ==
    \A i \in DOMAIN log : log[i].type = "Result" =>
        /\ session[log[i].from].state \in {"Pending", "Done"}
        /\ session[log[i].from].extra = log[i].extra

(* The computation of a node, and what its loops know of the session.      *)
Computing(n) ==
    /\ prepared[n] # "idle" => session[n].prepared
    /\ accepting[n] \/ operations[n] => Cardinality(Members(n)) > threshold
    /\ running[n] => operations[n] /\ n \in Members(n)
    /\ view[n] # NoSig => running[n]
    /\ running[n] => session[n].extra = NoSig
    /\ accepting[n] /\ ~operations[n] /\ n \in Members(n) => session[n].extra = NoSig

(* An attempt is opened once in the life of a process.  A panic comes when *)
(* the session is no longer Initial, after which no attempt is opened.     *)
AttemptsCounted(n) ==
    /\ attempt[n] <= crashes + 1
    /\ ~operations[n] /\ (accepting[n] \/ session[n].state \in {"none", "Initial"}) =>
        attempt[n] <= crashes

TablesInv(n) ==
    /\ Stage(n)
    /\ Handling(n)
    /\ RowsFromLog(n)
    /\ RowsComplete(n)
    /\ Replies(n)
    /\ Carried(n)
    /\ Written(n)

SessionInv ==
    /\ TypeOK
    /\ LogInv
    /\ SentInv
    /\ \A n \in Nodes : TablesInv(n) /\ Computing(n) /\ AttemptsCounted(n)

-----------------------------------------------------------------------------
(* What the proofs use of numbers of nodes.  It is a fact about finite     *)
(* sets, shown where the theorems are (NodesCounted); as a hypothesis of   *)
(* the lemmas it stands for the library's theorems on cardinalities.       *)
NodesCount ==
    /\ Cardinality({}) = 0
    /\ \A S \in SUBSET Nodes :
        /\ Cardinality(S) \in Nat
        /\ S # {} => Cardinality(S) # 0 /\ Min(S) \in S
    /\ \A S, T \in SUBSET Nodes : T \subseteq S =>
        /\ Cardinality(T) <= Cardinality(S)
        /\ Cardinality(T) = Cardinality(S) => T = S
    /\ \A S \in SUBSET Nodes : \A n \in Nodes \ S :
        Cardinality(S \cup {n}) = Cardinality(S) + 1

(* A sequence that grows by one element keeps the elements it had.         *)
LEMMA Appended ==
    ASSUME NEW S, NEW q \in Seq(S), NEW x \in S, NEW r, r = Append(q, x)
    PROVE  /\ r \in Seq(S) /\ Len(r) = Len(q) + 1 /\ DOMAIN r = DOMAIN q \cup {Len(q) + 1}
           /\ \A i \in DOMAIN q : r[i] = q[i]
           /\ r[Len(q) + 1] = x
  OBVIOUS

(* The cardinality of a set of nodes.                                      *)
LEMMA NodeSet ==
    ASSUME NodesCount, NEW S, S \subseteq Nodes
    PROVE  /\ Cardinality(S) \in Nat
           /\ S # {} => Cardinality(S) # 0 /\ Min(S) \in S
<1>1. S \in SUBSET Nodes
  OBVIOUS
<1> QED
  BY <1>1, Zenon DEF NodesCount

(* A part of a set of nodes is the set when it has as many nodes.          *)
LEMMA NodeSubset ==
    ASSUME NodesCount, NEW S, S \subseteq Nodes, NEW T, T \subseteq S
    PROVE  /\ Cardinality(T) <= Cardinality(S)
           /\ Cardinality(T) = Cardinality(S) => T = S
<1>1. S \in SUBSET Nodes /\ T \in SUBSET Nodes
  OBVIOUS
<1> QED
  BY <1>1, Zenon DEF NodesCount

(* One more node counts for one.                                           *)
LEMMA NodeAdd ==
    ASSUME NodesCount, NEW S, S \subseteq Nodes, NEW n \in Nodes, n \notin S
    PROVE  Cardinality(S \cup {n}) = Cardinality(S) + 1
<1>1. S \in SUBSET Nodes /\ n \in Nodes \ S
  OBVIOUS
<1>2. \A k \in Nodes \ S : Cardinality(S \cup {k}) = Cardinality(S) + 1
  BY <1>1, Zenon DEF NodesCount
<1> QED
  BY <1>1, <1>2, Zenon

(* The first signature is that of a row, or none.                          *)
LEMMA FirstSigType ==
    ASSUME NodesCount, NEW rows \in [Nodes -> Extras \cup {NoRow}]
    PROVE  FirstSig(rows) \in Extras
<1>1. CASE Found(rows) = {}
  BY <1>1 DEF FirstSig, Extras
<1>2. CASE Found(rows) # {}
  <2>1. Found(rows) \in SUBSET Nodes
    BY Zenon DEF Found
  <2>2. Min(Found(rows)) \in Found(rows)
    BY <1>2, <2>1, Zenon DEF NodesCount
  <2> QED
    BY <1>2, <2>2 DEF FirstSig, Found
<1> QED
  BY <1>1, <1>2

-----------------------------------------------------------------------------
(* The session of n becomes this row.                                      *)
Row(s, c, p, e) == [state |-> s, committed |-> c, prepared |-> p, extra |-> e]

To(n, s, c, p, e) == session' = [session EXCEPT ![n] = Row(s, c, p, e)]

(* A row is determined by its fields.                                      *)
LEMMA RowFields ==
    ASSUME NEW r \in SessionRow
    PROVE  /\ r = Row(r.state, r.committed, r.prepared, r.extra)
           /\ r.state \in {"none", "Initial", "Pending", "Done"}
           /\ r.committed \in BOOLEAN /\ r.prepared \in BOOLEAN /\ r.extra \in Extras
  BY DEF Row, SessionRow

(* What the assignments of the actions make of a row.                      *)
LEMMA RowWritten ==
    ASSUME NEW r \in SessionRow, NEW x, NEW y
    PROVE  /\ [r EXCEPT !.state = x] = Row(x, r.committed, r.prepared, r.extra)
           /\ [r EXCEPT !.committed = x] = Row(r.state, x, r.prepared, r.extra)
           /\ [r EXCEPT !.prepared = x] = Row(r.state, r.committed, x, r.extra)
           /\ [r EXCEPT !.state = x, !.extra = y] = Row(x, r.committed, r.prepared, y)
<1> DEFINE s == r.state
           c == r.committed
           p == r.prepared
           e == r.extra
<1>1. r = Row(s, c, p, e)
  BY RowFields
<1> HIDE DEF s, c, p, e
<1>2. [Row(s, c, p, e) EXCEPT !.state = x] = Row(x, c, p, e)
  BY DEF Row
<1>3. [Row(s, c, p, e) EXCEPT !.committed = x] = Row(s, x, p, e)
  BY DEF Row
<1>4. [Row(s, c, p, e) EXCEPT !.prepared = x] = Row(s, c, x, e)
  BY DEF Row
<1>5. [Row(s, c, p, e) EXCEPT !.state = x, !.extra = y] = Row(x, c, p, y)
  <2>1. [Row(x, c, p, e) EXCEPT !.extra = y] = Row(x, c, p, y)
    BY DEF Row
  <2>2. [Row(s, c, p, e) EXCEPT !.state = x, !.extra = y]
            = [[Row(s, c, p, e) EXCEPT !.state = x] EXCEPT !.extra = y]
    OBVIOUS
  <2> QED
    BY <1>2, <2>1, <2>2, Zenon
<1> QED
  BY <1>1, <1>2, <1>3, <1>4, <1>5, Zenon DEF s, c, p, e

-----------------------------------------------------------------------------
(* The steps, by what they do to the log, the tables and the worker.  The  *)
(* loops and the computation only move the session on.                     *)
Resting == UNCHANGED <<threshold, log, signers, results, worker>>

Moved(n, s, c, e) ==
    /\ Resting
    /\ To(n, s, c, session[n].prepared, e)
    /\ s = "none" => session[n].state = "none"
    /\ session[n].state \in {"Pending", "Done"} => s \in {"Pending", "Done"} /\ e = session[n].extra
    /\ session[n].state \in {"none", "Initial"} /\ s \in {"Pending", "Done"} =>
        prepared[n] = "expiring" \/ running[n]
    /\ e # session[n].extra => running[n] /\ e = view[n] /\ s = "Pending"

Restarted(n) ==
    /\ worker' = [worker EXCEPT ![n] = Idle]
    /\ UNCHANGED <<threshold, log, session, signers, results>>

Sends(n, type, extra) ==
    /\ ~Sent(n, type)
    /\ log' = Append(log, [type |-> type, from |-> n, extra |-> extra])
    /\ type = "Result" => session[n].state = "Pending" /\ extra = session[n].extra
    /\ UNCHANGED <<threshold, session, signers, results, worker>>

Marked(n) ==
    /\ worker[n].at = "mark" /\ session[n].state = "Initial"
    /\ To(n, "Initial", session[n].committed, TRUE, session[n].extra)
    /\ WriteActionResults(n, NoSig)
    /\ UNCHANGED <<threshold, log, signers>>

States == {"none", "Initial", "Pending", "Done"}

Kinds(n) ==
    \/ Resting /\ UNCHANGED session
    \/ \E s \in States, c \in BOOLEAN, e \in Extras : Moved(n, s, c, e)
    \/ Restarted(n)
    \/ \E type \in {"Prepare", "Result"}, extra \in Extras : Sends(n, type, extra)
    \/ PrepareSessionSignerIfNotExist(n)
    \/ Marked(n)
    \/ ReadSession(n)
    \/ UpdateSessionSigner(n)
    \/ FinishResult(n)
    \/ Reply(n)

NodeNext(n) ==
    \/ Work(n)
    \/ LoopInitial(n)
    \/ LoopPrepared(n)
    \/ LoopPending(n)
    \/ SendShare(n)
    \/ EndComputation(n)
    \/ \E m \in Nodes : AcceptIncomingMessage(n, m)
    \/ StartAccepted(n)
    \/ Crash(n)

(* Every step of a node is of one of these kinds.                          *)
LEMMA StepKinds == ASSUME TypeOK, NEW n \in Nodes, NodeNext(n) PROVE Kinds(n)
<1> USE DEF database, setting, loops, computation, Resting
<1> DEFINE r == session[n]
<1>1. r \in SessionRow
  BY DEF TypeOK
<1>2. /\ r = Row(r.state, r.committed, r.prepared, r.extra)
      /\ r.state \in States
      /\ r.committed \in BOOLEAN /\ r.prepared \in BOOLEAN /\ r.extra \in Extras
  BY <1>1, RowFields DEF States
<1>3. \A x, y : /\ [r EXCEPT !.state = x] = Row(x, r.committed, r.prepared, r.extra)
                /\ [r EXCEPT !.committed = x] = Row(r.state, x, r.prepared, r.extra)
                /\ [r EXCEPT !.prepared = x] = Row(r.state, r.committed, x, r.extra)
                /\ [r EXCEPT !.state = x, !.extra = y] = Row(x, r.committed, r.prepared, y)
  BY <1>1, RowWritten, Zenon
<1>4. PICK t \in BOOLEAN : t = TRUE
  BY Zenon
<1>5. CASE WriteSessionIfNotExist(n)
  <2>1. To(n, "Initial", r.committed, r.prepared, r.extra)
    BY <1>3, <1>5, Zenon DEF WriteSessionIfNotExist, To
  <2>2. Resting /\ r.state = "none"
    BY <1>5 DEF WriteSessionIfNotExist
  <2>3. Moved(n, "Initial", r.committed, r.extra)
    BY <2>1, <2>2 DEF Moved
  <2> QED
    BY <1>2, <2>3, Zenon DEF Kinds, States
<1>6. CASE MarkSessionPrepared(n)
  <2>1. CASE r.state = "Initial"
    <3>1. To(n, "Initial", r.committed, TRUE, r.extra)
      BY <1>3, <1>6, <2>1, Zenon DEF MarkSessionPrepared, To
    <3> QED
      BY Zenon, <1>6, <2>1, <3>1 DEF MarkSessionPrepared, Marked, Kinds
  <2>2. CASE r.state # "Initial"
    BY <1>6, <2>2 DEF MarkSessionPrepared, Panic, Forget, Restarted, Kinds
  <2> QED
    BY <2>1, <2>2
<1>7. CASE FinishTooLate(n)
  BY <1>7 DEF FinishTooLate, Panic, Forget, Restarted, Kinds
<1>8. CASE Work(n)
  BY <1>5, <1>6, <1>7, <1>8, Zenon DEF Work, Kinds
<1>9. CASE sendSignerPrepareTransaction(n)
  <2>1. CASE Sent(n, "Prepare")
    BY <1>9, <2>1 DEF sendSignerPrepareTransaction, SendOnce, Kinds
  <2>2. CASE ~Sent(n, "Prepare")
    <3>1. Sends(n, "Prepare", NoSig)
      BY <1>9, <2>2 DEF sendSignerPrepareTransaction, SendOnce, Sends
    <3> QED
      BY <3>1, Zenon DEF Kinds, Extras
  <2> QED
    BY <2>1, <2>2
<1>10. CASE sendSignerResultTransaction(n)
  <2>1. CASE Sent(n, "Result")
    BY <1>10, <2>1 DEF sendSignerResultTransaction, SendOnce, Kinds
  <2>2. CASE ~Sent(n, "Result")
    <3>1. Sends(n, "Result", r.extra)
      BY <1>10, <2>2 DEF sendSignerResultTransaction, SendOnce, Sends
    <3> QED
      BY <1>2, <3>1, Zenon DEF Kinds
  <2> QED
    BY <2>1, <2>2
<1>11. CASE MarkSessionCommitted(n)
  <2>1. CASE r.state = "Initial" /\ ~r.committed
    <3>1. To(n, r.state, t, r.prepared, r.extra)
      BY <1>3, <1>4, <1>11, <2>1, Zenon DEF MarkSessionCommitted, To
    <3>2. Moved(n, r.state, t, r.extra)
      BY <1>11, <2>1, <3>1 DEF MarkSessionCommitted, Moved
    <3> QED
      BY <1>2, <3>2, Zenon DEF Kinds
  <2>2. CASE ~(r.state = "Initial" /\ ~r.committed)
    BY <1>11, <2>2 DEF MarkSessionCommitted, Kinds
  <2> QED
    BY <2>1, <2>2
<1>12. CASE Expire(n)
  <2>1. CASE r.state = "Initial"
    <3>1. To(n, "Pending", r.committed, r.prepared, r.extra)
      BY <1>3, <1>12, <2>1, Zenon DEF Expire, To
    <3>2. Moved(n, "Pending", r.committed, r.extra)
      BY <1>12, <2>1, <3>1 DEF Expire, Moved
    <3> QED
      BY <1>2, <3>2, Zenon DEF Kinds, States
  <2>2. CASE r.state # "Initial"
    BY <1>12, <2>2 DEF Expire, Panic, Forget, Restarted, Kinds
  <2> QED
    BY <2>1, <2>2
<1>13. CASE MarkSessionDone(n)
  <2>1. CASE r.state = "Pending"
    <3>1. To(n, "Done", r.committed, r.prepared, r.extra)
      BY <1>3, <1>13, <2>1, Zenon DEF MarkSessionDone, To
    <3>2. Moved(n, "Done", r.committed, r.extra)
      BY <1>13, <2>1, <3>1 DEF MarkSessionDone, Moved
    <3> QED
      BY <1>2, <3>2, Zenon DEF Kinds, States
  <2>2. CASE r.state # "Pending"
    BY <1>13, <2>2 DEF MarkSessionDone, Kinds
  <2> QED
    BY <2>1, <2>2
<1>14. ASSUME NEW marked, NEW e \in Extras, EndSign(n, marked, e), running[n],
              marked => r.state = "Initial", e = view[n] \/ e = r.extra
       PROVE  Kinds(n)
  <2>1. CASE marked
    <3>1. session' = [session EXCEPT ![n] = [r EXCEPT !.state = "Pending", !.extra = e]]
      BY <1>14, <2>1 DEF EndSign
    <3>2. To(n, "Pending", r.committed, r.prepared, e)
      BY <1>3, <3>1, Zenon DEF To
    <3>3. Moved(n, "Pending", r.committed, e)
      BY <1>14, <2>1, <3>2 DEF EndSign, Moved
    <3> QED
      BY <1>2, <3>3, Zenon DEF Kinds, States
  <2>2. CASE ~marked /\ prepared[n] = "waiting"
    BY <1>14, <2>2 DEF EndSign, Panic, Forget, Restarted, Kinds
  <2>3. CASE ~marked /\ prepared[n] # "waiting"
    BY <1>14, <2>3 DEF EndSign, Kinds
  <2> QED
    BY <2>1, <2>2, <2>3
<1>15. CASE MarkSessionPending(n)
  <2>1. view[n] \in Extras
    BY DEF TypeOK
  <2> QED
    BY <1>14, <1>15, <2>1, Zenon DEF MarkSessionPending
<1>16. CASE FailSession(n)
  BY <1>2, <1>14, <1>16, Zenon DEF FailSession
<1>17. CASE StartPrepared(n) \/ ListExpiredSession(n) \/ SendShare(n) \/ StartAccepted(n)
  BY <1>17 DEF StartPrepared, ListExpiredSession, SendShare, Share, StartAccepted, Kinds
<1>18. CASE \E m \in Nodes : AcceptIncomingMessage(n, m)
  BY <1>18 DEF AcceptIncomingMessage, Kinds
<1>19. CASE Crash(n)
  BY <1>19 DEF Crash, Forget, Restarted, Kinds
<1> QED
  BY <1>8, <1>9, <1>10, <1>11, <1>12, <1>13, <1>15, <1>16, <1>17, <1>18, <1>19, Zenon
     DEF NodeNext, LoopInitial, LoopPrepared, LoopPending, EndComputation

-----------------------------------------------------------------------------
(* The types, of the tables and of the memory of the process.              *)
TablesType ==
    /\ threshold \in Thresholds
    /\ log \in Seq(Outputs)
    /\ session \in [Nodes -> SessionRow]
    /\ signers \in [Nodes -> [Nodes -> Extras \cup {NoRow}]]
    /\ results \in [Nodes -> Seq(Extras)]
    /\ worker \in [Nodes -> Worker]
    /\ \A n \in Nodes : Len(results[n]) <= Len(log)

MemoryType ==
    /\ initial \in [Nodes -> {"idle", "sent"}]
    /\ prepared \in [Nodes -> {"idle", "expiring", "waiting"}]
    /\ pending \in [Nodes -> {"idle", "sent"}]
    /\ accepting \in [Nodes -> BOOLEAN]
    /\ operations \in [Nodes -> BOOLEAN]
    /\ attempt \in [Nodes -> Nat]
    /\ running \in [Nodes -> BOOLEAN]
    /\ view \in [Nodes -> Extras]
    /\ shares \subseteq Nodes \X Signatures
    /\ crashes \in 0..MaxCrashes

(* The loops and the computation keep their types.                         *)
LEMMA MemoryTypeStep == ASSUME TypeOK, NEW n \in Nodes, NodeNext(n) PROVE MemoryType'
<1> USE DEF database, setting, loops, computation, Extras
<1>1. MemoryType
  BY DEF TypeOK, MemoryType
<1>2. ASSUME UNCHANGED <<loops, computation, setting>> PROVE MemoryType'
  BY <1>1, <1>2 DEF MemoryType
<1>3. ASSUME Forget(n), UNCHANGED <<attempt, shares>>, crashes' \in 0..MaxCrashes PROVE MemoryType'
  BY <1>1, <1>3 DEF MemoryType, Forget
<1>4. ASSUME Panic(n) PROVE MemoryType'
  BY <1>1, <1>3, <1>4 DEF MemoryType, Panic
<1>5. CASE Work(n)
  <2>1. CASE MarkSessionPrepared(n)
    BY <1>2, <1>4, <2>1 DEF MarkSessionPrepared
  <2>2. CASE WriteSessionIfNotExist(n) \/ PrepareSessionSignerIfNotExist(n) \/ ReadSession(n)
    BY <1>2, <2>2 DEF WriteSessionIfNotExist, PrepareSessionSignerIfNotExist, ReadSession
  <2>3. CASE UpdateSessionSigner(n) \/ FinishResult(n) \/ Reply(n)
    BY <1>2, <2>3 DEF UpdateSessionSigner, FinishResult, Finish, Reply
  <2>4. CASE FinishTooLate(n)
    BY <1>4, <2>4 DEF FinishTooLate
  <2> QED
    BY <1>5, <2>1, <2>2, <2>3, <2>4, Zenon DEF Work
<1>6. CASE LoopInitial(n)
  BY <1>1, <1>6 DEF LoopInitial, sendSignerPrepareTransaction, MarkSessionCommitted, MemoryType
<1>7. CASE LoopPending(n)
  BY <1>1, <1>7 DEF LoopPending, sendSignerResultTransaction, MarkSessionDone, MemoryType
<1>8. CASE ListExpiredSession(n)
  BY <1>1, <1>8 DEF ListExpiredSession, MemoryType
<1>9. CASE Expire(n)
  <2>1. CASE session[n].state = "Initial"
    BY <1>1, <1>9, <2>1 DEF Expire, MemoryType
  <2> QED
    BY <1>4, <1>9, <2>1 DEF Expire
<1>10. ASSUME queueOperation(n)
       PROVE  /\ operations' \in [Nodes -> BOOLEAN] /\ attempt' \in [Nodes -> Nat]
              /\ running' \in [Nodes -> BOOLEAN] /\ view' = view
  BY <1>1, <1>10 DEF queueOperation, MemoryType
<1>11. CASE StartPrepared(n)
  BY <1>1, <1>10, <1>11 DEF StartPrepared, MemoryType
<1>12. CASE StartAccepted(n)
  BY <1>1, <1>10, <1>12 DEF StartAccepted, MemoryType
<1>13. CASE SendShare(n)
  <2>1. PICK v \in [Nodes -> 0..Max({attempt[m] : m \in Nodes})] :
          /\ \A m \in Nodes : IF m \in Members(n) THEN v[m] \in 1..attempt[m] ELSE v[m] = 0
          /\ view' = [view EXCEPT ![n] = v]
          /\ shares' = shares \cup {<<n, v>>}
    BY <1>13, Zenon DEF SendShare, Share
  <2>2. v \in Signatures
    BY <1>1, <2>1 DEF Signatures, MemoryType
  <2> QED
    BY <1>1, <1>13, <2>1, <2>2 DEF SendShare, Share, MemoryType
<1>14. ASSUME NEW marked, NEW e, EndSign(n, marked, e) PROVE MemoryType'
  <2>1. CASE marked
    BY <1>1, <1>14, <2>1, Zenon DEF EndSign, MemoryType
  <2>2. CASE ~marked /\ prepared[n] = "waiting"
    BY <1>4, <1>14, <2>2 DEF EndSign
  <2>3. CASE ~marked /\ prepared[n] # "waiting"
    BY <1>1, <1>14, <2>3, Zenon DEF EndSign, MemoryType
  <2> QED
    BY <2>1, <2>2, <2>3
<1>15. CASE EndComputation(n)
  BY <1>14, <1>15, Zenon DEF EndComputation, MarkSessionPending, FailSession
<1>16. CASE \E m \in Nodes : AcceptIncomingMessage(n, m)
  BY <1>1, <1>16 DEF AcceptIncomingMessage, MemoryType
<1>17. CASE Crash(n)
  BY <1>1, <1>3, <1>17, FaultAssumption DEF Crash, MemoryType
<1> QED
  BY <1>5, <1>6, <1>7, <1>8, <1>9, <1>11, <1>12, <1>13, <1>15, <1>16, <1>17, Zenon
     DEF NodeNext, LoopPrepared

(* The effect of writing the row of a session.                             *)
LEMMA ToEffect ==
    ASSUME TypeOK, NEW n \in Nodes, NEW s \in States, NEW c \in BOOLEAN, NEW p \in BOOLEAN,
           NEW e \in Extras, To(n, s, c, p, e)
    PROVE  /\ session' \in [Nodes -> SessionRow]
           /\ session'[n].state = s /\ session'[n].prepared = p /\ session'[n].extra = e
           /\ \A k \in Nodes : k # n => session'[k] = session[k]
<1>1. session \in [Nodes -> SessionRow]
  BY DEF TypeOK
<1>2. Row(s, c, p, e) \in SessionRow
  BY DEF Row, SessionRow, States
<1>3. session'[n] = Row(s, c, p, e)
  BY <1>1 DEF To
<1>4. Row(s, c, p, e).state = s /\ Row(s, c, p, e).prepared = p /\ Row(s, c, p, e).extra = e
  BY DEF Row
<1> QED
  BY <1>1, <1>2, <1>3, <1>4 DEF To

(* The fields of the row that the statement writes.                        *)
LEMMA ToFields ==
    ASSUME TypeOK, NEW n \in Nodes, NEW s, NEW c, NEW p, NEW e, To(n, s, c, p, e)
    PROVE  session'[n].state = s /\ session'[n].prepared = p /\ session'[n].extra = e
<1>1. session \in [Nodes -> SessionRow]
  BY DEF TypeOK
<1>2. session'[n] = Row(s, c, p, e)
  BY <1>1 DEF To
<1> QED
  BY <1>2 DEF Row

(* The effect of the end of a handler.                                     *)
LEMMA WriteEffect ==
    ASSUME TypeOK, NEW n \in Nodes, NEW x \in Extras, WriteActionResults(n, x)
    PROVE  /\ results' \in [Nodes -> Seq(Extras)]
           /\ Processed(n)' = Processed(n) + 1
           /\ results'[n][Processed(n) + 1] = x
           /\ \A i \in 1..Processed(n) : results'[n][i] = results[n][i]
           /\ Step(n, Idle)
           /\ \A k \in Nodes : k # n => results'[k] = results[k]
<1>1. results[n] \in Seq(Extras) /\ results'[n] = Append(results[n], x)
  BY DEF TypeOK, WriteActionResults
<1>2. \A k \in Nodes : k # n => results'[k] = results[k]
  BY DEF TypeOK, WriteActionResults
<1>3. results' \in [Nodes -> Seq(Extras)]
  BY <1>1 DEF TypeOK, WriteActionResults
<1> QED
  BY <1>1, <1>2, <1>3 DEF WriteActionResults, Processed

(* The effect of a step of the worker.                                     *)
LEMMA StepEffect ==
    ASSUME TypeOK, NEW n \in Nodes, NEW w \in Worker, Step(n, w)
    PROVE  /\ worker' \in [Nodes -> Worker]
           /\ worker'[n] = w
           /\ \A k \in Nodes : k # n => worker'[k] = worker[k]
  BY DEF TypeOK, Step

(* The positions of the worker.                                            *)
LEMMA WorkerFields ==
    ASSUME NEW at \in {"idle", "mark", "update", "finish", "record"}, NEW r \in SessionRow,
           NEW x \in Extras
    PROVE  /\ At(at, r, x) \in Worker
           /\ At(at, r, x).at = at /\ At(at, r, x).seen = r /\ At(at, r, x).reply = x
  BY DEF At, Worker

(* The worker goes to such a position.                                     *)
LEMMA StepTo ==
    ASSUME TypeOK, NEW n \in Nodes, NEW at \in {"idle", "mark", "update", "finish", "record"},
           NEW r \in SessionRow, NEW x \in Extras, Step(n, At(at, r, x))
    PROVE  worker'[n].at = at /\ worker'[n].seen = r /\ worker'[n].reply = x
<1>1. worker'[n] = At(at, r, x)
  BY WorkerFields, StepEffect
<1> QED
  BY <1>1, WorkerFields

(* An idle worker has nothing, and a session that does not exist is empty. *)
LEMMA IdleFields ==
    /\ NoSession \in SessionRow /\ NoSession.state = "none"
    /\ Idle \in Worker /\ Idle.at = "idle"
<1>1. PICK f \in BOOLEAN : f = FALSE
  BY Zenon
<1>2. NoSession = Row("none", f, f, NoSig)
  BY <1>1, Zenon DEF NoSession, Row
<1>3. NoSession \in SessionRow /\ NoSession.state = "none"
  BY <1>2 DEF Row, SessionRow, Extras
<1>4. Idle = At("idle", NoSession, NoSig)
  BY DEF Idle, At
<1>5. At("idle", NoSession, NoSig) \in Worker /\ At("idle", NoSession, NoSig).at = "idle"
  BY <1>3, WorkerFields DEF Extras
<1> QED
  BY <1>3, <1>4, <1>5

(* The output that a handler works on.                                     *)
LEMMA OutputType ==
    ASSUME TypeOK, NEW n \in Nodes, Processed(n) < Len(log)
    PROVE  /\ Processed(n) \in Nat /\ Processed(n) + 1 \in DOMAIN log
           /\ Output(n) = log[Processed(n) + 1]
           /\ Output(n) \in Outputs
           /\ Output(n).type \in {"Prepare", "Result"}
           /\ Output(n).from \in Nodes /\ Output(n).extra \in Extras
<1>1. log \in Seq(Outputs) /\ results[n] \in Seq(Extras)
  BY DEF TypeOK
<1>2. Processed(n) \in Nat /\ Processed(n) + 1 \in 1..Len(log)
  BY <1>1 DEF Processed
<1>3. Output(n) = log[Processed(n) + 1] /\ Output(n) \in Outputs
  BY <1>1, <1>2 DEF Output, Processed
<1>4. DOMAIN log = 1..Len(log)
  BY <1>1
<1> QED
  BY <1>2, <1>3, <1>4 DEF Outputs

(* The sender m of a prepare becomes a member, unless the session is       *)
(* prepared.                                                               *)
Counted(n, m) ==
    /\ IF session[n].prepared
       THEN signers' = signers
       ELSE /\ signers'[n][m] # NoRow
            /\ m \notin Members(n) => signers'[n][m] = NoSig
            /\ m \in Members(n) => signers'[n][m] = signers[n][m]
            /\ \A k \in Nodes : k # m => signers'[n][k] = signers[n][k]
            /\ \A k \in Nodes : k # n => signers'[k] = signers[k]
    /\ \/ /\ session[n].prepared \/ Cardinality(Members(n) \cup {m}) <= threshold
          /\ WriteActionResults(n, NoSig)
       \/ /\ ~session[n].prepared /\ ~(Cardinality(Members(n) \cup {m}) <= threshold)
          /\ Step(n, At("mark", NoSession, NoSig)) /\ UNCHANGED results
    /\ UNCHANGED <<log, session, threshold>>

(* The effect of a prepare.                                                *)
LEMMA PrepareEffect ==
    ASSUME TypeOK, NEW n \in Nodes, PrepareSessionSignerIfNotExist(n)
    PROVE  /\ HasOutput(n, "Prepare") /\ Processed(n) < Len(log)
           /\ Counted(n, Output(n).from)
           /\ signers' \in [Nodes -> [Nodes -> Extras \cup {NoRow}]]
<1> DEFINE m == Output(n).from
<1>1. HasOutput(n, "Prepare") /\ Processed(n) < Len(log)
  BY DEF PrepareSessionSignerIfNotExist, HasOutput, Processed
<1>2. m \in Nodes
  BY <1>1, OutputType
<1>3. UNCHANGED <<log, session, threshold>>
  BY DEF PrepareSessionSignerIfNotExist, setting
<1>4. \/ /\ session[n].prepared \/ Cardinality(Members(n) \cup {m}) <= threshold
         /\ WriteActionResults(n, NoSig)
      \/ /\ ~session[n].prepared /\ ~(Cardinality(Members(n) \cup {m}) <= threshold)
         /\ Step(n, At("mark", NoSession, NoSig)) /\ UNCHANGED results
  BY Zenon DEF PrepareSessionSignerIfNotExist
<1>5. signers \in [Nodes -> [Nodes -> Extras \cup {NoRow}]]
  BY DEF TypeOK
<1>6. CASE session[n].prepared
  <2>1. signers' = signers
    BY <1>6 DEF PrepareSessionSignerIfNotExist
  <2> QED
    BY <1>1, <1>3, <1>4, <1>5, <1>6, <2>1 DEF Counted
<1>7. CASE ~session[n].prepared
  <2> DEFINE x == IF signers[n][m] = NoRow THEN NoSig ELSE signers[n][m]
  <2>1. signers' = [signers EXCEPT ![n][m] = x]
    BY <1>7 DEF PrepareSessionSignerIfNotExist
  <2>2. x # NoRow /\ x \in Extras
    BY <1>2, <1>5, ExtraAssumption DEF Extras
  <2>3. /\ m \notin Members(n) => x = NoSig
        /\ m \in Members(n) => x = signers[n][m]
    BY <1>2 DEF Members
  <2> HIDE DEF x, m
  <2>4. /\ signers' \in [Nodes -> [Nodes -> Extras \cup {NoRow}]]
        /\ signers'[n][m] = x
        /\ \A k \in Nodes : k # m => signers'[n][k] = signers[n][k]
        /\ \A k \in Nodes : k # n => signers'[k] = signers[k]
    BY <1>2, <1>5, <2>1, <2>2
  <2>5. Counted(n, m)
    BY <1>3, <1>4, <1>7, <2>2, <2>3, <2>4 DEF Counted
  <2> QED
    BY <1>1, <2>4, <2>5 DEF m
<1> QED
  BY <1>6, <1>7

(* The effect of a result on the row of its sender.                        *)
LEMMA UpdateEffect ==
    ASSUME TypeOK, NEW n \in Nodes, Processed(n) < Len(log), UpdateSessionSigner(n)
    PROVE  /\ signers' \in [Nodes -> [Nodes -> Extras \cup {NoRow}]]
           /\ signers'[n] = UpdateRow(n)
           /\ \A k \in Nodes : k # n => signers'[k] = signers[k]
           /\ Output(n).from \in Members(n) => signers'[n][Output(n).from] = Output(n).extra
           /\ \A k \in Nodes : k # Output(n).from \/ k \notin Members(n) =>
                signers'[n][k] = signers[n][k]
           /\ \A k \in Nodes : Members(k)' = Members(k)
<1> DEFINE m == Output(n).from
           x == Output(n).extra
<1>1. signers \in [Nodes -> [Nodes -> Extras \cup {NoRow}]] /\ m \in Nodes /\ x \in Extras
  BY OutputType DEF TypeOK
<1>2. signers' = [signers EXCEPT ![n] = UpdateRow(n)]
  BY Zenon DEF UpdateSessionSigner
<1>3. UpdateRow(n) = IF m \in Members(n) THEN [signers[n] EXCEPT ![m] = x] ELSE signers[n]
  BY DEF UpdateRow
<1> HIDE DEF m, x
<1>4. UpdateRow(n) \in [Nodes -> Extras \cup {NoRow}]
  BY <1>1, <1>3
<1>5. /\ signers' \in [Nodes -> [Nodes -> Extras \cup {NoRow}]]
      /\ signers'[n] = UpdateRow(n)
      /\ \A k \in Nodes : k # n => signers'[k] = signers[k]
  BY <1>1, <1>2, <1>4, Zenon
<1>6. /\ m \in Members(n) => signers'[n][m] = x
      /\ \A k \in Nodes : k # m \/ k \notin Members(n) => signers'[n][k] = signers[n][k]
  BY <1>1, <1>3, <1>5
<1>7. x # NoRow
  BY <1>1, ExtraAssumption
<1>8. \A k \in Nodes : Members(k)' = Members(k)
  BY <1>5, <1>6, <1>7 DEF Members
<1> QED
  BY <1>5, <1>6, <1>8 DEF m, x

(* The effect of the end of a result: a node that had no signature when    *)
(* the handler started takes that of the members.                          *)
LEMMA FinishEffect ==
    ASSUME TypeOK, NEW n \in Nodes, FinishResult(n)
    PROVE  /\ worker[n].at = "finish"
           /\ \/ session' = session
              \/ /\ session[n].state = "Initial" /\ session[n].prepared
                 /\ To(n, "Pending", session[n].committed, session[n].prepared, worker[n].reply)
           /\ \/ /\ CheckActionResultsBySessionId(n)
                 /\ Step(n, At("record", NoSession, NoSig))
              \/ /\ ~CheckActionResultsBySessionId(n)
                 /\ Step(n, At("record", NoSession, worker[n].reply))
           /\ UNCHANGED <<threshold, log, signers, results>>
<1> DEFINE r == session[n]
           absent == worker[n].seen.state = "Initial" /\ worker[n].seen.prepared
<1>1. r \in SessionRow
  BY DEF TypeOK
<1>2. \A x, y : /\ [r EXCEPT !.state = x] = Row(x, r.committed, r.prepared, r.extra)
                /\ [r EXCEPT !.committed = x] = Row(r.state, x, r.prepared, r.extra)
                /\ [r EXCEPT !.prepared = x] = Row(r.state, r.committed, x, r.extra)
                /\ [r EXCEPT !.state = x, !.extra = y] = Row(x, r.committed, r.prepared, y)
  BY <1>1, RowWritten, Zenon
<1>3. CASE absent
  <2>1. session' = [session EXCEPT ![n] = [r EXCEPT !.state = "Pending", !.extra = worker[n].reply]]
    BY <1>3, Zenon DEF FinishResult, Finish
  <2>2. To(n, "Pending", r.committed, r.prepared, worker[n].reply)
    BY <1>2, <2>1, Zenon DEF To
  <2>3. r.state = "Initial" /\ r.prepared
    BY <1>3, Zenon DEF FinishResult, Finish
  <2> QED
    BY <2>2, <2>3, Zenon DEF FinishResult, Finish, setting
<1>4. CASE ~absent
  <2>1. session' = session
    BY <1>4, Zenon DEF FinishResult, Finish
  <2> QED
    BY <2>1 DEF FinishResult, Finish, setting
<1> QED
  BY <1>3, <1>4

(* The tables, the log and the worker keep their types.                    *)
LEMMA TablesTypeStep ==
    ASSUME NodesCount, TypeOK, NEW n \in Nodes, Handling(n), Kinds(n)
    PROVE  TablesType'
<1> USE DEF setting, database
<1>1. TablesType
  BY DEF TypeOK, TablesType
<1>2. \A k \in Nodes : results[k] \in Seq(Extras) /\ Len(results[k]) \in Nat
  BY DEF TypeOK
<1>3. log \in Seq(Outputs) /\ Len(log) \in Nat
  BY DEF TypeOK
<1>4. session[n] \in SessionRow /\ worker[n] \in Worker
  BY DEF TypeOK
<1>5. /\ session[n].state \in States /\ session[n].committed \in BOOLEAN
      /\ session[n].prepared \in BOOLEAN /\ session[n].extra \in Extras
  BY <1>4, RowFields DEF States
<1>6. worker[n].seen \in SessionRow /\ worker[n].reply \in Extras
  BY <1>4 DEF Worker
<1>7. NoSig \in Extras /\ NoSession \in SessionRow /\ Idle \in Worker
  BY IdleFields DEF Extras
<1>8. ASSUME NEW w \in Worker, Step(n, w) PROVE worker' \in [Nodes -> Worker]
  BY <1>8, StepEffect
<1>9. ASSUME NEW x \in Extras, WriteActionResults(n, x), Processed(n) < Len(log)
      PROVE  /\ results' \in [Nodes -> Seq(Extras)] /\ worker' \in [Nodes -> Worker]
             /\ \A k \in Nodes : Len(results'[k]) <= Len(log)
  <2>1. /\ results' \in [Nodes -> Seq(Extras)] /\ Step(n, Idle)
        /\ Len(results'[n]) = Len(results[n]) + 1
        /\ \A k \in Nodes : k # n => results'[k] = results[k]
    BY <1>9, WriteEffect DEF Processed
  <2>2. \A k \in Nodes : Len(results'[k]) <= Len(log)
    <3> SUFFICES ASSUME NEW k \in Nodes PROVE Len(results'[k]) <= Len(log)
      OBVIOUS
    <3>1. CASE k = n
      BY <1>2, <1>3, <1>9, <2>1, <3>1 DEF Processed
    <3>2. CASE k # n
      BY <1>1, <2>1, <3>2 DEF TablesType
    <3> QED
      BY <3>1, <3>2
  <2> QED
    BY <1>7, <1>8, <2>1, <2>2
<1>10. CASE Resting /\ UNCHANGED session
  BY <1>1, <1>10 DEF Resting, TablesType
<1>11. CASE \E s \in States, c \in BOOLEAN, e \in Extras : Moved(n, s, c, e)
  <2>1. PICK s \in States, c \in BOOLEAN, e \in Extras : Moved(n, s, c, e)
    BY <1>11
  <2>2. session' \in [Nodes -> SessionRow]
    BY <1>5, <2>1, ToEffect DEF Moved
  <2> QED
    BY <1>1, <2>1, <2>2 DEF Moved, Resting, TablesType
<1>12. CASE Restarted(n)
  <2>1. worker' \in [Nodes -> Worker]
    BY <1>7, <1>8, <1>12, Zenon DEF Restarted, Step
  <2> QED
    BY <1>1, <1>12, <2>1 DEF Restarted, TablesType
<1>13. CASE \E type \in {"Prepare", "Result"}, extra \in Extras : Sends(n, type, extra)
  <2>1. PICK type \in {"Prepare", "Result"}, extra \in Extras : Sends(n, type, extra)
    BY <1>13
  <2>2. [type |-> type, from |-> n, extra |-> extra] \in Outputs
    BY SMTT(30) DEF Outputs
  <2>3. log' \in Seq(Outputs) /\ Len(log') = Len(log) + 1
    BY <1>3, <2>1, <2>2, Appended DEF Sends
  <2>4. UNCHANGED <<threshold, session, signers, results, worker>>
    BY <2>1 DEF Sends
  <2> QED
    BY <1>1, <1>2, <1>3, <2>3, <2>4 DEF TablesType
<1>14. CASE PrepareSessionSignerIfNotExist(n)
  <2>1. /\ Processed(n) < Len(log) /\ UNCHANGED <<log, session, threshold>>
        /\ signers' \in [Nodes -> [Nodes -> Extras \cup {NoRow}]]
        /\ \/ WriteActionResults(n, NoSig)
           \/ Step(n, At("mark", NoSession, NoSig)) /\ UNCHANGED results
    BY <1>14, PrepareEffect, Zenon DEF Counted
  <2>2. CASE WriteActionResults(n, NoSig)
    BY <1>1, <1>7, <1>9, <2>1, <2>2 DEF TablesType
  <2>3. CASE Step(n, At("mark", NoSession, NoSig)) /\ UNCHANGED results
    <3>1. worker' \in [Nodes -> Worker]
      BY <1>7, <1>8, <2>3, WorkerFields
    <3> QED
      BY <1>1, <2>1, <2>3, <3>1 DEF TablesType
  <2> QED
    BY <2>1, <2>2, <2>3
<1>15. CASE Marked(n)
  <2>1. session' \in [Nodes -> SessionRow]
    BY <1>5, <1>15, ToEffect, Zenon DEF Marked, States
  <2> QED
    BY <1>1, <1>7, <1>9, <1>15, <2>1 DEF Marked, Handling, TablesType
<1>16. CASE ReadSession(n)
  <2>1. worker' \in [Nodes -> Worker]
    BY <1>4, <1>7, <1>8, <1>16, WorkerFields DEF ReadSession
  <2> QED
    BY <1>1, <1>16, <2>1 DEF ReadSession, TablesType
<1>17. CASE UpdateSessionSigner(n)
  <2>1. Processed(n) < Len(log)
    BY <1>17 DEF UpdateSessionSigner, Handling
  <2>2. /\ signers' \in [Nodes -> [Nodes -> Extras \cup {NoRow}]]
        /\ UpdateRow(n) \in [Nodes -> Extras \cup {NoRow}]
    BY <1>17, <2>1, UpdateEffect
  <2>3. session' \in [Nodes -> SessionRow]
    <3>1. \/ session' = session
          \/ session' = [session EXCEPT ![n].state = "Pending"]
      BY <1>17 DEF UpdateSessionSigner
    <3>2. [session[n] EXCEPT !.state = "Pending"]
            = Row("Pending", session[n].committed, session[n].prepared, session[n].extra)
      BY <1>4, RowWritten, Zenon
    <3>3. session' = session \/ To(n, "Pending", session[n].committed, session[n].prepared,
                                   session[n].extra)
      BY <3>1, <3>2 DEF To
    <3> QED
      BY <1>1, <1>5, <3>3, ToEffect DEF TablesType, States
  <2>4. CASE verifySessionSignerResults(UpdateRow(n))
    <3>1. /\ Step(n, At("finish", worker[n].seen, FirstSig(UpdateRow(n))))
          /\ UNCHANGED <<threshold, log, results>>
      BY <1>17, <2>4 DEF UpdateSessionSigner
    <3>2. worker' \in [Nodes -> Worker]
      BY <1>6, <1>8, <2>2, <3>1, WorkerFields, FirstSigType
    <3> QED
      BY <1>1, <2>2, <2>3, <3>1, <3>2 DEF TablesType
  <2>5. CASE ~verifySessionSignerResults(UpdateRow(n))
    <3>1. WriteActionResults(n, NoSig) /\ UNCHANGED <<threshold, log>>
      BY <1>17, <2>5 DEF UpdateSessionSigner
    <3> QED
      BY <1>1, <1>7, <1>9, <2>1, <2>2, <2>3, <3>1 DEF TablesType
  <2> QED
    BY <2>4, <2>5
<1>18. CASE FinishResult(n)
  <2>1. /\ \/ session' = session
           \/ To(n, "Pending", session[n].committed, session[n].prepared, worker[n].reply)
        /\ \/ Step(n, At("record", NoSession, NoSig))
           \/ Step(n, At("record", NoSession, worker[n].reply))
        /\ UNCHANGED <<threshold, log, signers, results>>
    BY <1>18, FinishEffect
  <2>2. session' \in [Nodes -> SessionRow]
    BY SMTT(30), <1>1, <1>5, <1>6, <2>1, ToEffect DEF TablesType, States
  <2>3. worker' \in [Nodes -> Worker]
    BY <1>6, <1>7, <1>8, <2>1, WorkerFields
  <2> QED
    BY <1>1, <2>1, <2>2, <2>3 DEF TablesType
<1>19. CASE Reply(n)
  BY <1>1, <1>6, <1>9, <1>19 DEF Reply, Handling, TablesType
<1> QED
  BY <1>10, <1>11, <1>12, <1>13, <1>14, <1>15, <1>16, <1>17, <1>18, <1>19, Zenon DEF Kinds

(* All types are kept.                                                     *)
LEMMA TypeStep ==
    ASSUME NodesCount, TypeOK, NEW n \in Nodes, Handling(n), NodeNext(n)
    PROVE  TypeOK'
<1>1. TablesType'
  BY StepKinds, TablesTypeStep
<1>2. MemoryType'
  BY MemoryTypeStep
<1> QED
  BY <1>1, <1>2, Zenon DEF TypeOK, TablesType, MemoryType

-----------------------------------------------------------------------------
(* The log.  Its outputs are typed.                                        *)
LEMMA LogType ==
    ASSUME TypeOK
    PROVE  /\ Len(log) \in Nat /\ DOMAIN log = 1..Len(log)
           /\ \A i \in DOMAIN log : /\ i \in Nat \ {0} /\ log[i] \in Outputs
                                    /\ log[i].from \in Nodes /\ log[i].extra \in Extras
                                    /\ log[i].type \in {"Prepare", "Result"}
           /\ \A n \in Nodes : Processed(n) \in Nat /\ Processed(n) <= Len(log)
                               /\ DOMAIN results[n] = 1..Processed(n)
           /\ threshold \in Nat
<1>1. log \in Seq(Outputs)
  BY DEF TypeOK
<1>2. \A n \in Nodes : results[n] \in Seq(Extras) /\ Len(results[n]) <= Len(log)
  BY DEF TypeOK
<1>3. \A i \in DOMAIN log : i \in Nat \ {0} /\ log[i] \in Outputs
  BY <1>1
<1>4. threshold \in Nat
  BY ThresholdAssumption DEF TypeOK
<1> QED
  BY <1>1, <1>2, <1>3, <1>4 DEF Outputs, Processed

(* The positions of the log up to an output, and the outputs before it.    *)
LEMMA LogBefore ==
    ASSUME TypeOK, NEW L \in Nat
    PROVE  /\ 1..(L + 1) = (1..L) \cup {L + 1}
           /\ \A j \in DOMAIN log : j <= L + 1 => j \in 1..(L + 1) /\ j <= L + 1 + 1
           /\ L + 1 \in DOMAIN log => \A i \in 1..L : i \in DOMAIN log /\ i # L + 1
           /\ L + 1 \in DOMAIN log => \A j \in 1..(L + 1) : j \in DOMAIN log /\ j <= L + 1
<1>1. DOMAIN log = 1..Len(log) /\ Len(log) \in Nat
  BY LogType, Zenon
<1>2. 1..(L + 1) = (1..L) \cup {L + 1}
  OBVIOUS
<1> QED
  BY <1>1, <1>2

(* What the log says depends on the log and the threshold alone.           *)
LEMMA LogSame ==
    ASSUME UNCHANGED <<threshold, log>>
    PROVE  /\ \A k : Senders(k)' = Senders(k)
           /\ \A c : Decisive(c)' <=> Decisive(c)
           /\ \A M, sig, k : AllResults(M, sig, k)' <=> AllResults(M, sig, k)
           /\ \A M, i : Decides(M, i)' <=> Decides(M, i)
           /\ \A M, i : ReplyTo(M, i)' = ReplyTo(M, i)
           /\ LogInv <=> LogInv'
<1>1. \A k : Senders(k)' = Senders(k)
  BY DEF Senders
<1>2. \A c : Decisive(c)' <=> Decisive(c)
  BY <1>1 DEF Decisive
<1>3. \A M, sig, k : AllResults(M, sig, k)' <=> AllResults(M, sig, k)
  BY DEF AllResults, HasResult
<1>4. \A M, i : Decides(M, i)' <=> Decides(M, i)
  BY <1>3 DEF Decides
<1>5. \A M, i : ReplyTo(M, i)' = ReplyTo(M, i)
  BY <1>4 DEF ReplyTo
<1>6. LogInv <=> LogInv'
  BY <1>2, <1>3, <1>4, Zenon DEF LogInv, SentOnce, ResultsLate, SomeDecides
<1> QED
  BY <1>1, <1>2, <1>3, <1>4, <1>5, <1>6

(* A new output leaves what the earlier ones say.                          *)
LEMMA LogGrows ==
    ASSUME TypeOK, NEW n \in Nodes, NEW type \in {"Prepare", "Result"}, NEW extra \in Extras,
           Sends(n, type, extra)
    PROVE  /\ Len(log') = Len(log) + 1 /\ DOMAIN log' = DOMAIN log \cup {Len(log) + 1}
           /\ \A i \in DOMAIN log : log'[i] = log[i]
           /\ /\ log'[Len(log) + 1].type = type /\ log'[Len(log) + 1].from = n
              /\ log'[Len(log) + 1].extra = extra
           /\ \A k \in 0..Len(log) : Senders(k)' = Senders(k)
           /\ \A c \in DOMAIN log : Decisive(c)' <=> Decisive(c)
           /\ \A M, sig : \A k \in 0..Len(log) : AllResults(M, sig, k)' <=> AllResults(M, sig, k)
           /\ \A M : \A i \in DOMAIN log : Decides(M, i)' <=> Decides(M, i)
           /\ \A M : \A i \in DOMAIN log : ReplyTo(M, i)' = ReplyTo(M, i)
<1> DEFINE o == [type |-> type, from |-> n, extra |-> extra]
<1>1. o.type = type /\ o.from = n /\ o.extra = extra
  OBVIOUS
<1>1a. o \in Outputs
  BY DEF Outputs
<1>2. log' = Append(log, o) /\ threshold' = threshold
  BY DEF Sends
<1> HIDE DEF o
<1>3. log \in Seq(Outputs) /\ Len(log) \in Nat /\ DOMAIN log = 1..Len(log)
  BY DEF TypeOK
<1>4. /\ Len(log') = Len(log) + 1 /\ DOMAIN log' = DOMAIN log \cup {Len(log) + 1}
      /\ \A i \in DOMAIN log : log'[i] = log[i]
      /\ log'[Len(log) + 1] = o
  BY <1>1a, <1>2, <1>3, Appended
<1>5. \A k \in 0..Len(log) : \A i \in 1..k : log'[i] = log[i]
  <2>1. \A k \in 0..Len(log) : \A i \in 1..k : i \in DOMAIN log
    BY <1>3
  <2> QED
    BY Zenon, <1>4, <2>1
<1>6. \A k \in 0..Len(log) : Senders(k)' = Senders(k)
  BY <1>5 DEF Senders
<1>7. \A c \in DOMAIN log : Decisive(c)' <=> Decisive(c)
  <2> SUFFICES ASSUME NEW c \in DOMAIN log PROVE Decisive(c)' <=> Decisive(c)
    OBVIOUS
  <2>1. c \in 0..Len(log) /\ c \in DOMAIN log' /\ log'[c] = log[c]
    BY <1>3, <1>4
  <2> QED
    BY <1>2, <1>6, <2>1, Zenon DEF Decisive
<1>8. \A M, sig : \A k \in 0..Len(log) : AllResults(M, sig, k)' <=> AllResults(M, sig, k)
  <2>1. \A m, sig : \A k \in 0..Len(log) : HasResult(m, sig, k)' <=> HasResult(m, sig, k)
    BY <1>5 DEF HasResult
  <2> QED
    BY <2>1, Zenon DEF AllResults
<1>9. \A M : \A i \in DOMAIN log : Decides(M, i)' <=> Decides(M, i)
  <2> SUFFICES ASSUME NEW M, NEW i \in DOMAIN log PROVE Decides(M, i)' <=> Decides(M, i)
    OBVIOUS
  <2>1. i \in 0..Len(log) /\ log'[i] = log[i]
    BY <1>3, <1>4
  <2> QED
    BY <1>8, <2>1, Zenon DEF Decides
<1>10. \A M : \A i \in DOMAIN log : ReplyTo(M, i)' = ReplyTo(M, i)
  BY <1>4, <1>9, Zenon DEF ReplyTo
<1> QED
  BY <1>1, <1>4, <1>6, <1>7, <1>8, <1>9, <1>10, Zenon

(* Senders are nodes, and more outputs have more senders.                  *)
LEMMA SendersGrow ==
    ASSUME NodesCount, NEW j \in Nat, NEW k \in Nat, j <= k
    PROVE  /\ Cardinality(Senders(k)) \in Nat
           /\ Senders(k) \subseteq Nodes
           /\ Senders(j) \subseteq Senders(k)
           /\ Cardinality(Senders(j)) <= Cardinality(Senders(k))
<1>1. Senders(k) \subseteq Nodes /\ Senders(j) \subseteq Senders(k)
  BY DEF Senders
<1> QED
  BY <1>1, NodeSet, NodeSubset

(* There is one decisive prepare.                                          *)
LEMMA DecisiveUnique ==
    ASSUME NodesCount, TypeOK, SentOnce, NEW c, NEW d, Decisive(c), Decisive(d)
    PROVE  c = d
<1>1. ASSUME NEW a, NEW b, Decisive(a), Decisive(b), a < b PROVE FALSE
  <2>1. a \in DOMAIN log /\ b \in DOMAIN log /\ log[a].type = "Prepare" /\ log[b].type = "Prepare"
    BY <1>1, Zenon DEF Decisive
  <2>2. a \in Nat \ {0} /\ b \in Nat \ {0} /\ log[b].from \in Nodes /\ DOMAIN log = 1..Len(log)
        /\ Len(log) \in Nat
    BY <2>1, LogType, Zenon
  <2>3. log[b].from \in Senders(b)
    BY <2>1, <2>2 DEF Senders
  <2>4. log[b].from \notin Senders(a)
    <3> SUFFICES ASSUME NEW i \in 1..a, log[i].type = "Prepare", log[i].from = log[b].from PROVE FALSE
      BY Zenon DEF Senders
    <3>1. i \in DOMAIN log
      BY <2>1, <2>2
    <3>2. i = b
      BY <2>1, <3>1, Zenon DEF SentOnce
    <3> QED
      BY <1>1, <2>2, <3>2
  <2>5. Senders(a) \subseteq Senders(b) /\ Senders(b) \subseteq Nodes /\ Senders(a) # Senders(b)
    <3>1. a \in Nat /\ b \in Nat /\ a <= b
      BY <1>1, <2>2
    <3> QED
      BY <2>3, <2>4, <3>1, SendersGrow, Zenon
  <2>6. Cardinality(Senders(a)) # Cardinality(Senders(b))
    BY <2>5, NodeSubset
  <2> QED
    BY <1>1, <2>6 DEF Decisive
<1>2. c \in Nat /\ d \in Nat
  BY LogType DEF Decisive
<1> QED
  BY <1>1, <1>2

(* One result decides for M.                                               *)
LEMMA DecidesUnique ==
    ASSUME TypeOK, SentOnce, NEW M, NEW i \in DOMAIN log, NEW j \in DOMAIN log,
           Decides(M, i), Decides(M, j)
    PROVE  i = j
<1>1. ASSUME NEW a \in DOMAIN log, NEW b \in DOMAIN log, Decides(M, a), Decides(M, b) PROVE b <= a
  <2>1. /\ log[b].type = "Result" /\ log[b].from \in M
        /\ HasResult(log[b].from, log[a].extra, a)
    BY <1>1, Zenon DEF Decides, AllResults
  <2>2. PICK x \in 1..a : log[x].type = "Result" /\ log[x].from = log[b].from
    BY <2>1, Zenon DEF HasResult
  <2>3. x \in DOMAIN log /\ x <= a
    BY LogType
  <2>4. x = b
    BY <2>1, <2>2, <2>3, Zenon DEF SentOnce
  <2> QED
    BY <2>3, <2>4
<1>2. i \in Nat /\ j \in Nat
  BY LogType
<1> QED
  BY <1>1, <1>2

-----------------------------------------------------------------------------
(* The result of a member finds its session Pending or Done.               *)
LEMMA UpdateRests ==
    ASSUME TypeOK, SentInv, NEW n \in Nodes, Handling(n), UpdateSessionSigner(n)
    PROVE  /\ session' = session /\ UNCHANGED <<threshold, log>>
           /\ worker[n].at = "update" /\ Processed(n) < Len(log) /\ Output(n).type = "Result"
<1>1. worker[n].at = "update" /\ UNCHANGED <<threshold, log>>
  BY DEF UpdateSessionSigner, setting
<1>2. Processed(n) < Len(log) /\ Output(n).type = "Result"
  BY <1>1 DEF Handling
<1>3. Output(n) = log[Processed(n) + 1] /\ Processed(n) + 1 \in DOMAIN log
  BY <1>2, OutputType, Zenon
<1>4. Output(n).from = n => session[n].state \in {"Pending", "Done"}
  BY <1>2, <1>3, Zenon DEF SentInv
<1>5. ~(Output(n).from = n /\ n \in Members(n) /\ session[n].state = "Initial")
  BY <1>4
<1>6. session' = session
  BY <1>5, Zenon DEF UpdateSessionSigner
<1> QED
  BY <1>1, <1>2, <1>6

(* The session of n moves, but not back, and an extra stays.               *)
SessionMoves(n) ==
    /\ \A k \in Nodes : k # n => session'[k] = session[k]
    /\ \A k \in Nodes : session[k].state \in {"Pending", "Done"} =>
        session'[k].state \in {"Pending", "Done"} /\ session'[k].extra = session[k].extra
    /\ \A k \in Nodes : session'[k].state = "none" => session[k].state = "none"
    /\ \A k \in Nodes : session[k].prepared => session'[k].prepared
    /\ \A k \in Nodes : session'[k].extra # NoSig => session'[k].state \in {"Pending", "Done"}

(* A step moves the session of one node at most, never back, and never     *)
(* changes the extra of one that is Pending or Done.                       *)
LEMMA SessionStep ==
    ASSUME TypeOK, SentInv, NEW n \in Nodes, Handling(n), \A k \in Nodes : Written(k), Kinds(n)
    PROVE  SessionMoves(n)
<1>1. /\ session[n].state \in States /\ session[n].committed \in BOOLEAN
      /\ session[n].prepared \in BOOLEAN /\ session[n].extra \in Extras
  BY RowFields DEF TypeOK, States
<1>2. \A k \in Nodes : session[k].extra # NoSig => session[k].state \in {"Pending", "Done"}
  BY Zenon DEF Written
<1>3. CASE session' = session
  BY <1>2, <1>3, ZenonT(40) DEF SessionMoves
<1>4. ASSUME NEW s \in States, NEW c \in BOOLEAN, NEW p \in BOOLEAN, NEW e \in Extras,
             To(n, s, c, p, e),
             s = "none" => session[n].state = "none",
             session[n].state \in {"Pending", "Done"} =>
                s \in {"Pending", "Done"} /\ e = session[n].extra,
             session[n].prepared => p,
             e # NoSig => s \in {"Pending", "Done"}
      PROVE  SessionMoves(n)
  <2>1. /\ session'[n].state = s /\ session'[n].prepared = p /\ session'[n].extra = e
        /\ \A k \in Nodes : k # n => session'[k] = session[k]
    BY <1>4, ToEffect
  <2> QED
    BY <1>2, <1>4, <2>1, Zenon DEF SessionMoves
<1>5. CASE \E s \in States, c \in BOOLEAN, e \in Extras : Moved(n, s, c, e)
  <2>1. PICK s \in States, c \in BOOLEAN, e \in Extras : Moved(n, s, c, e)
    BY <1>5
  <2>2. e # NoSig => s \in {"Pending", "Done"}
    BY <1>2, <2>1 DEF Moved
  <2> QED
    BY <1>1, <1>4, <2>1, <2>2, Zenon DEF Moved
<1>6. CASE Marked(n)
  <2>1. session[n].extra = NoSig
    BY <1>2, <1>6 DEF Marked
  <2>2. TRUE \in BOOLEAN /\ "Initial" \in States
    BY DEF States
  <2>3. session[n].state = "Initial" /\ To(n, "Initial", session[n].committed, TRUE, session[n].extra)
    BY <1>6, Zenon DEF Marked
  <2> QED
    BY <1>1, <1>4, <2>1, <2>2, <2>3, Zenon
<1>7. CASE FinishResult(n)
  <2>1. CASE session[n].state = "Initial" /\ To(n, "Pending", session[n].committed,
                                                session[n].prepared, worker[n].reply)
    <3>1. worker[n].reply \in Extras
      BY DEF TypeOK, Worker
    <3> QED
      BY <1>1, <1>4, <2>1, <3>1 DEF States
  <2> QED
    BY <1>3, <1>7, <2>1, FinishEffect, Zenon
<1>8. CASE UpdateSessionSigner(n)
  BY <1>3, <1>8, UpdateRests, ZenonT(40)
<1>9. CASE PrepareSessionSignerIfNotExist(n)
  BY <1>3, <1>9 DEF PrepareSessionSignerIfNotExist
<1>10. CASE ReadSession(n) \/ Reply(n)
  BY <1>3, <1>10 DEF ReadSession, Reply, database
<1>11. CASE Restarted(n) \/ (Resting /\ UNCHANGED session)
  BY <1>3, <1>11 DEF Restarted
<1>12. CASE \E type \in {"Prepare", "Result"}, extra \in Extras : Sends(n, type, extra)
  BY <1>3, <1>12 DEF Sends
<1> QED
  BY <1>5, <1>6, <1>7, <1>8, <1>9, <1>10, <1>11, <1>12, Zenon DEF Kinds

(* The loops send, and no other step changes the log.                      *)
LEMMA LogSteps ==
    ASSUME TypeOK, SentInv, NEW n \in Nodes, Handling(n), Kinds(n)
    PROVE  \/ UNCHANGED <<threshold, log>>
           \/ \E type \in {"Prepare", "Result"}, extra \in Extras : Sends(n, type, extra)
<1>1. CASE Resting \/ Restarted(n) \/ Marked(n)
  BY <1>1, Zenon DEF Resting, Restarted, Marked
<1>2. CASE \E s \in States, c \in BOOLEAN, e \in Extras : Moved(n, s, c, e)
  BY <1>2, Zenon DEF Moved, Resting
<1>3. CASE PrepareSessionSignerIfNotExist(n) \/ ReadSession(n) \/ Reply(n)
  BY <1>3, Zenon DEF PrepareSessionSignerIfNotExist, ReadSession, Reply, setting
<1>4. CASE UpdateSessionSigner(n) \/ FinishResult(n)
  BY <1>4, FinishEffect, UpdateRests, Zenon
<1> QED
  BY <1>1, <1>2, <1>3, <1>4, Zenon DEF Kinds

(* A node whose session has left Initial has a decisive prepare.           *)
LEMMA PastPreparing ==
    ASSUME NEW n \in Nodes, Stage(n), session[n].state \in {"Pending", "Done"}
    PROVE  \E c \in DOMAIN log : PreparedBy(n, c)
  BY DEF Stage, Preparing

(* The log keeps its order of things.                                      *)
LEMMA LogStep ==
    ASSUME TypeOK, LogInv, SentInv, NEW n \in Nodes, Handling(n), Stage(n),
           \A k \in Nodes : Written(k), Kinds(n)
    PROVE  LogInv' /\ SentInv'
<1>1. SessionMoves(n)
  BY SessionStep
<1>2. SentOnce /\ ResultsLate /\ SomeDecides
  BY DEF LogInv
<1>3. \A i \in DOMAIN log : log[i].from \in Nodes
  BY LogType
<1>4. CASE UNCHANGED <<threshold, log>>
  <2>1. LogInv'
    BY <1>4, LogSame, Zenon
  <2>2. SentInv'
    <3> SUFFICES ASSUME NEW i \in DOMAIN log, log[i].type = "Result"
                 PROVE  /\ session'[log[i].from].state \in {"Pending", "Done"}
                        /\ session'[log[i].from].extra = log[i].extra
      BY <1>4, Zenon DEF SentInv
    <3>1. /\ log[i].from \in Nodes /\ session[log[i].from].state \in {"Pending", "Done"}
          /\ session[log[i].from].extra = log[i].extra
      BY <1>3, Zenon DEF SentInv
    <3> QED
      BY <1>1, <3>1 DEF SessionMoves
  <2> QED
    BY <2>1, <2>2
<1>5. ASSUME NEW type \in {"Prepare", "Result"}, NEW extra \in Extras, Sends(n, type, extra)
      PROVE  LogInv' /\ SentInv'
  <2>0. PICK new : new = Len(log) + 1
    OBVIOUS
  <2>1. /\ DOMAIN log' = DOMAIN log \cup {new}
        /\ \A i \in DOMAIN log : log'[i] = log[i]
        /\ log'[new].type = type /\ log'[new].from = n /\ log'[new].extra = extra
        /\ \A c \in DOMAIN log : Decisive(c)' <=> Decisive(c)
        /\ \A M, sig : \A k \in 0..Len(log) : AllResults(M, sig, k)' <=> AllResults(M, sig, k)
        /\ \A M : \A i \in DOMAIN log : Decides(M, i)' <=> Decides(M, i)
    BY <1>5, <2>0, LogGrows, Zenon
  <2>2. /\ ~Sent(n, type) /\ session' = session
        /\ type = "Result" => session[n].state = "Pending" /\ extra = session[n].extra
    BY <1>5 DEF Sends
  <2>3. Len(log) \in Nat /\ DOMAIN log = 1..Len(log)
    BY LogType
  <2>4. /\ new \notin DOMAIN log /\ \A i \in DOMAIN log : i < new /\ i \in Nat
        /\ DOMAIN log = 1..Len(log) /\ \A k \in DOMAIN log : k \in 0..Len(log)
    BY <2>0, <2>3
  <2>5. SentOnce'
    <3> SUFFICES ASSUME NEW i \in DOMAIN log', NEW j \in DOMAIN log',
                        log'[i].type = log'[j].type, log'[i].from = log'[j].from
                 PROVE  i = j
      BY Zenon DEF SentOnce
    <3>1. \A x \in DOMAIN log : ~(log'[x].type = type /\ log'[x].from = n)
      BY <2>1, <2>2, Zenon DEF Sent
    <3>2. CASE i \in DOMAIN log /\ j \in DOMAIN log
      BY <1>2, <2>1, <3>2, Zenon DEF SentOnce
    <3> QED
      BY <2>1, <3>1, <3>2, Zenon
  <2>6. ResultsLate'
    <3> SUFFICES ASSUME NEW i \in DOMAIN log', log'[i].type = "Result"
                 PROVE  \E c \in DOMAIN log' : c < i /\ Decisive(c)'
      BY Zenon DEF ResultsLate
    <3>1. CASE i \in DOMAIN log
      <4>1. PICK c \in DOMAIN log : c < i /\ Decisive(c)
        BY <1>2, <2>1, <3>1, Zenon DEF ResultsLate
      <4> QED
        BY <2>1, <4>1, Zenon
    <3>2. CASE i = new
      <4>1. session[n].state = "Pending"
        BY <2>1, <2>2, <3>2, Zenon
      <4>2. PICK c \in DOMAIN log : Decisive(c)
        BY <4>1, PastPreparing, Zenon DEF PreparedBy
      <4> QED
        BY <2>1, <2>4, <3>2, <4>2, Zenon
    <3> QED
      BY <2>1, <3>1, <3>2, Zenon
  <2>7. SomeDecides'
    <3> SUFFICES ASSUME NEW M \in SUBSET Nodes, NEW sig \in Signatures, NEW k \in DOMAIN log',
                        M # {}, AllResults(M, sig, k)'
                 PROVE  \E i \in 1..k : Decides(M, i)'
      BY Zenon DEF SomeDecides
    <3>1. ASSUME NEW j \in DOMAIN log, AllResults(M, sig, j), 1..j \subseteq 1..k
          PROVE  \E i \in 1..k : Decides(M, i)'
      <4>1. PICK i \in 1..j : Decides(M, i)
        BY <1>2, <3>1, Zenon DEF SomeDecides
      <4>2. i \in DOMAIN log
        BY <2>3, <3>1
      <4> QED
        BY <2>1, <3>1, <4>1, <4>2, Zenon
    <3>2. CASE k \in DOMAIN log
      <4>1. AllResults(M, sig, k)
        BY <2>1, <2>4, <3>2, Zenon
      <4> QED
        BY <3>1, <3>2, <4>1, Zenon
    <3>3. CASE k = new
      <4>1. ASSUME NEW m \in M PROVE \/ HasResult(m, sig, Len(log))
                                     \/ m = n /\ type = "Result" /\ extra = sig
        <5>1. PICK j \in 1..new : log'[j].type = "Result" /\ log'[j].from = m /\ log'[j].extra = sig
          BY <3>3, <4>1, Zenon DEF AllResults, HasResult
        <5>2. j \in 1..Len(log) \/ j = new
          BY <2>0, <2>3
        <5> QED
          BY <2>1, <2>3, <5>1, <5>2, Zenon DEF HasResult
      <4>2. CASE \A m \in M : HasResult(m, sig, Len(log))
        <5>1. Len(log) \in DOMAIN log
          <6>1. PICK m \in M : HasResult(m, sig, Len(log))
            BY <4>2, Zenon
          <6> QED
            BY <2>3, <6>1 DEF HasResult
        <5>2. 1..Len(log) \subseteq 1..k
          BY <2>0, <2>3, <3>3
        <5> QED
          BY <3>1, <4>2, <5>1, <5>2, Zenon DEF AllResults
      <4>3. CASE n \in M /\ type = "Result" /\ extra = sig
        <5>1. sig # NoSig
          BY ExtraAssumption
        <5>2. Decides(M, new)'
          BY <2>1, <3>3, <4>3, <5>1, ZenonT(40) DEF Decides
        <5>3. new \in 1..k
          BY <2>0, <2>3, <3>3
        <5> QED
          BY <5>2, <5>3, Zenon
      <4> QED
        BY <4>1, <4>2, <4>3, Zenon
    <3> QED
      BY <2>1, <3>2, <3>3, Zenon
  <2>8. SentInv'
    <3> SUFFICES ASSUME NEW i \in DOMAIN log', log'[i].type = "Result"
                 PROVE  /\ session[log'[i].from].state \in {"Pending", "Done"}
                        /\ session[log'[i].from].extra = log'[i].extra
      BY <2>2, Zenon DEF SentInv
    <3>1. CASE i \in DOMAIN log
      BY <2>1, <3>1, Zenon DEF SentInv
    <3>2. CASE i = new
      BY <2>1, <2>2, <3>2, Zenon
    <3> QED
      BY <2>1, <3>1, <3>2, Zenon
  <2> QED
    BY <2>5, <2>6, <2>7, <2>8, Zenon DEF LogInv
<1> QED
  BY <1>4, <1>5, LogSteps, Zenon

-----------------------------------------------------------------------------
(* The tables of a node.                                                   *)
SameTables(k) ==
    /\ session'[k] = session[k] /\ signers'[k] = signers[k]
    /\ results'[k] = results[k] /\ worker'[k] = worker[k]

(* A step of a node leaves the tables of the others.                       *)
LEMMA OthersKept ==
    ASSUME TypeOK, SentInv, NEW n \in Nodes, Handling(n), \A k \in Nodes : Written(k), Kinds(n),
           NEW k \in Nodes, k # n
    PROVE  SameTables(k)
<1>1. session'[k] = session[k]
  BY SessionStep, Zenon DEF SessionMoves
<1>2. ASSUME NEW w, Step(n, w) PROVE worker'[k] = worker[k]
  BY Zenon, <1>2 DEF TypeOK, Step
<1>3. ASSUME NEW x, WriteActionResults(n, x) PROVE worker'[k] = worker[k] /\ results'[k] = results[k]
  BY ZenonT(20), <1>3 DEF TypeOK, Step, WriteActionResults
<1>4. CASE Resting \/ Restarted(n)
  BY Zenon, <1>1, <1>2, <1>4 DEF Resting, Restarted, Step, SameTables
<1>5. CASE \E s \in States, c \in BOOLEAN, e \in Extras : Moved(n, s, c, e)
  BY <1>4, <1>5, Zenon DEF Moved
<1>6. CASE \E type \in {"Prepare", "Result"}, extra \in Extras : Sends(n, type, extra)
  BY <1>1, <1>6, Zenon DEF Sends, SameTables
<1>7. CASE PrepareSessionSignerIfNotExist(n)
  <2>1. Counted(n, Output(n).from)
    BY Zenon, <1>7, PrepareEffect
  <2>2. signers'[k] = signers[k]
    BY <2>1, Zenon DEF Counted
  <2>3. worker'[k] = worker[k] /\ results'[k] = results[k]
    BY <1>2, <1>3, <2>1, Zenon DEF Counted
  <2> QED
    BY Zenon, <1>1, <2>2, <2>3 DEF SameTables
<1>8. CASE Marked(n) \/ Reply(n) \/ ReadSession(n)
  BY <1>1, <1>2, <1>3, <1>8, ZenonT(40) DEF Marked, Reply, ReadSession, SameTables, database
<1>9. CASE UpdateSessionSigner(n)
  <2>1. signers'[k] = signers[k]
    BY Zenon, <1>9, UpdateRests, UpdateEffect
  <2>2. worker'[k] = worker[k] /\ results'[k] = results[k]
    BY <1>2, <1>3, <1>9, Zenon DEF UpdateSessionSigner
  <2> QED
    BY Zenon, <1>1, <2>1, <2>2 DEF SameTables
<1>10. CASE FinishResult(n)
  BY <1>1, <1>2, <1>10, FinishEffect, Zenon DEF SameTables
<1> QED
  BY <1>4, <1>5, <1>6, <1>7, <1>8, <1>9, <1>10, Zenon DEF Kinds

(* The invariant of a node whose tables stay.                              *)
LEMMA TablesKept ==
    ASSUME TypeOK, NEW k \in Nodes, TablesInv(k), SameTables(k), UNCHANGED <<threshold, log>>,
           NEW n \in Nodes, SessionMoves(n), \A m \in Nodes : Written(m)
    PROVE  TablesInv(k)'
<1>1. /\ Members(k)' = Members(k) /\ Processed(k)' = Processed(k) /\ Output(k)' = Output(k)
  BY Zenon DEF SameTables, Members, Processed, Output
<1>2. \A c : (Decisive(c)' <=> Decisive(c)) /\ Senders(c)' = Senders(c)
  BY Zenon, LogSame
<1>3. \A M, sig, j : AllResults(M, sig, j)' <=> AllResults(M, sig, j)
  BY Zenon, LogSame
<1>4. \A M, i : ReplyTo(M, i)' = ReplyTo(M, i)
  BY Zenon, LogSame
<1>5. Stage(k)'
  <2>1. CASE Preparing(k)
    <3>1. Senders(Processed(k))' = Senders(Processed(k))
      BY Zenon, <1>1 DEF Senders
    <3>2. Preparing(k)'
      BY <1>1, <2>1, <3>1, Zenon DEF Preparing, SameTables
    <3> QED
      BY Zenon, <3>2 DEF Stage
  <2>2. ASSUME NEW c \in DOMAIN log, PreparedBy(k, c) PROVE Stage(k)'
    <3>1. PreparedBy(k, c)'
      BY <1>1, <1>2, <2>2, Zenon DEF PreparedBy, SameTables
    <3> QED
      BY <3>1, Zenon DEF Stage
  <2> QED
    BY <2>1, <2>2, Zenon DEF TablesInv, Stage
<1>6. Handling(k)'
  BY <1>1, ZenonT(40) DEF TablesInv, Handling, SameTables
<1>7. RowsFromLog(k)'
  BY <1>1 DEF TablesInv, RowsFromLog, SameTables
<1>8. RowsComplete(k)'
  BY <1>1, Zenon DEF TablesInv, RowsComplete, Applied, SameTables
<1>9. Replies(k)'
  BY <1>1, <1>4, Zenon DEF TablesInv, Replies, SameTables
<1>10. Carried(k)'
  BY <1>1, <1>3, <1>4, Zenon DEF TablesInv, Carried, SameTables
<1>11. Written(k)'
  <2>1. /\ session'[k].extra # NoSig => session'[k].state \in {"Pending", "Done"}
        /\ session'[k] = session[k]
    BY Zenon DEF SessionMoves, SameTables
  <2>2. ASSUME session[k].extra # NoSig, k \notin Members(k), NEW m \in Members(k)
        PROVE  session'[m].extra = session[k].extra
    <3>1. m \in Nodes /\ session[m].extra = session[k].extra
      BY <2>2, Zenon DEF Written, Members
    <3>2. session[m].state \in {"Pending", "Done"}
      BY <2>2, <3>1, Zenon DEF Written
    <3> QED
      BY <3>1, <3>2, Zenon DEF SessionMoves
  <2> QED
    BY <1>1, <2>1, <2>2, Zenon DEF Written
<1> QED
  BY <1>5, <1>6, <1>7, <1>8, <1>9, <1>10, <1>11, Zenon DEF TablesInv

(* The invariant of a node when the log grows.                             *)
LEMMA TablesSent ==
    ASSUME TypeOK, NEW k \in Nodes, TablesInv(k), NEW n \in Nodes,
           NEW type \in {"Prepare", "Result"}, NEW extra \in Extras, Sends(n, type, extra)
    PROVE  TablesInv(k)'
<1>1. UNCHANGED <<threshold, session, signers, results, worker>>
  BY Zenon DEF Sends
<1>2. Members(k)' = Members(k) /\ Processed(k)' = Processed(k)
  BY Zenon, <1>1 DEF Members, Processed
<1>3. /\ DOMAIN log = 1..Len(log) /\ Len(log) \in Nat
      /\ Processed(k) \in Nat /\ Processed(k) <= Len(log)
  BY Zenon, LogType
<1>4. /\ Len(log') = Len(log) + 1 /\ DOMAIN log \subseteq DOMAIN log'
      /\ \A i \in DOMAIN log : log'[i] = log[i]
      /\ \A j \in 0..Len(log) : Senders(j)' = Senders(j)
      /\ \A c \in DOMAIN log : Decisive(c)' <=> Decisive(c)
      /\ \A M, sig : \A j \in 0..Len(log) : AllResults(M, sig, j)' <=> AllResults(M, sig, j)
      /\ \A M : \A i \in DOMAIN log : ReplyTo(M, i)' = ReplyTo(M, i)
  BY LogGrows, Zenon
<1>5. /\ Processed(k) \in 0..Len(log) /\ \A i \in 1..Processed(k) : i \in DOMAIN log
      /\ worker[k].at # "idle" =>
            /\ Processed(k) < Len(log) /\ Processed(k) + 1 \in DOMAIN log
            /\ Processed(k) + 1 \in 0..Len(log)
  BY <1>3 DEF TablesInv, Handling
<1>6. worker[k].at # "idle" => Output(k)' = Output(k)
  BY Zenon, <1>1, <1>4, <1>5 DEF Output, Processed
<1>7. Stage(k)'
  <2>1. CASE Preparing(k)
    <3>1. Senders(Processed(k))' = Senders(Processed(k))
      BY Zenon, <1>2, <1>3, <1>4, <1>5 DEF Senders
    <3>2. Preparing(k)'
      BY <1>1, <1>2, <2>1, <3>1, Zenon DEF Preparing
    <3> QED
      BY Zenon, <3>2 DEF Stage
  <2>2. ASSUME NEW c \in DOMAIN log, PreparedBy(k, c) PROVE Stage(k)'
    <3>1. c \in 0..Len(log)
      BY <1>3
    <3>2. Decisive(c)' /\ Senders(c)' = Senders(c)
      BY <1>4, <2>2, <3>1, Zenon DEF PreparedBy
    <3>3. PreparedBy(k, c)'
      BY <1>1, <1>2, <2>2, <3>2, ZenonT(40) DEF PreparedBy
    <3> QED
      BY <1>4, <3>3, Zenon DEF Stage
  <2> QED
    BY <2>1, <2>2, Zenon DEF TablesInv, Stage
<1>8. Handling(k)'
  <2>1. worker[k].at # "idle" => Processed(k)' < Len(log')
    <3>1. ASSUME NEW a \in Nat, NEW b \in Nat, a < b PROVE a < b + 1
      BY SMTT(30), <3>1
    <3> QED
      BY Zenon, <1>2, <1>3, <1>4, <1>5, <3>1
  <2> QED
    BY Zenon, <1>1, <1>6, <2>1 DEF TablesInv, Handling
<1>9. RowsFromLog(k)'
  <2> SUFFICES ASSUME NEW m \in Members(k), signers[k][m] # NoSig
               PROVE  \E j \in DOMAIN log' : j <= Processed(k) + 1 /\ log'[j].type = "Result"
                                             /\ log'[j].from = m /\ log'[j].extra = signers[k][m]
    BY <1>1, <1>2, Zenon DEF RowsFromLog
  <2>1. PICK j \in DOMAIN log : j <= Processed(k) + 1 /\ log[j].type = "Result"
                                /\ log[j].from = m /\ log[j].extra = signers[k][m]
    BY Zenon DEF TablesInv, RowsFromLog
  <2> QED
    BY <1>4, <2>1, Zenon
<1>10. RowsComplete(k)'
  <2>1. \A i \in DOMAIN log : Applied(k, i)' <=> Applied(k, i)
    BY <1>1, <1>2, <1>4, Zenon DEF Applied
  <2>2. worker[k].at \in {"finish", "record"} => worker[k].at # "idle"
    BY Zenon
  <2> QED
    BY <1>1, <1>2, <1>5, <2>1, <2>2, Zenon DEF TablesInv, RowsComplete
<1>11. Replies(k)'
  BY <1>1, <1>2, <1>4, <1>5, Zenon DEF TablesInv, Replies
<1>12. Carried(k)'
  <2>1. /\ worker[k].at = "finish" => worker[k].at # "idle"
        /\ worker[k].at = "record" => worker[k].at # "idle"
    BY Zenon
  <2> QED
    BY <1>1, <1>2, <1>4, <1>5, <2>1, Zenon DEF TablesInv, Carried
<1>13. Written(k)'
  BY <1>1, <1>2, Zenon DEF TablesInv, Written
<1> QED
  BY <1>7, <1>8, <1>9, <1>10, <1>11, <1>12, <1>13, ZenonT(40) DEF TablesInv

(* A signature that is there stays, and one that a member writes itself    *)
(* says nothing of the others.                                             *)
LEMMA WrittenKept ==
    ASSUME NEW n \in Nodes, SessionMoves(n), \A m \in Nodes : Written(m),
           Members(n)' = Members(n),
           session'[n].extra = session[n].extra \/ n \in Members(n)
    PROVE  Written(n)'
<1>1. session'[n].extra # NoSig => session'[n].state \in {"Pending", "Done"}
  BY Zenon DEF SessionMoves
<1>2. ASSUME session'[n].extra # NoSig, n \notin Members(n), NEW m \in Members(n)
      PROVE  session'[m].extra = session'[n].extra
  <2>1. session'[n].extra = session[n].extra
    BY Zenon, <1>2
  <2>2. m \in Nodes /\ session[m].extra = session[n].extra
    BY <1>2, <2>1, Zenon DEF Written, Members
  <2>3. session[m].state \in {"Pending", "Done"}
    BY <1>2, <2>1, <2>2, Zenon DEF Written
  <2> QED
    BY <2>1, <2>2, <2>3, Zenon DEF SessionMoves
<1> QED
  BY <1>1, <1>2, Zenon DEF Written


(* A step of the loops or of the computation of n.                         *)
LEMMA MovedTables ==
    ASSUME NodesCount, TypeOK, NEW n \in Nodes, TablesInv(n), Computing(n), SessionMoves(n),
           \A m \in Nodes : Written(m),
           NEW s \in States, NEW c \in BOOLEAN, NEW e \in Extras, Moved(n, s, c, e)
    PROVE  TablesInv(n)'
<1>1. /\ session[n].state \in States /\ session[n].committed \in BOOLEAN
      /\ session[n].prepared \in BOOLEAN /\ session[n].extra \in Extras
  BY Zenon, RowFields DEF TypeOK, States
<1>2. UNCHANGED <<threshold, log, signers, results, worker>>
  BY ZenonT(40) DEF Moved, Resting
<1>3. session'[n].state = s /\ session'[n].prepared = session[n].prepared /\ session'[n].extra = e
  BY Zenon, ToFields DEF Moved
<1>4. /\ Members(n)' = Members(n) /\ Processed(n)' = Processed(n) /\ Output(n)' = Output(n)
  BY Zenon, <1>2 DEF Members, Processed, Output
<1>5. /\ \A d : (Decisive(d)' <=> Decisive(d)) /\ Senders(d)' = Senders(d)
      /\ \A M, sig, j : AllResults(M, sig, j)' <=> AllResults(M, sig, j)
      /\ \A M, i : ReplyTo(M, i)' = ReplyTo(M, i)
  BY Zenon, <1>2, LogSame
<1>6. Stage(n)'
  <2>1. CASE Preparing(n)
    <3>1. Senders(Processed(n))' = Senders(Processed(n))
      BY Zenon, <1>2, <1>4 DEF Senders
    <3>2. ~running[n] /\ prepared[n] # "expiring"
      <4>1. threshold \in Nat /\ Cardinality(Members(n)) <= threshold /\ ~session[n].prepared
        BY Zenon, <2>1, LogType DEF Preparing
      <4>2. Cardinality(Members(n)) \in Nat
        BY Zenon DEF Members, NodesCount
      <4>3. ~operations[n]
        <5>1. ~(Cardinality(Members(n)) > threshold)
          BY <4>1, <4>2
        <5> QED
          BY Zenon, <5>1 DEF Computing
      <4> QED
        BY ZenonT(40), <4>1, <4>3 DEF Computing
    <3>3. s \in {"none", "Initial"}
      BY Zenon, <2>1, <3>2 DEF Preparing, Moved, States
    <3>4. Preparing(n)'
      BY <1>2, <1>3, <1>4, <2>1, <3>1, <3>3, Zenon DEF Preparing
    <3> QED
      BY ZenonT(20), <3>4 DEF Stage
  <2>2. ASSUME NEW d \in DOMAIN log, PreparedBy(n, d) PROVE Stage(n)'
    <3>1. s # "none"
      BY Zenon, <2>2 DEF PreparedBy, Moved
    <3>2. PreparedBy(n, d)'
      BY <1>2, <1>3, <1>4, <1>5, <2>2, <3>1, Zenon DEF PreparedBy
    <3> QED
      BY <1>2, <3>2, ZenonT(40) DEF Stage
  <2> QED
    BY <2>1, <2>2, Zenon DEF TablesInv, Stage
<1>7. Handling(n)'
  BY <1>2, <1>4, ZenonT(40) DEF TablesInv, Handling
<1>8. RowsFromLog(n)'
  BY Zenon, <1>2, <1>4 DEF TablesInv, RowsFromLog
<1>9. RowsComplete(n)'
  BY <1>2, <1>4, Zenon DEF TablesInv, RowsComplete, Applied
<1>10. Replies(n)'
  BY <1>2, <1>4, <1>5, Zenon DEF TablesInv, Replies
<1>11. Carried(n)'
  <2>1. ASSUME worker[n].at \in {"update", "finish"}, worker[n].seen.extra # NoSig
        PROVE  e = worker[n].seen.extra
    <3>1. session[n].extra = worker[n].seen.extra /\ session[n].state \in {"Pending", "Done"}
      BY <2>1, Zenon DEF TablesInv, Carried, Written
    <3> QED
      BY Zenon, <3>1 DEF Moved
  <2> QED
    BY <1>2, <1>3, <1>4, <1>5, <2>1, ZenonT(40) DEF TablesInv, Carried
<1>12. Written(n)'
  <2>1. e = session[n].extra \/ n \in Members(n)
    BY Zenon DEF Moved, Computing
  <2> QED
    BY <1>3, <1>4, <2>1, WrittenKept, Zenon
<1> QED
  BY <1>6, <1>7, <1>8, <1>9, <1>10, <1>11, <1>12, ZenonT(40) DEF TablesInv

(* A restart of n: the handler starts again.                               *)
LEMMA RestartedTables ==
    ASSUME TypeOK, NEW n \in Nodes, TablesInv(n), SessionMoves(n), \A m \in Nodes : Written(m),
           Restarted(n)
    PROVE  TablesInv(n)'
<1>1. UNCHANGED <<threshold, log, session, signers, results>>
  BY Zenon DEF Restarted
<1>2. worker'[n].at = "idle"
  BY Zenon, StepEffect, IdleFields DEF Restarted, Step
<1>3. /\ Members(n)' = Members(n) /\ Processed(n)' = Processed(n)
  BY Zenon, <1>1 DEF Members, Processed
<1>4. /\ \A d : (Decisive(d)' <=> Decisive(d)) /\ Senders(d)' = Senders(d)
      /\ \A M, i : ReplyTo(M, i)' = ReplyTo(M, i)
  BY Zenon, <1>1, LogSame
<1>5. Stage(n)'
  <2>1. CASE Preparing(n)
    <3>1. Senders(Processed(n))' = Senders(Processed(n))
      BY Zenon, <1>1, <1>3 DEF Senders
    <3>2. Preparing(n)'
      BY <1>1, <1>2, <1>3, <2>1, <3>1, Zenon DEF Preparing
    <3> QED
      BY Zenon, <3>2 DEF Stage
  <2>2. ASSUME NEW d \in DOMAIN log, PreparedBy(n, d) PROVE Stage(n)'
    <3>1. "idle" # "mark" /\ "idle" \in {"idle", "mark"}
      BY Zenon
    <3>2. PreparedBy(n, d)'
      BY <1>1, <1>2, <1>3, <1>4, <2>2, <3>1, ZenonT(40) DEF PreparedBy
    <3> QED
      BY <1>1, <3>2, Zenon DEF Stage
  <2> QED
    BY <2>1, <2>2, Zenon DEF TablesInv, Stage
<1>6. Handling(n)' /\ Carried(n)'
  BY ZenonT(20), <1>2 DEF Handling, Carried
<1>7. RowsFromLog(n)'
  BY Zenon, <1>1, <1>3 DEF TablesInv, RowsFromLog
<1>8. RowsComplete(n)'
  <2>1. worker'[n].at \notin {"finish", "record"}
    BY Zenon, <1>2
  <2> QED
    BY <1>1, <1>3, <2>1, Zenon DEF TablesInv, RowsComplete, Applied
<1>9. Replies(n)'
  BY <1>1, <1>3, <1>4, Zenon DEF TablesInv, Replies
<1>10. Written(n)'
  BY <1>1, <1>3, WrittenKept, Zenon
<1> QED
  BY <1>5, <1>6, <1>7, <1>8, <1>9, <1>10, Zenon DEF TablesInv


(* The members of a session with its quorum.                               *)
LEMMA Quorum ==
    ASSUME NodesCount, TypeOK, NEW n \in Nodes, NEW c, PreparedBy(n, c)
    PROVE  /\ Members(n) # {} /\ Members(n) \in SUBSET Nodes
           /\ Cardinality(Members(n)) = threshold + 1 /\ threshold \in Nat
<1>1. Cardinality(Members(n)) = threshold + 1 /\ threshold \in Nat
  BY Zenon, LogType DEF PreparedBy, Decisive
<1>2. Members(n) \subseteq Nodes
  BY Zenon DEF Members
<1>3. Members(n) # {}
  <2>1. Cardinality({}) = 0
    BY Zenon DEF NodesCount
  <2> QED
    BY <1>1, <2>1
<1> QED
  BY Zenon, <1>1, <1>2, <1>3

(* Before the quorum is complete there are no results.                     *)
LEMMA NoResultsYet ==
    ASSUME NodesCount, TypeOK, LogInv, NEW k \in Nat, Cardinality(Senders(k)) <= threshold,
           NEW i \in DOMAIN log, i <= k + 1
    PROVE  log[i].type # "Result"
<1> SUFFICES ASSUME log[i].type = "Result" PROVE FALSE
  BY Zenon
<1>1. PICK c \in DOMAIN log : c < i /\ Decisive(c)
  BY Zenon DEF LogInv, ResultsLate
<1>2. c \in Nat /\ i \in Nat /\ threshold \in Nat
  BY Zenon, LogType
<1>3. c <= k
  BY <1>1, <1>2
<1>4. Cardinality(Senders(c)) <= Cardinality(Senders(k)) /\ Cardinality(Senders(k)) \in Nat
  BY Zenon, <1>2, <1>3, SendersGrow
<1> QED
  BY <1>1, <1>2, <1>4 DEF Decisive

(* A handler of a result works on a session that is prepared.              *)
LEMMA ResultPrepared ==
    ASSUME NodesCount, TypeOK, LogInv, NEW n \in Nodes, Stage(n), Processed(n) < Len(log),
           Output(n).type = "Result"
    PROVE  session[n].prepared /\ \E c \in DOMAIN log : PreparedBy(n, c)
<1>1. Processed(n) \in Nat /\ Processed(n) + 1 \in DOMAIN log /\ log[Processed(n) + 1].type = "Result"
  BY Zenon, OutputType
<1>2. ~Preparing(n)
  BY <1>1, NoResultsYet DEF Preparing
<1>3. PICK c \in DOMAIN log : PreparedBy(n, c)
  BY Zenon, <1>2 DEF Stage
<1>4. session[n].prepared
  BY Zenon, <1>1, <1>3 DEF PreparedBy, Decisive
<1> QED
  BY Zenon, <1>3, <1>4

(* An output that is no result has no reply.                               *)
LEMMA NoReply ==
    ASSUME NEW M, NEW i, log[i].type # "Result"
    PROVE  ReplyTo(M, i) = NoSig
  BY Zenon DEF ReplyTo, Decides

(* After the first L outputs the tables of a node, with the members and    *)
(* the rows the step leaves, are those of the log.                         *)
SoFar(n, L) ==
    /\ \A m \in Members(n)' : signers'[n][m] # NoSig =>
            \E j \in DOMAIN log : j <= L + 1 /\ log[j].type = "Result"
                                  /\ log[j].from = m /\ log[j].extra = signers'[n][m]
    /\ \A i \in 1..L : Applied(n, i)'
    /\ \A i \in 1..L : results[n][i] = ReplyTo(Members(n)', i)

(* The parts of the invariant of a node's tables that every handler moves. *)
InLine(n) == Handling(n) /\ RowsFromLog(n) /\ RowsComplete(n) /\ Replies(n) /\ Carried(n)

(* A node that is prepared has processed the output that decided.          *)
LEMMA PreparedBefore ==
    ASSUME TypeOK, NEW n \in Nodes, NEW c \in DOMAIN log, PreparedBy(n, c), session[n].prepared
    PROVE  c <= Processed(n) + 1
<1>1. c <= Processed(n)
  BY Zenon DEF PreparedBy
<1>2. c \in Nat /\ Processed(n) \in Nat
  BY Zenon, LogType
<1> QED
  BY <1>1, <1>2

(* The end of a handler: the output is processed.                          *)
LEMMA HandlerEnds ==
    ASSUME TypeOK, NEW n \in Nodes, NEW x \in Extras, WriteActionResults(n, x),
           Processed(n) < Len(log), UNCHANGED <<threshold, log>>,
           NEW L, L = Processed(n), SoFar(n, L),
           Applied(n, L + 1)', x = ReplyTo(Members(n)', L + 1)
    PROVE  /\ Processed(n)' = L + 1 /\ worker'[n].at = "idle"
           /\ InLine(n)'
<1>0. PICK M : M = Members(n)'
  BY Zenon
<1>1. L \in Nat
  BY ZenonT(20), LogType
<1>2. /\ Processed(n)' = L + 1 /\ results'[n][L + 1] = x /\ Step(n, Idle)
      /\ \A i \in 1..L : results'[n][i] = results[n][i]
  BY Zenon, WriteEffect
<1>3. worker'[n].at = "idle"
  BY ZenonT(40), <1>2, StepEffect, IdleFields
<1>4. Handling(n)' /\ Carried(n)'
  BY Zenon, <1>3 DEF Handling, Carried
<1>5. 1..(L + 1) = (1..L) \cup {L + 1}
  BY Zenon, <1>1, LogBefore
<1>6. \A N, i : ReplyTo(N, i)' = ReplyTo(N, i)
  BY Zenon, LogSame
<1>7. RowsFromLog(n)'
  <2> SUFFICES ASSUME NEW m \in M, signers'[n][m] # NoSig
               PROVE  \E j \in DOMAIN log : j <= L + 1 + 1 /\ log[j].type = "Result"
                                      /\ log[j].from = m /\ log[j].extra = signers'[n][m]
    BY <1>0, <1>2, Zenon DEF RowsFromLog
  <2>1. PICK j \in DOMAIN log : j <= L + 1 /\ log[j].type = "Result"
                                /\ log[j].from = m /\ log[j].extra = signers'[n][m]
    BY <1>0, ZenonT(40) DEF SoFar
  <2>2. j <= L + 1 + 1
    BY Zenon, <1>1, <2>1, LogBefore
  <2> QED
    BY <2>1, <2>2, Zenon
<1>8. RowsComplete(n)'
  <2>1. worker'[n].at \notin {"finish", "record"}
    BY Zenon, <1>3
  <2>2. \A i \in 1..(L + 1) : Applied(n, i)'
    BY <1>5, Zenon DEF SoFar
  <2> QED
    BY <1>2, <2>1, <2>2, Zenon DEF RowsComplete
<1>9. Replies(n)'
  <2>1. \A i \in 1..(L + 1) : results'[n][i] = ReplyTo(M, i)'
    BY <1>0, <1>2, <1>5, <1>6, Zenon DEF SoFar
  <2> QED
    BY <1>0, <1>2, <2>1, Zenon DEF Replies
<1> QED
  BY <1>2, <1>3, <1>4, <1>7, <1>8, <1>9, Zenon DEF InLine


(* The second transaction of a prepare that completes the quorum.          *)
LEMMA MarkedTables ==
    ASSUME TypeOK, NEW n \in Nodes, TablesInv(n), SessionMoves(n), \A m \in Nodes : Written(m),
           Marked(n)
    PROVE  TablesInv(n)'
<1>1. /\ worker[n].at = "mark" /\ session[n].state = "Initial" /\ UNCHANGED <<threshold, log, signers>>
      /\ To(n, "Initial", session[n].committed, TRUE, session[n].extra)
      /\ WriteActionResults(n, NoSig)
  BY ZenonT(40) DEF Marked
<1>2. PICK c \in DOMAIN log : PreparedBy(n, c)
  BY ZenonT(20), <1>1 DEF TablesInv, Stage, Preparing
<1>3. Processed(n) < Len(log) /\ Output(n).type = "Prepare"
  BY Zenon, <1>1 DEF TablesInv, Handling
<1>4. PICK L : L = Processed(n)
  BY Zenon
<1>5. L \in Nat /\ L + 1 \in DOMAIN log /\ log[L + 1].type = "Prepare"
  BY ZenonT(20), <1>3, <1>4, OutputType
<1>6. c = L + 1
  BY Zenon, <1>1, <1>2, <1>4 DEF PreparedBy
<1>7. Members(n)' = Members(n)
  BY Zenon, <1>1 DEF Members
<1>8. \A i : Applied(n, i)' <=> Applied(n, i)
  BY <1>1, <1>7, Zenon DEF Applied
<1>9. /\ \A i \in 1..L : Applied(n, i)'
      /\ Applied(n, L + 1)'
      /\ \A i \in 1..L : results[n][i] = ReplyTo(Members(n), i)
      /\ NoSig = ReplyTo(Members(n), L + 1)
  <2>1. Applied(n, L + 1)
    BY Zenon, <1>5 DEF Applied
  <2>2. NoSig = ReplyTo(Members(n), L + 1)
    BY Zenon, <1>5, NoReply
  <2> QED
    BY <1>4, <1>8, <2>1, <2>2, Zenon DEF TablesInv, RowsComplete, Replies
<1>10. \A m \in Members(n) : signers'[n][m] # NoSig =>
            \E j \in DOMAIN log : j <= L + 1 /\ log[j].type = "Result"
                                  /\ log[j].from = m /\ log[j].extra = signers'[n][m]
  BY <1>1, <1>4, Zenon DEF TablesInv, RowsFromLog
<1>11. NoSig \in Extras
  BY Zenon DEF Extras
<1>12. /\ Processed(n)' = L + 1 /\ worker'[n].at = "idle"
       /\ InLine(n)'
  <2>1. SoFar(n, L)
    BY <1>7, <1>9, <1>10, Zenon DEF SoFar
  <2> QED
    BY Zenon, <1>1, <1>3, <1>4, <1>7, <1>9, <1>11, <2>1, HandlerEnds
<1>13. session'[n].state = "Initial" /\ session'[n].prepared /\ session'[n].extra = session[n].extra
  <2>1. PICK p : p = TRUE
    BY Zenon
  <2>2. To(n, "Initial", session[n].committed, p, session[n].extra)
    BY Zenon, <1>1, <2>1
  <2>3. session'[n].state = "Initial" /\ session'[n].prepared = p
        /\ session'[n].extra = session[n].extra
    BY Zenon, <2>2, ToFields
  <2> QED
    BY Zenon, <2>1, <2>3
<1>14. Stage(n)'
  <2>1. Decisive(c)' /\ Senders(c)' = Senders(c)
    BY Zenon, <1>1, <1>2, LogSame DEF PreparedBy
  <2>2. c <= Processed(n)' /\ worker'[n].at # "mark" /\ session'[n].state # "none"
    BY <1>5, <1>6, <1>12, <1>13
  <2>3. PreparedBy(n, c)'
    BY <1>2, <1>7, <1>13, <2>1, <2>2, Zenon DEF PreparedBy
  <2> QED
    BY <1>1, <2>3, Zenon DEF Stage
<1>15. Written(n)'
  BY <1>7, <1>13, WrittenKept, Zenon
<1> QED
  BY <1>12, <1>14, <1>15, Zenon DEF TablesInv, InLine

(* The handler of a result starts.                                         *)
LEMMA ReadTables ==
    ASSUME NodesCount, TypeOK, LogInv, NEW n \in Nodes, TablesInv(n), SessionMoves(n),
           \A m \in Nodes : Written(m), ReadSession(n)
    PROVE  TablesInv(n)'
<1>1. /\ worker[n].at = "idle" /\ Processed(n) < Len(log) /\ Output(n).type = "Result"
      /\ Step(n, At("update", session[n], NoSig))
      /\ UNCHANGED <<threshold, log, session, signers, results>>
  BY Zenon DEF ReadSession, HasOutput, Processed, database, setting
<1>2. worker'[n].at = "update" /\ worker'[n].seen = session[n]
  <2>1. session[n] \in SessionRow /\ NoSig \in Extras
    BY ZenonT(20) DEF TypeOK, Extras
  <2> QED
    BY Zenon, <1>1, <2>1, StepTo
<1>3. session[n].prepared /\ \E c \in DOMAIN log : PreparedBy(n, c)
  BY ZenonT(20), <1>1, ResultPrepared DEF TablesInv
<1>4. /\ Members(n)' = Members(n) /\ Processed(n)' = Processed(n) /\ Output(n)' = Output(n)
  BY ZenonT(20), <1>1 DEF Members, Processed, Output
<1>5. /\ \A d : (Decisive(d)' <=> Decisive(d)) /\ Senders(d)' = Senders(d)
      /\ \A M, i : ReplyTo(M, i)' = ReplyTo(M, i)
  BY Zenon, <1>1, LogSame
<1>6. Stage(n)'
  <2>1. PICK c \in DOMAIN log : PreparedBy(n, c)
    BY Zenon, <1>3
  <2>2. worker'[n].at # "mark"
    BY Zenon, <1>2
  <2>3. PreparedBy(n, c)'
    BY <1>1, <1>3, <1>4, <1>5, <2>1, <2>2, Zenon DEF PreparedBy
  <2> QED
    BY <1>1, <2>3, Zenon DEF Stage
<1>7. Handling(n)'
  <2>1. worker'[n].at # "mark"
    BY Zenon, <1>2
  <2> QED
    BY <1>1, <1>4, <2>1, Zenon DEF Handling
<1>8. RowsFromLog(n)'
  BY ZenonT(40), <1>1, <1>4 DEF TablesInv, RowsFromLog
<1>9. RowsComplete(n)'
  <2>1. worker'[n].at \notin {"finish", "record"}
    BY Zenon, <1>2
  <2> QED
    BY <1>1, <1>4, <2>1, Zenon DEF TablesInv, RowsComplete, Applied
<1>10. Replies(n)'
  BY <1>1, <1>4, <1>5, ZenonT(40) DEF TablesInv, Replies
<1>11. Carried(n)'
  BY Zenon, <1>1, <1>2 DEF Carried
<1>12. Written(n)'
  BY <1>1, <1>4, WrittenKept, Zenon
<1> QED
  BY <1>6, <1>7, <1>8, <1>9, <1>10, <1>11, <1>12, Zenon DEF TablesInv

(* The handler of a result ends with its reply.                            *)
LEMMA ReplyTables ==
    ASSUME NodesCount, TypeOK, LogInv, NEW n \in Nodes, TablesInv(n), SessionMoves(n),
           \A m \in Nodes : Written(m), Reply(n)
    PROVE  TablesInv(n)'
<1>1. /\ worker[n].at = "record" /\ WriteActionResults(n, worker[n].reply)
      /\ UNCHANGED <<threshold, log, session, signers>>
  BY ZenonT(20) DEF Reply, setting
<1>2. Processed(n) < Len(log) /\ Output(n).type = "Result"
  BY Zenon, <1>1 DEF TablesInv, Handling
<1>3. PICK L : L = Processed(n)
  BY Zenon
<1>4. L \in Nat /\ L + 1 \in DOMAIN log
  BY Zenon, <1>2, <1>3, OutputType
<1>5. Members(n)' = Members(n)
  BY Zenon, <1>1 DEF Members
<1>6. \A i : Applied(n, i)' <=> Applied(n, i)
  BY <1>1, <1>5, Zenon DEF Applied
<1>7. worker[n].at \in {"finish", "record"}
  BY Zenon, <1>1
<1>8. /\ \A i \in 1..L : Applied(n, i)'
      /\ Applied(n, L + 1)'
      /\ \A i \in 1..L : results[n][i] = ReplyTo(Members(n), i)
      /\ worker[n].reply = ReplyTo(Members(n), L + 1)
  BY <1>1, <1>3, <1>6, <1>7, Zenon DEF TablesInv, RowsComplete, Replies, Carried
<1>9. \A m \in Members(n) : signers'[n][m] # NoSig =>
            \E j \in DOMAIN log : j <= L + 1 /\ log[j].type = "Result"
                                  /\ log[j].from = m /\ log[j].extra = signers'[n][m]
  BY <1>1, <1>3, Zenon DEF TablesInv, RowsFromLog
<1>10. worker[n].reply \in Extras
  BY ZenonT(20) DEF TypeOK, Worker
<1>11. /\ Processed(n)' = L + 1 /\ worker'[n].at = "idle"
       /\ InLine(n)'
  <2>1. SoFar(n, L)
    BY <1>5, <1>8, <1>9, Zenon DEF SoFar
  <2> QED
    BY Zenon, <1>1, <1>2, <1>3, <1>5, <1>8, <1>10, <2>1, HandlerEnds
<1>12. Stage(n)'
  <2>1. session[n].prepared /\ \E c \in DOMAIN log : PreparedBy(n, c)
    BY Zenon, <1>2, ResultPrepared DEF TablesInv
  <2>2. PICK c \in DOMAIN log : PreparedBy(n, c)
    BY Zenon, <2>1
  <2>3. Decisive(c)' /\ Senders(c)' = Senders(c)
    BY ZenonT(40), <1>1, <2>2, LogSame DEF PreparedBy
  <2>4. c <= Processed(n)' /\ worker'[n].at # "mark"
    <3>1. c <= Processed(n) + 1
      BY Zenon, <2>1, <2>2, PreparedBefore
    <3> QED
      BY Zenon, <1>3, <1>11, <3>1
  <2>5. PreparedBy(n, c)'
    BY <1>1, <1>5, <2>1, <2>2, <2>3, <2>4, Zenon DEF PreparedBy
  <2> QED
    BY <1>1, <2>5, Zenon DEF Stage
<1>13. Written(n)'
  BY <1>1, <1>5, WrittenKept, Zenon
<1> QED
  BY <1>11, <1>12, <1>13, ZenonT(40) DEF TablesInv, InLine


(* The first transaction of a prepare that completes the quorum.           *)
LEMMA MarkBegins ==
    ASSUME TypeOK, NEW n \in Nodes, Step(n, At("mark", NoSession, NoSig)),
           Processed(n) < Len(log), Output(n).type = "Prepare", UNCHANGED <<threshold, log, results>>,
           NEW L, L = Processed(n), SoFar(n, L)
    PROVE  /\ Processed(n)' = L /\ worker'[n].at = "mark"
           /\ InLine(n)'
<1>1. Processed(n)' = L /\ Output(n)' = Output(n)
  BY Zenon DEF Processed, Output
<1>2. worker'[n].at = "mark"
  BY Zenon, StepTo, IdleFields DEF Extras
<1>3. \A N, i : ReplyTo(N, i)' = ReplyTo(N, i)
  BY Zenon, LogSame
<1>4. Handling(n)' /\ Carried(n)'
  BY Zenon, <1>1, <1>2 DEF Handling, Carried
<1>5. RowsFromLog(n)'
  BY <1>1, Zenon DEF RowsFromLog, SoFar
<1>6. RowsComplete(n)'
  <2>1. worker'[n].at \notin {"finish", "record"}
    BY Zenon, <1>2
  <2> QED
    BY <1>1, <2>1, Zenon DEF RowsComplete, SoFar
<1>7. Replies(n)'
  BY <1>1, <1>3, Zenon DEF Replies, SoFar
<1> QED
  BY <1>1, <1>2, <1>4, <1>5, <1>6, <1>7, ZenonT(40) DEF InLine

(* The first transaction of a prepare.                                     *)
LEMMA PrepareTables ==
    ASSUME NodesCount, TypeOK, LogInv, NEW n \in Nodes, TablesInv(n), SessionMoves(n),
           \A m \in Nodes : Written(m), PrepareSessionSignerIfNotExist(n)
    PROVE  TablesInv(n)'
<1>1. PICK L, m : L = Processed(n) /\ m = Output(n).from
  BY Zenon
<1>2. /\ worker[n].at = "idle" /\ session[n].state # "none" /\ Output(n).type = "Prepare"
      /\ Processed(n) < Len(log) /\ Counted(n, m)
  BY ZenonT(40), <1>1, PrepareEffect DEF HasOutput
<1>3. /\ L \in Nat /\ L + 1 \in DOMAIN log /\ log[L + 1].type = "Prepare" /\ log[L + 1].from = m
      /\ m \in Nodes /\ Output(n) = log[L + 1] /\ 1..(L + 1) = (1..L) \cup {L + 1}
  BY Zenon, <1>1, <1>2, OutputType, LogBefore
<1>4. UNCHANGED <<threshold, log, session>>
  BY Zenon, <1>2 DEF Counted
<1>5. /\ \A M : ReplyTo(M, L + 1) = NoSig
      /\ Applied(n, L + 1)'
  <2>1. log'[L + 1].type # "Result" /\ log[L + 1].type # "Result"
    BY Zenon, <1>3, <1>4
  <2> QED
    BY Zenon, <2>1, NoReply DEF Applied
<1>6. /\ \A i \in 1..L : Applied(n, i)
      /\ \A i \in 1..L : results[n][i] = ReplyTo(Members(n), i)
      /\ \A k \in Members(n) : signers[n][k] # NoSig =>
            \E j \in DOMAIN log : j <= L + 1 /\ log[j].type = "Result"
                                  /\ log[j].from = k /\ log[j].extra = signers[n][k]
  BY <1>1, Zenon DEF TablesInv, RowsComplete, Replies, RowsFromLog
<1>7. NoSig \in Extras /\ threshold \in Nat
  BY Zenon, LogType DEF Extras
<1>8. \A d : (Decisive(d)' <=> Decisive(d)) /\ Senders(d)' = Senders(d)
  BY Zenon, <1>4, LogSame
<1>9. ASSUME signers'[n] = signers[n], NEW c \in DOMAIN log, PreparedBy(n, c),
             \/ session[n].prepared /\ WriteActionResults(n, NoSig)
             \/ /\ ~session[n].prepared /\ UNCHANGED results
                /\ Step(n, At("mark", NoSession, NoSig))
      PROVE  TablesInv(n)'
  <2>1. Members(n)' = Members(n)
    BY Zenon, <1>9 DEF Members
  <2>2. SoFar(n, L)
    <3>1. \A i : Applied(n, i)' <=> Applied(n, i)
      BY <1>4, <1>9, <2>1, Zenon DEF Applied
    <3>2. \A i \in 1..L : Applied(n, i)'
      BY <1>6, <3>1, Zenon
    <3>3. ASSUME NEW k \in Members(n)', signers'[n][k] # NoSig
          PROVE  \E j \in DOMAIN log : j <= L + 1 /\ log[j].type = "Result"
                                       /\ log[j].from = k /\ log[j].extra = signers'[n][k]
      <4>1. signers'[n][k] = signers[n][k] /\ k \in Members(n)
        BY Zenon, <1>9, <2>1
      <4>2. PICK j \in DOMAIN log : j <= L + 1 /\ log[j].type = "Result"
                                    /\ log[j].from = k /\ log[j].extra = signers[n][k]
        BY Zenon, <1>6, <3>3, <4>1
      <4> QED
        BY Zenon, <4>1, <4>2
    <3>4. \A i \in 1..L : results[n][i] = ReplyTo(Members(n)', i)
      BY Zenon, <1>6, <2>1
    <3> QED
      BY Zenon, <3>2, <3>3, <3>4 DEF SoFar
  <2>3. Written(n)'
    BY <1>4, <2>1, WrittenKept, Zenon
  <2>4. CASE session[n].prepared /\ WriteActionResults(n, NoSig)
    <3>1. /\ Processed(n)' = L + 1 /\ worker'[n].at = "idle"
          /\ InLine(n)'
      BY ZenonT(40), <1>1, <1>2, <1>4, <1>5, <1>7, <2>2, <2>4, HandlerEnds
    <3>2. c <= Processed(n)' /\ worker'[n].at # "mark"
      <4>1. c <= Processed(n) + 1
        BY Zenon, <1>9, <2>4, PreparedBefore
      <4> QED
        BY ZenonT(20), <1>1, <3>1, <4>1
    <3>3. PreparedBy(n, c)'
      BY <1>4, <1>8, <1>9, <2>1, <2>4, <3>2, Zenon DEF PreparedBy
    <3>4. Stage(n)'
      BY <1>4, <3>3, Zenon DEF Stage
    <3> QED
      BY <2>3, <3>1, <3>4, Zenon DEF TablesInv, InLine
  <2>5. CASE /\ ~session[n].prepared /\ UNCHANGED results
             /\ Step(n, At("mark", NoSession, NoSig))
    <3>1. /\ Processed(n)' = L /\ worker'[n].at = "mark"
          /\ InLine(n)'
      BY Zenon, <1>1, <1>2, <1>4, <2>2, <2>5, MarkBegins
    <3>2. worker'[n].at \in {"idle", "mark"}
      BY Zenon, <3>1
    <3>3. PreparedBy(n, c)'
      BY <1>1, <1>4, <1>8, <1>9, <2>1, <2>5, <3>1, <3>2, Zenon DEF PreparedBy
    <3>4. Stage(n)'
      BY <1>4, <3>3, Zenon DEF Stage
    <3> QED
      BY <2>3, <3>1, <3>4, ZenonT(40) DEF TablesInv, InLine
  <2> QED
    BY <1>9, <2>4, <2>5, ZenonT(40)
<1>10. CASE session[n].prepared
  <2>1. signers'[n] = signers[n] /\ WriteActionResults(n, NoSig)
    BY <1>2, <1>10, ZenonT(40) DEF Counted
  <2>2. PICK c \in DOMAIN log : PreparedBy(n, c)
    BY Zenon, <1>10 DEF TablesInv, Stage, Preparing
  <2> QED
    BY <1>9, <1>10, <2>1, <2>2, Zenon
<1>11. ASSUME ~session[n].prepared, NEW c \in DOMAIN log, PreparedBy(n, c) PROVE TablesInv(n)'
  <2>1. c = L + 1
    BY ZenonT(40), <1>1, <1>11 DEF PreparedBy
  <2>2. m \in Members(n)
    <3>1. m \in Senders(L + 1)
      BY Zenon, <1>3 DEF Senders
    <3> QED
      BY ZenonT(20), <1>11, <2>1, <3>1 DEF PreparedBy
  <2>3. Members(n) \cup {m} = Members(n)
    BY Zenon, <2>2
  <2>4. ~(Cardinality(Members(n) \cup {m}) <= threshold)
    <3>1. Cardinality(Members(n)) = threshold + 1 /\ threshold \in Nat
      BY Zenon, <1>11, Quorum
    <3>2. ~(threshold + 1 <= threshold)
      BY <3>1
    <3> QED
      BY Zenon, <2>3, <3>1, <3>2
  <2>5. UNCHANGED results /\ Step(n, At("mark", NoSession, NoSig))
    BY <1>2, <1>11, <2>4, ZenonT(40) DEF Counted
  <2>6. signers'[n] = signers[n]
    <3>1. \A k \in Nodes : signers'[n][k] = signers[n][k]
      BY <1>2, <1>11, <2>2, ZenonT(40) DEF Counted
    <3>2. /\ signers[n] \in [Nodes -> Extras \cup {NoRow}]
          /\ signers'[n] \in [Nodes -> Extras \cup {NoRow}]
      BY Zenon, PrepareEffect DEF TypeOK
    <3> QED
      BY <3>1, <3>2
  <2> QED
    BY <1>9, <1>11, <2>5, <2>6, ZenonT(40)
<1>12. CASE ~session[n].prepared /\ Preparing(n)
  <2>1. /\ signers'[n][m] # NoRow
        /\ m \notin Members(n) => signers'[n][m] = NoSig
        /\ m \in Members(n) => signers'[n][m] = signers[n][m]
        /\ \A k \in Nodes : k # m => signers'[n][k] = signers[n][k]
    BY <1>2, <1>12, ZenonT(40) DEF Counted
  <2>2. Members(n)' = Members(n) \cup {m}
    BY Zenon, <1>3, <2>1 DEF Members
  <2>3. Members(n) = Senders(L) /\ Cardinality(Senders(L)) <= threshold
    BY <1>1, <1>12, Zenon DEF Preparing
  <2>4. Senders(L + 1) = Members(n) \cup {m}
    <3>1. Senders(L + 1) = Senders(L) \cup {m}
      BY <1>3, ZenonT(40) DEF Senders
    <3> QED
      BY Zenon, <2>3, <3>1
  <2>5. \A i \in 1..(L + 1) : log[i].type # "Result"
    <3> SUFFICES ASSUME NEW i \in 1..(L + 1) PROVE log[i].type # "Result"
      BY Zenon
    <3>1. i \in DOMAIN log /\ i <= L + 1
      BY Zenon, <1>3, LogBefore
    <3> QED
      BY Zenon, <1>3, <2>3, <3>1, NoResultsYet
  <2>6. /\ \A i \in 1..L : Applied(n, i)'
        /\ \A i \in 1..L : results[n][i] = ReplyTo(Members(n)', i)
    <3>1. \A i \in 1..L : log[i].type # "Result"
      BY <1>3, <2>5, Zenon
    <3>2. \A M : \A i \in 1..L : ReplyTo(M, i) = NoSig
      BY Zenon, <3>1, NoReply
    <3>3. \A i \in 1..L : Applied(n, i)'
      BY <1>4, <3>1, Zenon DEF Applied
    <3>4. \A i \in 1..L : results[n][i] = NoSig
      BY <1>6, <3>2, ZenonT(40)
    <3> QED
      BY <3>2, <3>3, <3>4, Zenon
  <2>7. \A k \in Members(n)' : signers'[n][k] # NoSig =>
            \E j \in DOMAIN log : j <= L + 1 /\ log[j].type = "Result"
                                  /\ log[j].from = k /\ log[j].extra = signers'[n][k]
    <3> SUFFICES ASSUME NEW k \in Members(n)', signers'[n][k] # NoSig
                 PROVE  k \in Members(n) /\ signers'[n][k] = signers[n][k]
      BY SMTT(30), <1>6
    <3> QED
      BY <2>1, <2>2, Zenon DEF Members
  <2>8. Written(n)' /\ SoFar(n, L)
    <3>1. SoFar(n, L)
      BY <2>6, <2>7, Zenon DEF SoFar
    <3> QED
      BY Zenon, <1>4, <1>12, <3>1 DEF Preparing, Written, TablesInv
  <2>9. CASE Cardinality(Members(n) \cup {m}) <= threshold
    <3>1. WriteActionResults(n, NoSig)
      BY <1>2, <1>12, <2>9, ZenonT(40) DEF Counted
    <3>2. /\ Processed(n)' = L + 1 /\ worker'[n].at = "idle"
          /\ InLine(n)'
      BY Zenon, <1>1, <1>2, <1>4, <1>5, <1>7, <2>8, <3>1, HandlerEnds
    <3>3. Senders(Processed(n))' = Senders(L + 1)
      BY Zenon, <1>4, <3>2 DEF Senders
    <3>4. Preparing(n)'
      BY <1>4, <1>12, <2>2, <2>4, <2>9, <3>2, <3>3, Zenon DEF Preparing
    <3> QED
      BY <2>8, <3>2, <3>4, Zenon DEF TablesInv, Stage, InLine
  <2>10. CASE ~(Cardinality(Members(n) \cup {m}) <= threshold)
    <3>1. UNCHANGED results /\ Step(n, At("mark", NoSession, NoSig))
      BY <1>2, <1>12, <2>10, ZenonT(40) DEF Counted
    <3>2. /\ Processed(n)' = L /\ worker'[n].at = "mark"
          /\ InLine(n)'
      BY ZenonT(40), <1>1, <1>2, <1>4, <2>8, <3>1, MarkBegins
    <3>3. Decisive(L + 1)
      <4>1. Members(n) \subseteq Nodes /\ Cardinality(Members(n)) \in Nat
        BY Zenon, NodeSet DEF Members
      <4>2. \/ Cardinality(Members(n) \cup {m}) = Cardinality(Members(n)) + 1
            \/ Cardinality(Members(n) \cup {m}) = Cardinality(Members(n))
        <5>1. CASE m \in Members(n)
          <6>1. Members(n) \cup {m} = Members(n)
            BY Zenon, <5>1
          <6> QED
            BY Zenon, <6>1
        <5>2. CASE m \notin Members(n)
          BY Zenon, <1>3, <4>1, <5>2, NodeAdd
        <5> QED
          BY Zenon, <5>1, <5>2
      <4>3. Cardinality(Senders(L + 1)) = threshold + 1
        <5>1. PICK a, b : a = Cardinality(Members(n)) /\ b = Cardinality(Members(n) \cup {m})
          BY Zenon
        <5>2. a \in Nat /\ a <= threshold /\ (b = a + 1 \/ b = a) /\ ~(b <= threshold)
          BY <2>3, <2>10, <4>1, <4>2, <5>1, Zenon
        <5>3. b = threshold + 1
          BY SMTT(30), <1>7, <5>2
        <5> QED
          BY <2>4, <5>1, <5>3, Zenon
      <4> QED
        BY Zenon, <1>3, <4>3 DEF Decisive
    <3>4. worker'[n].at \in {"idle", "mark"}
      BY Zenon, <3>2
    <3>5. PreparedBy(n, L + 1)'
      BY <1>1, <1>2, <1>4, <1>8, <1>12, <2>2, <2>4, <3>2, <3>3, <3>4, Zenon DEF PreparedBy
    <3> QED
      BY <1>3, <1>4, <2>8, <3>2, <3>5, Zenon DEF TablesInv, Stage, InLine
  <2> QED
    BY Zenon, <2>9, <2>10
<1> QED
  BY <1>10, <1>11, <1>12, Zenon DEF TablesInv, Stage


(* What verifySessionSignerResults finds in the rows of the members M, of  *)
(* which there are threshold + 1: it holds when all of them have the same  *)
(* signature.                                                              *)
LEMMA Verified ==
    ASSUME NodesCount, NEW M \in SUBSET Nodes, threshold \in Nat, Cardinality(M) = threshold + 1,
           NEW rows \in [Nodes -> Extras \cup {NoRow}], Found(rows) = M
    PROVE  /\ verifySessionSignerResults(rows) =>
                FirstSig(rows) \in Signatures /\ \A m \in M : rows[m] = FirstSig(rows)
           /\ \A sig \in Signatures : (\A m \in M : rows[m] = sig) => verifySessionSignerResults(rows)
<1>1. M # {}
  <2>1. Cardinality(M) # 0
    OBVIOUS
  <2> QED
    BY <2>1, Zenon DEF NodesCount
<1>2. Agreeing(rows) \subseteq M
  BY Zenon DEF Agreeing
<1>3. ASSUME verifySessionSignerResults(rows)
      PROVE  FirstSig(rows) \in Signatures /\ \A m \in M : rows[m] = FirstSig(rows)
  <2>1. Cardinality(Agreeing(rows)) >= threshold + 1
    BY Zenon, <1>3 DEF verifySessionSignerResults
  <2>2. Cardinality(Agreeing(rows)) <= Cardinality(M) /\ Cardinality(Agreeing(rows)) \in Nat
    BY Zenon, <1>2, NodeSet, NodeSubset
  <2>3. Cardinality(Agreeing(rows)) = Cardinality(M)
    BY <2>1, <2>2
  <2>4. Agreeing(rows) = M
    BY Zenon, <1>2, <2>3, NodeSubset
  <2>5. \A m \in M : rows[m] # NoSig /\ rows[m] = FirstSig(rows)
    BY <2>4, Zenon DEF Agreeing
  <2>6. FirstSig(rows) # NoSig /\ FirstSig(rows) \in Extras
    BY <1>1, <2>5, FirstSigType, Zenon
  <2> QED
    BY Zenon, <2>5, <2>6 DEF Extras
<1>4. ASSUME NEW sig \in Signatures, \A m \in M : rows[m] = sig
      PROVE  verifySessionSignerResults(rows)
  <2>1. Min(M) \in M
    BY <1>1, Zenon DEF NodesCount
  <2>2. FirstSig(rows) = sig
    BY <1>1, <1>4, <2>1, Zenon DEF FirstSig
  <2>3. sig # NoSig
    BY Zenon, ExtraAssumption
  <2>4. Agreeing(rows) = M
    BY <1>4, <2>2, <2>3, Zenon DEF Agreeing
  <2> QED
    BY <2>4 DEF verifySessionSignerResults
<1> QED
  BY <1>3, <1>4, Zenon

(* The row of the sender of a result is updated and the rows are compared. *)
LEMMA UpdateTables ==
    ASSUME NodesCount, TypeOK, LogInv, SentInv, NEW n \in Nodes, TablesInv(n), SessionMoves(n),
           \A m \in Nodes : Written(m), UpdateSessionSigner(n)
    PROVE  TablesInv(n)'
<1>1. PICK L, M : L = Processed(n) /\ M = Members(n)
  BY Zenon
<1>2. /\ session' = session /\ UNCHANGED <<threshold, log>>
      /\ worker[n].at = "update" /\ Processed(n) < Len(log) /\ Output(n).type = "Result"
  BY Zenon, UpdateRests DEF TablesInv
<1>3. /\ L \in Nat /\ L + 1 \in DOMAIN log /\ log[L + 1] = Output(n)
      /\ 1..(L + 1) = (1..L) \cup {L + 1}
      /\ Output(n).from \in Nodes /\ Output(n).extra \in Extras
  BY Zenon, <1>1, <1>2, OutputType, LogBefore
<1>4. /\ signers' \in [Nodes -> [Nodes -> Extras \cup {NoRow}]]
      /\ signers'[n] = UpdateRow(n) /\ Members(n)' = M
      /\ Output(n).from \in M => signers'[n][Output(n).from] = Output(n).extra
      /\ \A k \in Nodes : k # Output(n).from \/ k \notin M => signers'[n][k] = signers[n][k]
  BY <1>1, <1>2, UpdateEffect, ZenonT(40)
<1>5. session[n].prepared /\ \E c \in DOMAIN log : PreparedBy(n, c)
  BY Zenon, <1>2, ResultPrepared DEF TablesInv
<1>6. PICK c \in DOMAIN log : PreparedBy(n, c)
  BY Zenon, <1>5
<1>7. /\ M # {} /\ M \in SUBSET Nodes
      /\ Cardinality(M) = threshold + 1 /\ threshold \in Nat
  BY Zenon, <1>1, <1>6, Quorum
<1>8. \A i \in DOMAIN log : log[i].type = "Result" /\ log[i].from = log[L + 1].from => i = L + 1
  BY <1>2, <1>3, ZenonT(40) DEF LogInv, SentOnce
<1>9. \A m \in M : signers'[n][m] # NoSig =>
            \E j \in DOMAIN log : j <= L + 1 /\ log[j].type = "Result"
                                  /\ log[j].from = m /\ log[j].extra = signers'[n][m]
  <2> SUFFICES ASSUME NEW m \in M, signers'[n][m] # NoSig
               PROVE  \E j \in DOMAIN log : j <= L + 1 /\ log[j].type = "Result"
                                  /\ log[j].from = m /\ log[j].extra = signers'[n][m]
    BY Zenon
  <2>1. CASE m = Output(n).from
    <3>1. L + 1 <= L + 1
      BY <1>3
    <3> QED
      BY <1>2, <1>3, <1>4, <2>1, <3>1, ZenonT(40)
  <2>2. CASE m # Output(n).from
    <3>1. m \in Nodes /\ signers'[n][m] = signers[n][m]
      BY <1>4, <1>7, <2>2, Zenon
    <3>2. PICK j \in DOMAIN log : j <= L + 1 /\ log[j].type = "Result"
                                  /\ log[j].from = m /\ log[j].extra = signers[n][m]
      BY <1>1, <3>1, Zenon DEF TablesInv, RowsFromLog
    <3> QED
      BY <3>1, <3>2, Zenon
  <2> QED
    BY ZenonT(20), <2>1, <2>2
<1>10. \A i \in 1..(L + 1) : Applied(n, i)'
  <2> SUFFICES ASSUME NEW i \in 1..(L + 1), log[i].type = "Result", log[i].from \in M
               PROVE  signers'[n][log[i].from] = log[i].extra
    BY <1>2, <1>4, Zenon DEF Applied
  <2>1. CASE i = L + 1
    BY <1>3, <1>4, <2>1, Zenon
  <2>2. CASE i \in 1..L
    <3>1. i \in DOMAIN log /\ i # L + 1
      BY Zenon, <1>3, <2>2, LogBefore
    <3>2. log[i].from # Output(n).from /\ log[i].from \in Nodes
      BY <1>3, <1>7, <1>8, <3>1, Zenon
    <3>3. signers[n][log[i].from] = log[i].extra
      BY <1>1, <2>2, Zenon DEF TablesInv, RowsComplete, Applied
    <3> QED
      BY <1>4, <3>2, <3>3, ZenonT(40)
  <2> QED
    BY <1>3, <2>1, <2>2, Zenon
<1>11. UpdateRow(n) \in [Nodes -> Extras \cup {NoRow}] /\ Found(UpdateRow(n)) = M
  BY ZenonT(40), <1>4 DEF Found, Members
<1>12. \A i \in 1..L : results[n][i] = ReplyTo(M, i)
  BY <1>1, Zenon DEF TablesInv, Replies
<1>13. /\ \A d : (Decisive(d)' <=> Decisive(d)) /\ Senders(d)' = Senders(d)
       /\ \A N, sig, j : AllResults(N, sig, j)' <=> AllResults(N, sig, j)
       /\ \A N, i : ReplyTo(N, i)' = ReplyTo(N, i)
  BY Zenon, <1>2, LogSame
<1>14. Written(n)'
  BY <1>1, <1>2, <1>4, WrittenKept, Zenon
<1>15. CASE verifySessionSignerResults(UpdateRow(n))
  <2>1. /\ Step(n, At("finish", worker[n].seen, FirstSig(UpdateRow(n)))) /\ UNCHANGED results
    BY <1>15, Zenon DEF UpdateSessionSigner
  <2>2. PICK sig : sig = FirstSig(UpdateRow(n))
    BY Zenon
  <2>3. sig \in Signatures /\ \A m \in M : signers'[n][m] = sig
    <3>1. PICK rows \in [Nodes -> Extras \cup {NoRow}] : rows = UpdateRow(n)
      BY Zenon, <1>11
    <3>2. Found(rows) = M /\ verifySessionSignerResults(rows) /\ sig = FirstSig(rows)
      BY Zenon, <1>11, <1>15, <2>2, <3>1
    <3>3. sig \in Signatures /\ \A m \in M : rows[m] = sig
      BY ZenonT(40), <1>7, <3>2, Verified
    <3> QED
      BY Zenon, <1>4, <3>1, <3>3
  <2>4. worker'[n].at = "finish" /\ worker'[n].seen = worker[n].seen /\ worker'[n].reply = sig
    <3>1. worker[n].seen \in SessionRow /\ sig \in Extras
      BY Zenon, <2>3 DEF TypeOK, Worker, Extras
    <3> QED
      BY Zenon, <2>1, <2>2, <3>1, StepTo
  <2>5. Processed(n)' = L /\ Output(n)' = Output(n)
    BY Zenon, <1>1, <1>2, <2>1 DEF Processed, Output
  <2>6. AllResults(M, sig, L + 1)
    <3> SUFFICES ASSUME NEW m \in M PROVE HasResult(m, sig, L + 1)
      BY Zenon DEF AllResults
    <3>1. signers'[n][m] = sig /\ sig # NoSig
      BY Zenon, <2>3, ExtraAssumption
    <3>2. PICK j \in DOMAIN log : j <= L + 1 /\ log[j].type = "Result"
                                  /\ log[j].from = m /\ log[j].extra = sig
      BY <1>9, <3>1, ZenonT(40)
    <3>3. j \in 1..(L + 1)
      BY Zenon, <1>3, <3>2, LogBefore
    <3> QED
      BY <3>2, <3>3, Zenon DEF HasResult
  <2>7. Stage(n)'
    <3>1. worker'[n].at # "mark"
      BY Zenon, <2>4
    <3>2. PreparedBy(n, c)'
      BY <1>1, <1>2, <1>4, <1>5, <1>6, <1>13, <2>5, <3>1, Zenon DEF PreparedBy
    <3> QED
      BY <1>2, <3>2, Zenon DEF Stage
  <2>8. Handling(n)'
    <3>1. worker'[n].at # "mark"
      BY Zenon, <2>4
    <3> QED
      BY <1>1, <1>2, <2>5, <3>1, Zenon DEF Handling
  <2>9. RowsFromLog(n)'
    BY <1>2, <1>4, <1>9, <2>5, Zenon DEF RowsFromLog
  <2>10. RowsComplete(n)'
    BY <1>3, <1>10, <2>5, Zenon DEF RowsComplete
  <2>11. Replies(n)'
    BY <1>4, <1>12, <1>13, <2>1, <2>5, Zenon DEF Replies
  <2>12. Carried(n)'
    <3>1. /\ worker[n].at \in {"update", "finish"} /\ worker'[n].at # "record"
      BY Zenon, <1>2, <2>4
    <3>2. worker[n].seen.extra # NoSig => session[n].extra = worker[n].seen.extra
      BY <3>1, Zenon DEF TablesInv, Carried
    <3>3. AllResults(M, sig, L + 1)'
      BY <1>13, <2>6, Zenon
    <3> QED
      BY <1>2, <1>4, <2>3, <2>4, <2>5, <3>1, <3>2, <3>3, Zenon DEF Carried
  <2> QED
    BY <1>14, <2>7, <2>8, <2>9, <2>10, <2>11, <2>12, Zenon DEF TablesInv
<1>16. CASE ~verifySessionSignerResults(UpdateRow(n))
  <2>1. WriteActionResults(n, NoSig)
    BY <1>16, Zenon DEF UpdateSessionSigner
  <2>2. ~Decides(M, L + 1)
    <3> SUFFICES ASSUME Decides(M, L + 1) PROVE FALSE
      BY Zenon
    <3>1. PICK sig : sig = log[L + 1].extra
      BY ZenonT(20)
    <3>2. sig \in Signatures /\ AllResults(M, sig, L + 1)
      BY Zenon, <1>3, <3>1 DEF Decides, Extras
    <3>3. ASSUME NEW m \in M PROVE UpdateRow(n)[m] = sig
      <4>1. PICK j \in 1..(L + 1) : log[j].type = "Result" /\ log[j].from = m /\ log[j].extra = sig
        BY <3>2, <3>3, Zenon DEF AllResults, HasResult
      <4>2. signers'[n][m] = sig
        BY <1>2, <1>4, <1>10, <4>1, Zenon DEF Applied
      <4> QED
        BY <1>4, <4>2, Zenon
    <3> QED
      BY Zenon, <1>7, <1>11, <1>16, <3>2, <3>3, Verified
  <2>3. NoSig = ReplyTo(M, L + 1) /\ NoSig \in Extras
    BY Zenon, <2>2 DEF ReplyTo, Extras
  <2>4. Applied(n, L + 1)' /\ \A i \in 1..L : Applied(n, i)'
    BY <1>3, <1>10, ZenonT(40)
  <2>5. /\ Processed(n)' = L + 1 /\ worker'[n].at = "idle"
        /\ InLine(n)'
    <3>1. SoFar(n, L)
      BY <1>4, <1>9, <1>12, <2>4, ZenonT(40) DEF SoFar
    <3> QED
      BY Zenon, <1>1, <1>2, <1>4, <2>1, <2>3, <2>4, <3>1, HandlerEnds
  <2>6. c <= Processed(n)' /\ worker'[n].at # "mark"
    <3>1. c <= Processed(n) + 1
      BY Zenon, <1>5, <1>6, PreparedBefore
    <3> QED
      BY Zenon, <1>1, <2>5, <3>1
  <2>7. PreparedBy(n, c)'
    BY <1>1, <1>2, <1>4, <1>5, <1>6, <1>13, <2>6, Zenon DEF PreparedBy
  <2>8. Stage(n)'
    BY <1>2, <2>7, Zenon DEF Stage
  <2> QED
    BY <1>14, <2>5, <2>8, Zenon DEF TablesInv, InLine
<1> QED
  BY Zenon, <1>15, <1>16


(* The reply to the result that a handler has found all members to agree   *)
(* with: it is the signature when it is the first time, and nothing when   *)
(* the session has been answered.                                          *)
LEMMA ReplyFound ==
    ASSUME TypeOK, LogInv, NEW M \in SUBSET Nodes, M # {}, NEW sig \in Signatures,
           NEW L \in Nat, L + 1 \in DOMAIN log, AllResults(M, sig, L + 1),
           NEW reply, \A i \in 1..L : reply[i] = ReplyTo(M, i)
    PROVE  /\ (\E i \in 1..L : reply[i] # NoSig) => ReplyTo(M, L + 1) = NoSig
           /\ (\A i \in 1..L : reply[i] = NoSig) => ReplyTo(M, L + 1) = sig
<1>1. SentOnce /\ SomeDecides
  BY Zenon DEF LogInv
<1>2. DOMAIN log = 1..Len(log) /\ Len(log) \in Nat
  BY Zenon, LogType
<1>3. \A i \in 1..L : i \in DOMAIN log /\ i # L + 1
  BY <1>2
<1>4. \A i \in 1..L : Decides(M, i) <=> reply[i] # NoSig
  BY Zenon DEF ReplyTo, Decides
<1>5. ASSUME NEW i \in 1..L, reply[i] # NoSig PROVE ReplyTo(M, L + 1) = NoSig
  <2>1. Decides(M, i) /\ i \in DOMAIN log /\ i # L + 1
    BY <1>3, <1>4, <1>5, Zenon
  <2>2. ~Decides(M, L + 1)
    BY Zenon, <1>1, <2>1, DecidesUnique
  <2> QED
    BY Zenon, <2>2 DEF ReplyTo
<1>6. ASSUME \A i \in 1..L : reply[i] = NoSig PROVE ReplyTo(M, L + 1) = sig
  <2>1. PICK i \in 1..(L + 1) : Decides(M, i)
    BY <1>1, Zenon DEF SomeDecides
  <2>2. i \notin 1..L
    BY <1>4, <1>6, <2>1, Zenon
  <2>3. i = L + 1
    BY <2>1, <2>2
  <2>4. log[L + 1].type = "Result" /\ HasResult(log[L + 1].from, sig, L + 1)
    BY <2>1, <2>3, Zenon DEF Decides, AllResults
  <2>5. PICK j \in 1..(L + 1) : /\ log[j].type = "Result" /\ log[j].from = log[L + 1].from
                                /\ log[j].extra = sig
    BY <2>4, Zenon DEF HasResult
  <2>6. j \in DOMAIN log
    BY <1>2
  <2>7. j = L + 1
    BY <1>1, <2>4, <2>5, <2>6, Zenon DEF SentOnce
  <2> QED
    BY <2>1, <2>3, <2>5, <2>7, Zenon DEF ReplyTo
<1> QED
  BY <1>5, <1>6, Zenon

(* The end of a result on which all members agree.                         *)
LEMMA FinishTables ==
    ASSUME NodesCount, TypeOK, LogInv, SentInv, NEW n \in Nodes, TablesInv(n), SessionMoves(n),
           \A m \in Nodes : Written(m), FinishResult(n)
    PROVE  TablesInv(n)'
<1>1. PICK L, M, sig : L = Processed(n) /\ M = Members(n) /\ sig = worker[n].reply
  BY Zenon
<1>2. /\ worker[n].at = "finish"
      /\ \/ session' = session
         \/ /\ session[n].state = "Initial" /\ session[n].prepared
            /\ To(n, "Pending", session[n].committed, session[n].prepared, sig)
      /\ \/ /\ CheckActionResultsBySessionId(n)
            /\ Step(n, At("record", NoSession, NoSig))
         \/ /\ ~CheckActionResultsBySessionId(n)
            /\ Step(n, At("record", NoSession, sig))
      /\ UNCHANGED <<threshold, log, signers, results>>
  BY <1>1, FinishEffect, Zenon
<1>3. Processed(n) < Len(log) /\ Output(n).type = "Result"
  BY Zenon, <1>2 DEF TablesInv, Handling
<1>4. L \in Nat /\ L + 1 \in DOMAIN log /\ DOMAIN results[n] = 1..L
  BY Zenon, <1>1, <1>3, OutputType, LogType
<1>5. session[n].prepared /\ \E c \in DOMAIN log : PreparedBy(n, c)
  BY Zenon, <1>3, ResultPrepared DEF TablesInv
<1>6. PICK c \in DOMAIN log : PreparedBy(n, c)
  BY Zenon, <1>5
<1>7. M # {} /\ M \in SUBSET Nodes
  BY Zenon, <1>1, <1>6, Quorum
<1>8. sig \in Signatures /\ sig \in Extras /\ sig # NoSig /\ AllResults(M, sig, L + 1)
  <2>1. sig \in Signatures /\ AllResults(M, sig, L + 1)
    BY <1>1, <1>2, Zenon DEF TablesInv, Carried
  <2> QED
    BY Zenon, <2>1, ExtraAssumption DEF Extras
<1>9. /\ Members(n)' = M /\ Processed(n)' = L /\ Output(n)' = Output(n)
  BY Zenon, <1>1, <1>2 DEF Members, Processed, Output
<1>10. /\ \A d : (Decisive(d)' <=> Decisive(d)) /\ Senders(d)' = Senders(d)
       /\ \A N, i : ReplyTo(N, i)' = ReplyTo(N, i)
  BY Zenon, <1>2, LogSame
<1>11. \A i \in 1..L : results[n][i] = ReplyTo(M, i)
  BY <1>1, ZenonT(40) DEF TablesInv, Replies
<1>12. worker'[n].at = "record" /\ worker'[n].reply = ReplyTo(M, L + 1)
  <2>1. NoSession \in SessionRow /\ NoSig \in Extras
    BY Zenon, IdleFields DEF Extras
  <2>2. CASE CheckActionResultsBySessionId(n)
    <3>1. ReplyTo(M, L + 1) = NoSig
      <4>1. \E i \in 1..L : results[n][i] # NoSig
        BY <1>4, <2>2, Zenon DEF CheckActionResultsBySessionId
      <4> QED
        BY <1>4, <1>7, <1>8, <1>11, <4>1, ReplyFound, Zenon
    <3>2. Step(n, At("record", NoSession, NoSig))
      BY <1>2, <2>2, Zenon
    <3> QED
      <4>1. PICK at \in {"idle", "mark", "update", "finish", "record"} : at = "record"
        BY Zenon
      <4>2. Step(n, At(at, NoSession, NoSig))
        BY Zenon, <3>2, <4>1
      <4>3. worker'[n].at = at /\ worker'[n].reply = NoSig
        BY Zenon, <2>1, <4>2, StepTo
      <4> QED
        BY Zenon, <3>1, <4>1, <4>3
  <2>3. CASE ~CheckActionResultsBySessionId(n)
    <3>1. ReplyTo(M, L + 1) = sig
      BY <1>4, <1>7, <1>8, <1>11, <2>3, ReplyFound, ZenonT(40) DEF CheckActionResultsBySessionId
    <3>2. Step(n, At("record", NoSession, sig))
      BY <1>2, <2>3, Zenon
    <3>3. sig \in Extras
      BY <1>8, Zenon
    <3>4. worker'[n].at = "record" /\ worker'[n].reply = sig
      BY Zenon, <2>1, <3>2, <3>3, StepTo
    <3> QED
      BY <3>1, <3>4, Zenon
  <2> QED
    BY Zenon, <2>2, <2>3
<1>13. session'[n].prepared /\ session'[n].state # "none"
  <2>1. session[n].state # "none"
    BY Zenon, <1>6 DEF PreparedBy
  <2> QED
    BY <1>5, <2>1, ZenonT(40) DEF SessionMoves
<1>14. Stage(n)'
  <2>1. worker'[n].at # "mark"
    BY Zenon, <1>12
  <2>2. PreparedBy(n, c)'
    BY <1>1, <1>2, <1>5, <1>6, <1>9, <1>10, <1>13, <2>1, Zenon DEF PreparedBy
  <2> QED
    BY <1>2, <2>2, ZenonT(40) DEF Stage
<1>15. Handling(n)'
  <2>1. worker'[n].at # "mark"
    BY Zenon, <1>12
  <2> QED
    BY <1>1, <1>2, <1>3, <1>9, <2>1, ZenonT(40) DEF Handling
<1>16. RowsFromLog(n)'
  <2>1. \A m \in M : signers'[n][m] # NoSig =>
            \E j \in DOMAIN log : j <= L + 1 /\ log[j].type = "Result"
                                  /\ log[j].from = m /\ log[j].extra = signers'[n][m]
    BY <1>1, <1>2, ZenonT(40) DEF TablesInv, RowsFromLog
  <2> QED
    BY <1>2, <1>9, <2>1, ZenonT(40) DEF RowsFromLog
<1>17. RowsComplete(n)'
  <2>1. worker[n].at \in {"finish", "record"}
    BY Zenon, <1>2
  <2>2. \A i : Applied(n, i)' <=> Applied(n, i)
    BY <1>1, <1>2, <1>9, Zenon DEF Applied
  <2>3. (\A i \in 1..L : Applied(n, i)) /\ Applied(n, L + 1)
    BY <1>1, <2>1, Zenon DEF TablesInv, RowsComplete
  <2> QED
    BY <1>9, <2>2, <2>3, Zenon DEF RowsComplete
<1>18. Replies(n)'
  BY <1>2, <1>9, <1>10, <1>11, Zenon DEF Replies
<1>19. Carried(n)'
  <2>1. worker'[n].at \notin {"update", "finish"} /\ worker'[n].at # "finish"
    BY Zenon, <1>12
  <2> QED
    BY <1>9, <1>10, <1>12, <2>1, ZenonT(40) DEF Carried
<1>20. Written(n)'
  <2>1. CASE session' = session
    BY <1>1, <1>9, <2>1, WrittenKept, Zenon
  <2>2. CASE /\ session[n].state = "Initial" /\ session[n].prepared
             /\ To(n, "Pending", session[n].committed, session[n].prepared, sig)
    <3>1. /\ session[n].committed \in BOOLEAN /\ session[n].prepared \in BOOLEAN
      BY Zenon, RowFields DEF TypeOK
    <3>2. session'[n].state = "Pending" /\ session'[n].extra = sig
      BY Zenon, <2>2, ToFields
    <3>3. ASSUME NEW m \in M
          PROVE  session[m].state \in {"Pending", "Done"} /\ session[m].extra = sig /\ m \in Nodes
      <4>1. PICK j \in 1..(L + 1) : log[j].type = "Result" /\ log[j].from = m /\ log[j].extra = sig
        BY <1>8, <3>3, Zenon DEF AllResults, HasResult
      <4>2. j \in DOMAIN log
        BY Zenon, <1>4, <4>1, LogBefore
      <4> QED
        BY <1>7, <3>3, <4>1, <4>2, Zenon DEF SentInv
    <3>4. ASSUME NEW m \in M PROVE session'[m].extra = sig
      <4>1. m # n /\ m \in Nodes /\ session[m].extra = sig
        BY Zenon, <2>2, <3>3, <3>4
      <4> QED
        BY <4>1, Zenon DEF SessionMoves
    <3>5. session'[n].state \in {"Pending", "Done"}
      BY Zenon, <3>2
    <3> QED
      BY <1>9, <3>2, <3>4, <3>5, ZenonT(40) DEF Written
  <2> QED
    BY Zenon, <1>2, <2>1, <2>2
<1> QED
  BY <1>14, <1>15, <1>16, <1>17, <1>18, <1>19, <1>20, Zenon DEF TablesInv


(* The tables of all nodes keep their invariant.                           *)
LEMMA TablesStep ==
    ASSUME NodesCount, TypeOK, LogInv, SentInv, \A k \in Nodes : TablesInv(k),
           NEW n \in Nodes, Computing(n),
           Kinds(n)
    PROVE  /\ \A k \in Nodes : TablesInv(k)'
           /\ SessionMoves(n)
           /\ \A k \in Nodes : k # n => SameTables(k)
<1>1. (\A k \in Nodes : Written(k)) /\ TablesInv(n) /\ Handling(n)
  BY Zenon DEF TablesInv
<1>2. SessionMoves(n)
  BY Zenon, <1>1, SessionStep
<1>3. \A k \in Nodes : k # n => SameTables(k)
  BY Zenon, <1>1, OthersKept
<1>4. CASE \E type \in {"Prepare", "Result"}, extra \in Extras : Sends(n, type, extra)
  BY Zenon, <1>2, <1>3, <1>4, TablesSent
<1>5. CASE UNCHANGED <<threshold, log>>
  <2>1. ASSUME NEW k \in Nodes, k # n PROVE TablesInv(k)'
    BY Zenon, <1>1, <1>2, <1>3, <1>5, <2>1, TablesKept
  <2>2. TablesInv(n)'
    <3>1. CASE Resting /\ UNCHANGED session
      <4>1. SameTables(n)
        BY Zenon, <3>1 DEF Resting, SameTables
      <4> QED
        BY ZenonT(20), <1>1, <1>2, <1>5, <4>1, TablesKept
    <3>2. CASE \E s \in States, c \in BOOLEAN, e \in Extras : Moved(n, s, c, e)
      BY <1>1, <1>2, <3>2, MovedTables, Zenon
    <3>3. CASE Restarted(n)
      BY Zenon, <1>1, <1>2, <3>3, RestartedTables
    <3>4. CASE PrepareSessionSignerIfNotExist(n)
      BY ZenonT(20), <1>1, <1>2, <3>4, PrepareTables
    <3>5. CASE Marked(n)
      BY Zenon, <1>1, <1>2, <3>5, MarkedTables
    <3>6. CASE ReadSession(n)
      BY Zenon, <1>1, <1>2, <3>6, ReadTables
    <3>7. CASE UpdateSessionSigner(n)
      BY Zenon, <1>1, <1>2, <3>7, UpdateTables
    <3>8. CASE FinishResult(n)
      BY ZenonT(20), <1>1, <1>2, <3>8, FinishTables
    <3>9. CASE Reply(n)
      BY Zenon, <1>1, <1>2, <3>9, ReplyTables
    <3>10. CASE \E type \in {"Prepare", "Result"}, extra \in Extras : Sends(n, type, extra)
      BY Zenon, <1>1, <3>10, TablesSent
    <3> QED
      BY <3>1, <3>2, <3>3, <3>4, <3>5, <3>6, <3>7, <3>8, <3>9, <3>10, Zenon DEF Kinds
  <2> QED
    BY <1>2, <1>3, <2>1, <2>2, Zenon
<1> QED
  BY <1>1, <1>4, <1>5, LogSteps, Zenon

=============================================================================
