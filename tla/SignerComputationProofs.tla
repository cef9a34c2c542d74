----------------------- MODULE SignerComputationProofs -----------------------
(***************************************************************************)
(* The invariant of a session holds, and what it gives: the nodes agree on *)
(* the members of a session and on the reply to every output, the keeper   *)
(* gets one reply, every member has its signature; and the loops, the      *)
(* worker and the crashes implement the computation of SigningAttempts, so *)
(* that no two nodes have different signatures.                            *)
(***************************************************************************)
EXTENDS SignerSessionProofs

-----------------------------------------------------------------------------
(* The memory of a process.  A step leaves that of the other nodes.        *)
SameMemory(k) ==
    /\ prepared'[k] = prepared[k] /\ accepting'[k] = accepting[k]
    /\ operations'[k] = operations[k] /\ attempt'[k] = attempt[k]
    /\ running'[k] = running[k] /\ view'[k] = view[k]

(* A process that starts again has forgotten.                              *)
Forgotten(n) ==
    /\ prepared'[n] = "idle" /\ ~accepting'[n] /\ ~operations'[n] /\ ~running'[n]
    /\ view'[n] = NoSig /\ attempt'[n] = attempt[n]

(* A number of attempts, of at most one more than the crashes.             *)
LEMMA WithinBound ==
    ASSUME NEW max \in Nat, NEW c \in 0..max, NEW a \in Nat, a <= c + 1,
           NEW x, x \in 1..a \/ x = 0
    PROVE  x \in 0..(max + 1)
  OBVIOUS

(* The effect of a restart.                                                *)
LEMMA ForgetEffect ==
    ASSUME TypeOK, NEW n \in Nodes, Forget(n), UNCHANGED attempt
    PROVE  Forgotten(n) /\ \A k \in Nodes : k # n => SameMemory(k)
<1>1. prepared'[n] = "idle" /\ view'[n] = NoSig /\ attempt'[n] = attempt[n]
  BY DEF TypeOK, Forget
<1>2. ~accepting'[n] /\ ~operations'[n] /\ ~running'[n]
  <2>1. DOMAIN accepting = Nodes /\ DOMAIN operations = Nodes /\ DOMAIN running = Nodes
    BY DEF TypeOK
  <2> QED
    BY <2>1, Zenon DEF Forget
<1>3. \A k \in Nodes : k # n => SameMemory(k)
  BY DEF TypeOK, Forget, SameMemory
<1> QED
  BY <1>1, <1>2, <1>3 DEF Forgotten

(* A process that has started its computation.                             *)
Started(n) ==
    /\ ~operations[n] /\ operations'[n]
    /\ attempt'[n] = IF n \in Members(n) THEN attempt[n] + 1 ELSE attempt[n]
    /\ running'[n] <=> n \in Members(n)
    /\ view'[n] = view[n]

(* The effect of the start of a computation.                               *)
LEMMA StartEffect ==
    ASSUME TypeOK, NEW n \in Nodes, queueOperation(n)
    PROVE  /\ Started(n)
           /\ \A k \in Nodes : k # n => /\ operations'[k] = operations[k] /\ attempt'[k] = attempt[k]
                                        /\ running'[k] = running[k] /\ view'[k] = view[k]
<1>1. DOMAIN operations = Nodes /\ DOMAIN running = Nodes /\ attempt \in [Nodes -> Nat]
  BY DEF TypeOK
<1>2. ~operations[n] /\ operations'[n] /\ (running'[n] <=> n \in Members(n)) /\ view'[n] = view[n]
  BY <1>1, Zenon DEF queueOperation
<1>3. attempt'[n] = IF n \in Members(n) THEN attempt[n] + 1 ELSE attempt[n]
  BY <1>1 DEF queueOperation
<1>4. \A k \in Nodes : k # n => operations'[k] = operations[k] /\ running'[k] = running[k]
  BY <1>1, Zenon DEF queueOperation
<1>5. \A k \in Nodes : k # n => attempt'[k] = attempt[k]
  BY <1>1 DEF queueOperation
<1> QED
  BY <1>2, <1>3, <1>4, <1>5 DEF Started, queueOperation


(* The kinds of steps, by what they do to the memory of n.                 *)
MemoryKinds(n) ==
    \/ SameMemory(n) /\ (session'[n].extra = session[n].extra \/ FinishResult(n))
    \/ Forgotten(n) /\ crashes' = crashes + 1
    \/ /\ Forgotten(n) /\ session' = session
       /\ \/ MarkSessionPrepared(n) /\ session[n].state # "Initial"
          \/ FinishTooLate(n)
          \/ Expire(n) /\ session[n].state # "Initial"
          \/ prepared[n] = "waiting" /\ ~(session[n].state = "Initial" /\ session[n].prepared)
          \/ prepared[n] = "waiting" /\ session[n].state # "Initial"
    \/ /\ Started(n) /\ UNCHANGED <<session, signers>>
       /\ \/ prepared'[n] \in {"idle", "waiting"} /\ ListedPrepared(n) /\ accepting'[n] = accepting[n]
          \/ prepared'[n] = prepared[n] /\ accepting[n] /\ ~accepting'[n]
    \/ /\ accepting[n] /\ ~accepting'[n] /\ operations'[n] = operations[n]
       /\ prepared'[n] = prepared[n] /\ attempt'[n] = attempt[n]
       /\ running'[n] = running[n] /\ view'[n] = view[n] /\ UNCHANGED <<session, signers>>
    \/ /\ session[n].state = "Initial" /\ Cardinality(Members(n)) >= threshold + 1
       /\ ~operations[n] /\ accepting'[n] /\ UNCHANGED <<session, signers>>
       /\ operations'[n] = operations[n] /\ prepared'[n] = prepared[n] /\ attempt'[n] = attempt[n]
       /\ running'[n] = running[n] /\ view'[n] = view[n]
    \/ /\ \/ prepared'[n] = "expiring" /\ ListedPrepared(n) /\ UNCHANGED <<session, signers>>
          \/ prepared'[n] = "idle" /\ Expire(n) /\ session'[n].extra = session[n].extra
                                   /\ UNCHANGED signers
       /\ operations'[n] = operations[n] /\ accepting'[n] = accepting[n] /\ attempt'[n] = attempt[n]
       /\ running'[n] = running[n] /\ view'[n] = view[n]
    \/ /\ running[n] /\ UNCHANGED <<session, signers>> /\ prepared'[n] = prepared[n]
       /\ accepting'[n] = accepting[n] /\ operations'[n] = operations[n]
       /\ attempt'[n] = attempt[n] /\ running'[n] = running[n]
    \/ /\ running[n] /\ ~running'[n] /\ view'[n] = NoSig /\ UNCHANGED signers
       /\ prepared'[n] \in {prepared[n], "idle"} /\ accepting'[n] = accepting[n]
       /\ operations'[n] = operations[n] /\ attempt'[n] = attempt[n]

(* Every step is of one of these kinds, and leaves the memory of the       *)
(* others.                                                                 *)
LEMMA MemoryEffect ==
    ASSUME TypeOK, NEW n \in Nodes, NodeNext(n)
    PROVE  /\ MemoryKinds(n)
           /\ \A k \in Nodes : k # n => SameMemory(k)
           /\ threshold' = threshold /\ crashes' \in {crashes, crashes + 1}
<1> USE DEF database, setting, loops, computation
<1> DEFINE Others == \A k \in Nodes : k # n => SameMemory(k)
           Goal == MemoryKinds(n) /\ Others /\ threshold' = threshold /\ crashes' \in {crashes, crashes + 1}
           r == session[n]
<1>1. /\ prepared \in [Nodes -> {"idle", "expiring", "waiting"}] /\ view \in [Nodes -> Extras]
      /\ attempt \in [Nodes -> Nat] /\ session \in [Nodes -> SessionRow]
      /\ DOMAIN accepting = Nodes /\ DOMAIN operations = Nodes /\ DOMAIN running = Nodes
  BY Zenon DEF TypeOK
<1>2. ASSUME UNCHANGED <<prepared, computation, setting>>,
             session'[n].extra = session[n].extra \/ FinishResult(n)
      PROVE  Goal
  BY <1>2, Zenon DEF SameMemory, MemoryKinds
<1>4. ASSUME NEW x, \/ session' = session
                    \/ session' = [session EXCEPT ![n].state = x]
                    \/ session' = [session EXCEPT ![n].committed = x]
                    \/ session' = [session EXCEPT ![n].prepared = x]
      PROVE  session'[n].extra = session[n].extra
  <2>1. r \in SessionRow
    BY Zenon, <1>1
  <2>2. /\ [r EXCEPT !.state = x].extra = r.extra
        /\ [r EXCEPT !.committed = x].extra = r.extra
        /\ [r EXCEPT !.prepared = x].extra = r.extra
    BY Zenon, <2>1 DEF SessionRow
  <2> HIDE DEF r
  <2>3. \/ session' = session \/ session' = [session EXCEPT ![n] = [r EXCEPT !.state = x]]
        \/ session' = [session EXCEPT ![n] = [r EXCEPT !.committed = x]]
        \/ session' = [session EXCEPT ![n] = [r EXCEPT !.prepared = x]]
    BY <1>4, Zenon DEF r
  <2> QED
    BY <1>1, <2>2, <2>3, Zenon DEF r
<1>5. ASSUME Panic(n) PROVE /\ Forgotten(n) /\ Others /\ session' = session
                            /\ threshold' = threshold /\ crashes' = crashes
  BY <1>5, ForgetEffect, Zenon DEF Panic
<1> HIDE DEF r
<1>6. CASE WriteSessionIfNotExist(n) \/ PrepareSessionSignerIfNotExist(n) \/ ReadSession(n) \/ Reply(n)
  BY <1>2, <1>4, <1>6, Zenon DEF WriteSessionIfNotExist, PrepareSessionSignerIfNotExist, ReadSession, Reply
<1>7. CASE UpdateSessionSigner(n) \/ FinishResult(n)
  BY <1>2, <1>4, <1>7, Zenon DEF UpdateSessionSigner, FinishResult, Finish
<1>8. CASE MarkSessionPrepared(n)
  <2>1. CASE session[n].state = "Initial"
    BY <1>2, <1>4, <1>8, <2>1, Zenon DEF MarkSessionPrepared
  <2>2. CASE session[n].state # "Initial"
    BY <1>5, <1>8, <2>2, Zenon DEF MarkSessionPrepared, MemoryKinds
  <2> QED
    BY Zenon, <2>1, <2>2
<1>9. CASE FinishTooLate(n)
  BY <1>5, <1>9, Zenon DEF FinishTooLate, MemoryKinds
<1>10. CASE LoopInitial(n)
  BY <1>2, <1>4, <1>10, Zenon DEF LoopInitial, sendSignerPrepareTransaction, MarkSessionCommitted
<1>11. CASE LoopPending(n)
  BY <1>2, <1>4, <1>11, Zenon DEF LoopPending, sendSignerResultTransaction, MarkSessionDone
<1>12. CASE StartPrepared(n)
  <2>1. /\ Started(n) /\ ListedPrepared(n) /\ prepared'[n] \in {"idle", "waiting"}
        /\ UNCHANGED <<session, signers, accepting, threshold, crashes>>
        /\ \A k \in Nodes : k # n => prepared'[k] = prepared[k]
    BY Zenon, <1>1, <1>12, StartEffect DEF StartPrepared
  <2>2. Others
    BY <1>12, <2>1, StartEffect, Zenon DEF StartPrepared, SameMemory
  <2> QED
    BY <2>1, <2>2, Zenon DEF MemoryKinds
<1>13. CASE StartAccepted(n)
  <2>1. /\ accepting[n] /\ ~accepting'[n] /\ UNCHANGED <<session, signers, prepared, threshold, crashes>>
        /\ \A k \in Nodes : k # n => accepting'[k] = accepting[k]
    BY <1>1, <1>13, Zenon DEF StartAccepted
  <2>2. CASE queueOperation(n)
    <3>1. Started(n) /\ Others
      BY <2>1, <2>2, StartEffect, Zenon DEF SameMemory
    <3> QED
      BY <2>1, <3>1, Zenon DEF MemoryKinds
  <2>3. CASE UNCHANGED <<operations, attempt, running, view>>
    <3>1. Others
      BY <2>1, <2>3, Zenon DEF SameMemory
    <3> QED
      BY <2>1, <2>3, <3>1, Zenon DEF MemoryKinds
  <2> QED
    BY <1>13, <2>2, <2>3, Zenon DEF StartAccepted
<1>14. CASE \E m \in Nodes : AcceptIncomingMessage(n, m)
  <2>1. /\ session[n].state = "Initial" /\ Cardinality(Members(n)) >= threshold + 1 /\ ~operations[n]
        /\ accepting' = [accepting EXCEPT ![n] = TRUE]
        /\ UNCHANGED <<session, signers, prepared, operations, attempt, running, view, threshold, crashes>>
    BY <1>14, Zenon DEF AcceptIncomingMessage
  <2>2. accepting'[n] /\ \A k \in Nodes : k # n => accepting'[k] = accepting[k]
    BY <1>1, <2>1, Zenon
  <2> QED
    BY <2>1, <2>2, Zenon DEF MemoryKinds, SameMemory
<1>15. CASE ListExpiredSession(n)
  <2>1. /\ prepared'[n] = "expiring" /\ ListedPrepared(n) /\ UNCHANGED <<session, signers, computation, setting>>
        /\ \A k \in Nodes : k # n => prepared'[k] = prepared[k]
    BY Zenon, <1>1, <1>15 DEF ListExpiredSession
  <2> QED
    BY <2>1, Zenon DEF MemoryKinds, SameMemory
<1>16. CASE Expire(n)
  <2>1. CASE session[n].state = "Initial"
    <3>1. /\ prepared'[n] = "idle" /\ UNCHANGED <<signers, computation, setting>>
          /\ \A k \in Nodes : k # n => prepared'[k] = prepared[k]
      BY Zenon, <1>1, <1>16, <2>1 DEF Expire
    <3>2. session'[n].extra = session[n].extra
      BY <1>4, <1>16, <2>1, Zenon DEF Expire
    <3> QED
      BY <1>16, <3>1, <3>2, Zenon DEF MemoryKinds, SameMemory
  <2>2. CASE session[n].state # "Initial"
    <3>1. Panic(n)
      BY <1>16, <2>2, Zenon DEF Expire
    <3> QED
      BY <1>5, <1>16, <2>2, <3>1, Zenon DEF MemoryKinds
  <2> QED
    BY Zenon, <2>1, <2>2
<1>17. CASE SendShare(n)
  <2>1. PICK v : view' = [view EXCEPT ![n] = v]
    BY <1>17, Zenon DEF SendShare, Share
  <2>2. /\ running[n]
        /\ UNCHANGED <<session, signers, prepared, accepting, operations, attempt, running, threshold, crashes>>
    BY <1>17, Zenon DEF SendShare, Share
  <2>3. \A k \in Nodes : k # n => view'[k] = view[k]
    BY Zenon, <1>1, <2>1
  <2> QED
    BY <2>2, <2>3, Zenon DEF MemoryKinds, SameMemory
<1>18. ASSUME NEW marked, NEW e, EndSign(n, marked, e), running[n],
              ~marked => \/ ~(session[n].state = "Initial" /\ session[n].prepared)
                         \/ session[n].state # "Initial"
       PROVE  Goal
  <2>1. CASE marked
    <3>1. /\ prepared'[n] \in {prepared[n], "idle"} /\ view'[n] = NoSig
          /\ \A k \in Nodes : k # n => prepared'[k] = prepared[k] /\ view'[k] = view[k]
      BY Zenon, <1>1, <1>18, <2>1 DEF EndSign
    <3>2. /\ ~running'[n] /\ \A k \in Nodes : k # n => running'[k] = running[k]
      BY <1>1, <1>18, <2>1, Zenon DEF EndSign
    <3>3. UNCHANGED <<signers, accepting, operations, attempt, threshold, crashes>>
      BY <1>18, <2>1, Zenon DEF EndSign
    <3> QED
      BY <1>18, <3>1, <3>2, <3>3, Zenon DEF MemoryKinds, SameMemory
  <2>2. CASE ~marked /\ prepared[n] = "waiting"
    BY <1>5, <1>18, <2>2, Zenon DEF EndSign, MemoryKinds
  <2>3. CASE ~marked /\ prepared[n] # "waiting"
    <3>1. view'[n] = NoSig /\ \A k \in Nodes : k # n => view'[k] = view[k]
      BY Zenon, <1>1, <1>18, <2>3 DEF EndSign
    <3>2. /\ ~running'[n] /\ \A k \in Nodes : k # n => running'[k] = running[k]
      BY <1>1, <1>18, <2>3, Zenon DEF EndSign
    <3>3. UNCHANGED <<signers, prepared, accepting, operations, attempt, threshold, crashes>>
      BY <1>18, <2>3, Zenon DEF EndSign
    <3> QED
      BY <1>18, <3>1, <3>2, <3>3, Zenon DEF MemoryKinds, SameMemory
  <2> QED
    BY <2>1, <2>2, <2>3, Zenon
<1>19. CASE EndComputation(n)
  BY <1>18, <1>19, Zenon DEF EndComputation, MarkSessionPending, FailSession
<1>20. CASE Crash(n)
  BY <1>20, ForgetEffect, Zenon DEF Crash, MemoryKinds
<1> QED
  BY <1>6, <1>7, <1>8, <1>9, <1>10, <1>11, <1>12, <1>13, <1>14, <1>15, <1>16, <1>17, <1>19, <1>20,
     Zenon DEF NodeNext, Work, LoopPrepared


(* Members are added and never taken away.                                 *)
LEMMA MembersGrow ==
    ASSUME TypeOK, SentInv, NEW n \in Nodes, Handling(n), Kinds(n)
    PROVE  Members(n) \subseteq Members(n)'
<1>1. CASE signers' = signers
  BY Zenon, <1>1 DEF Members
<1>2. CASE PrepareSessionSignerIfNotExist(n)
  <2>1. PICK m : m = Output(n).from
    BY Zenon
  <2>2. Counted(n, m)
    BY Zenon, <1>2, <2>1, PrepareEffect
  <2>3. CASE session[n].prepared
    BY <1>1, <2>2, <2>3, Zenon DEF Counted
  <2>4. CASE ~session[n].prepared
    BY <2>2, <2>4, Zenon DEF Counted, Members
  <2> QED
    BY Zenon, <2>3, <2>4
<1>3. CASE UpdateSessionSigner(n)
  BY Zenon, <1>3, UpdateRests, UpdateEffect
<1>4. CASE FinishResult(n)
  BY Zenon, <1>1, <1>4, FinishEffect
<1>5. CASE \E s \in States, c \in BOOLEAN, e \in Extras : Moved(n, s, c, e)
  BY <1>1, <1>5, Zenon DEF Moved, Resting
<1>6. CASE Resting \/ Restarted(n) \/ Marked(n) \/ ReadSession(n) \/ Reply(n)
  BY <1>1, <1>6, Zenon DEF Resting, Restarted, Marked, ReadSession, Reply, database
<1>7. CASE \E type \in {"Prepare", "Result"}, extra \in Extras : Sends(n, type, extra)
  BY <1>1, <1>7, Zenon DEF Sends
<1> QED
  BY <1>2, <1>3, <1>4, <1>5, <1>6, <1>7, Zenon DEF Kinds

(* A quorum has threshold + 1 members, and nobody has more.                *)
LEMMA MembersFull ==
    ASSUME NodesCount, TypeOK, NEW n \in Nodes, Stage(n)
    PROVE  /\ Cardinality(Members(n)) \in Nat /\ threshold \in Nat
           /\ Cardinality(Members(n)) <= threshold + 1
           /\ session[n].prepared => /\ session[n].state # "none"
                                     /\ Cardinality(Members(n)) = threshold + 1
           /\ Cardinality(Members(n)) > threshold =>
                /\ session[n].state # "none"
                /\ \E c \in DOMAIN log : PreparedBy(n, c)
<1>1. Cardinality(Members(n)) \in Nat /\ threshold \in Nat
  BY Zenon, LogType DEF Members, NodesCount
<1>2. CASE Preparing(n)
  BY <1>1, <1>2 DEF Preparing
<1>3. ASSUME NEW c \in DOMAIN log, PreparedBy(n, c)
      PROVE  Cardinality(Members(n)) = threshold + 1 /\ session[n].state # "none"
  BY Zenon, <1>3, Quorum DEF PreparedBy
<1> QED
  BY <1>1, <1>2, <1>3 DEF Stage

(* A full membership stays.                                                *)
LEMMA MembersStay ==
    ASSUME NodesCount, TypeOK, TypeOK', SentInv, NEW n \in Nodes, Handling(n), Stage(n),
           Stage(n)', Kinds(n), threshold' = threshold, Cardinality(Members(n)) > threshold
    PROVE  Members(n)' = Members(n)
<1>1. Members(n) \subseteq Members(n)'
  BY Zenon, MembersGrow
<1>2. /\ Cardinality(Members(n)) \in Nat /\ threshold \in Nat
      /\ Cardinality(Members(n)) = threshold + 1
  BY MembersFull
<1>3. /\ Members(n)' \in SUBSET Nodes /\ Cardinality(Members(n)') \in Nat
      /\ Cardinality(Members(n)') <= threshold + 1
  <2>1. Members(n)' \in SUBSET Nodes /\ Cardinality(Members(n)') \in Nat
    BY Zenon DEF Members, NodesCount
  <2>2. CASE Preparing(n)'
    BY <1>2, <2>1, <2>2 DEF Preparing
  <2>3. CASE \E c \in DOMAIN log' : PreparedBy(n, c)'
    BY <1>2, <2>1, <2>3 DEF PreparedBy, Decisive
  <2> QED
    BY <2>1, <2>2, <2>3, Zenon DEF Stage
<1>4. Cardinality(Members(n)) <= Cardinality(Members(n)')
  BY Zenon, <1>1, <1>3, NodeSubset
<1>5. QED
  <2>1. Cardinality(Members(n)) = Cardinality(Members(n)')
    BY <1>2, <1>3, <1>4
  <2> QED
    BY Zenon, <1>1, <1>3, <2>1, NodeSubset


(* The end of a result writes no extra on a member.                        *)
LEMMA FinishByOutsider ==
    ASSUME TypeOK, SentInv, NEW n \in Nodes, TablesInv(n), FinishResult(n), n \in Members(n)
    PROVE  session' = session
<1>1. worker[n].at = "finish" /\ (session' # session => session[n].state = "Initial")
  BY FinishEffect, Zenon
<1>2. AllResults(Members(n), worker[n].reply, Processed(n) + 1) /\ Processed(n) < Len(log)
  <2>1. worker[n].at = "finish" /\ worker[n].at # "idle"
    BY Zenon, <1>1
  <2> QED
    BY <2>1, Zenon DEF TablesInv, Carried, Handling
<1>3. PICK j \in 1..(Processed(n) + 1) : log[j].type = "Result" /\ log[j].from = n
  BY <1>2, Zenon DEF AllResults, HasResult
<1>4. j \in DOMAIN log
  BY <1>2, LogType
<1>5. session[n].state \in {"Pending", "Done"}
  BY <1>3, <1>4, Zenon DEF SentInv
<1> QED
  BY Zenon, <1>1, <1>5

(* The memory of n agrees with its tables after a step of n.               *)
LEMMA ComputingStep ==
    ASSUME NodesCount, SessionInv, NEW n \in Nodes, NodeNext(n), Kinds(n),
           TypeOK', Stage(n)', SessionMoves(n)
    PROVE  Computing(n)' /\ AttemptsCounted(n)'
<1>1. /\ TypeOK /\ SentInv /\ TablesInv(n) /\ Stage(n) /\ Handling(n) /\ Written(n)
      /\ Computing(n) /\ AttemptsCounted(n)
  BY Zenon DEF SessionInv, TablesInv
<1>2. MemoryKinds(n) /\ threshold' = threshold /\ crashes' \in {crashes, crashes + 1}
  BY Zenon, <1>1, MemoryEffect
<1>3. /\ Cardinality(Members(n)) \in Nat /\ threshold \in Nat
      /\ session[n].prepared => session[n].state # "none" /\ Cardinality(Members(n)) > threshold
  BY <1>1, MembersFull
<1>4. Cardinality(Members(n)) > threshold => Members(n)' = Members(n)
  BY Zenon, <1>1, <1>2, MembersStay
<1>5. /\ session[n].state \in States
      /\ session[n].state \in {"none", "Initial"} => session[n].extra = NoSig
  BY Zenon, <1>1, RowFields DEF TypeOK, States, Written
<1>6. /\ session[n].prepared => session'[n].prepared
      /\ session'[n].state \in {"none", "Initial"} => session[n].state \in {"none", "Initial"}
  BY Zenon, <1>5 DEF SessionMoves, States
<1>7. crashes \in Nat /\ attempt[n] \in Nat /\ attempt[n] <= crashes + 1
  BY <1>1, FaultAssumption DEF TypeOK, AttemptsCounted
<1>8. Members(n) \subseteq Members(n)'
  BY Zenon, <1>1, MembersGrow
<1>9. CASE SameMemory(n) /\ (session'[n].extra = session[n].extra \/ FinishResult(n))
  <2>1. session'[n].extra = session[n].extra \/ n \notin Members(n)
    BY <1>1, <1>9, FinishByOutsider, Zenon
  <2>2. (accepting[n] \/ operations[n]) => Cardinality(Members(n)) > threshold
    BY <1>1, Zenon DEF Computing
  <2>3. Computing(n)'
    <3>1. prepared'[n] # "idle" => session'[n].prepared
      BY <1>1, <1>6, <1>9, Zenon DEF Computing, SameMemory
    <3>2. accepting'[n] \/ operations'[n] => Cardinality(Members(n)') > threshold'
      BY <1>2, <1>4, <1>9, <2>2, Zenon DEF SameMemory
    <3>3. running'[n] => operations'[n] /\ n \in Members(n)'
      BY <1>1, <1>8, <1>9, Zenon DEF Computing, SameMemory
    <3>4. view'[n] # NoSig => running'[n]
      BY <1>1, <1>9, Zenon DEF Computing, SameMemory
    <3>5. running'[n] => session'[n].extra = NoSig
      BY <1>1, <1>9, <2>1, Zenon DEF Computing, SameMemory
    <3>6. accepting'[n] /\ ~operations'[n] /\ n \in Members(n)' => session'[n].extra = NoSig
      BY <1>1, <1>4, <1>9, <2>1, <2>2, Zenon DEF Computing, SameMemory
    <3> QED
      BY <3>1, <3>2, <3>3, <3>4, <3>5, <3>6, Zenon DEF Computing
  <2>4. AttemptsCounted(n)'
    <3>1. /\ attempt'[n] = attempt[n] /\ attempt'[n] <= crashes' + 1
          /\ attempt[n] <= crashes => attempt[n] <= crashes'
      BY <1>2, <1>7, <1>9 DEF SameMemory
    <3>2. ~operations'[n] /\ (accepting'[n] \/ session'[n].state \in {"none", "Initial"}) =>
            attempt[n] <= crashes
      BY <1>1, <1>6, <1>9, Zenon DEF AttemptsCounted, SameMemory
    <3> QED
      BY <3>1, <3>2, Zenon DEF AttemptsCounted
  <2> QED
    BY Zenon, <2>3, <2>4
<1>10. ASSUME Forgotten(n),
              \/ crashes' = crashes + 1
              \/ session'[n].state \notin {"none", "Initial"}
       PROVE  Computing(n)' /\ AttemptsCounted(n)'
  <2>1. Computing(n)'
    BY <1>10, Zenon DEF Forgotten, Computing
  <2>2. /\ attempt'[n] <= crashes' + 1
        /\ crashes' = crashes + 1 => attempt'[n] <= crashes'
    BY <1>2, <1>7, <1>10 DEF Forgotten
  <2> QED
    BY <1>10, <2>1, <2>2, Zenon DEF Forgotten, AttemptsCounted
<1>11. CASE /\ Forgotten(n) /\ session' = session
            /\ \/ MarkSessionPrepared(n) /\ session[n].state # "Initial"
               \/ FinishTooLate(n)
               \/ Expire(n) /\ session[n].state # "Initial"
               \/ prepared[n] = "waiting" /\ ~(session[n].state = "Initial" /\ session[n].prepared)
               \/ prepared[n] = "waiting" /\ session[n].state # "Initial"
  <2>1. ASSUME prepared[n] # "idle" PROVE session[n].prepared
    BY Zenon, <1>1, <2>1 DEF Computing
  <2>2. ASSUME MarkSessionPrepared(n) PROVE session[n].state # "none"
    BY Zenon, <1>1, <2>2 DEF MarkSessionPrepared, Stage, Preparing, PreparedBy
  <2>3. ASSUME FinishTooLate(n) PROVE session[n].state # "Initial" /\ session[n].prepared
    BY Zenon, <1>1, <2>3 DEF FinishTooLate, Stage, Preparing, PreparedBy
  <2>4. ASSUME Expire(n) PROVE session[n].prepared
    BY Zenon, <2>1, <2>4 DEF Expire
  <2>5. prepared[n] = "waiting" => session[n].prepared
    BY Zenon, <2>1
  <2>6. session[n].state \notin {"none", "Initial"}
    <3>1. session[n].state # "Initial"
      BY <1>11, <2>3, <2>5, Zenon
    <3>2. session[n].state # "none"
      BY <1>3, <1>11, <2>2, <2>3, <2>4, <2>5, Zenon
    <3> QED
      BY Zenon, <3>1, <3>2
  <2> QED
    BY <1>10, <1>11, <2>6, Zenon
<1>12. CASE /\ Started(n) /\ UNCHANGED <<session, signers>>
            /\ \/ prepared'[n] \in {"idle", "waiting"} /\ ListedPrepared(n) /\ accepting'[n] = accepting[n]
               \/ prepared'[n] = prepared[n] /\ accepting[n] /\ ~accepting'[n]
  <2>1. Members(n)' = Members(n)
    BY Zenon, <1>12 DEF Members
  <2>2. ListedPrepared(n) => session[n].prepared /\ session[n].state \in {"none", "Initial"}
    BY Zenon DEF ListedPrepared
  <2>3. Cardinality(Members(n)) > threshold /\ (prepared'[n] # "idle" => session[n].prepared)
    BY <1>1, <1>3, <1>12, <2>2, Zenon DEF Computing
  <2>4. n \in Members(n) => session[n].extra = NoSig
    BY <1>1, <1>5, <1>12, <2>2, Zenon DEF Computing, Started
  <2>5. view[n] = NoSig
    BY <1>1, <1>12, Zenon DEF Computing, Started
  <2>6. attempt[n] <= crashes
    BY <1>1, <1>12, <2>2, Zenon DEF AttemptsCounted, Started
  <2>7. attempt'[n] <= crashes' + 1
    BY <1>2, <1>7, <1>12, <2>6 DEF Started
  <2>8. Computing(n)'
    BY <1>2, <1>12, <2>1, <2>3, <2>4, <2>5, Zenon DEF Computing, Started
  <2>9. AttemptsCounted(n)'
    BY <1>12, <2>7, Zenon DEF AttemptsCounted, Started
  <2> QED
    BY Zenon, <2>8, <2>9
<1>13. CASE /\ accepting[n] /\ ~accepting'[n] /\ operations'[n] = operations[n]
            /\ prepared'[n] = prepared[n] /\ attempt'[n] = attempt[n]
            /\ running'[n] = running[n] /\ view'[n] = view[n] /\ UNCHANGED <<session, signers>>
  <2>1. Members(n)' = Members(n)
    BY Zenon, <1>13 DEF Members
  <2>2. Computing(n)'
    BY <1>1, <1>2, <1>13, <2>1, Zenon DEF Computing
  <2>3. attempt'[n] <= crashes' + 1 /\ (attempt[n] <= crashes => attempt'[n] <= crashes')
    BY <1>2, <1>7, <1>13
  <2>4. AttemptsCounted(n)'
    BY <1>1, <1>13, <2>3, Zenon DEF AttemptsCounted
  <2> QED
    BY Zenon, <2>2, <2>4
<1>14. CASE /\ session[n].state = "Initial" /\ Cardinality(Members(n)) >= threshold + 1
            /\ ~operations[n] /\ accepting'[n] /\ UNCHANGED <<session, signers>>
            /\ operations'[n] = operations[n] /\ prepared'[n] = prepared[n] /\ attempt'[n] = attempt[n]
            /\ running'[n] = running[n] /\ view'[n] = view[n]
  <2>1. Members(n)' = Members(n)
    BY Zenon, <1>14 DEF Members
  <2>2. Cardinality(Members(n)) > threshold
    BY <1>3, <1>14
  <2>3. session[n].extra = NoSig /\ session[n].state \in {"none", "Initial"}
    BY Zenon, <1>5, <1>14
  <2>4. Computing(n)'
    BY <1>1, <1>2, <1>14, <2>1, <2>2, <2>3, Zenon DEF Computing
  <2>5. attempt'[n] <= crashes' + 1 /\ (attempt[n] <= crashes => attempt'[n] <= crashes')
    BY <1>2, <1>7, <1>14
  <2>6. AttemptsCounted(n)'
    BY <1>1, <1>14, <2>3, <2>5, Zenon DEF AttemptsCounted
  <2> QED
    BY Zenon, <2>4, <2>6
<1>15. CASE /\ \/ prepared'[n] = "expiring" /\ ListedPrepared(n) /\ UNCHANGED <<session, signers>>
               \/ prepared'[n] = "idle" /\ Expire(n) /\ session'[n].extra = session[n].extra
                                        /\ UNCHANGED signers
            /\ operations'[n] = operations[n] /\ accepting'[n] = accepting[n] /\ attempt'[n] = attempt[n]
            /\ running'[n] = running[n] /\ view'[n] = view[n]
  <2>1. Members(n)' = Members(n) /\ session'[n].extra = session[n].extra
    BY Zenon, <1>15 DEF Members
  <2>2. prepared'[n] # "idle" => session'[n].prepared
    BY <1>6, <1>15, Zenon DEF ListedPrepared
  <2>3. Computing(n)'
    BY <1>1, <1>2, <1>15, <2>1, <2>2, Zenon DEF Computing
  <2>4. attempt'[n] <= crashes' + 1 /\ (attempt[n] <= crashes => attempt'[n] <= crashes')
    BY <1>2, <1>7, <1>15
  <2>5. AttemptsCounted(n)'
    BY <1>1, <1>6, <1>15, <2>4, Zenon DEF AttemptsCounted
  <2> QED
    BY Zenon, <2>3, <2>5
<1>16. CASE /\ running[n] /\ UNCHANGED <<session, signers>> /\ prepared'[n] = prepared[n]
            /\ accepting'[n] = accepting[n] /\ operations'[n] = operations[n]
            /\ attempt'[n] = attempt[n] /\ running'[n] = running[n]
  <2>1. Members(n)' = Members(n)
    BY Zenon, <1>16 DEF Members
  <2>2. Computing(n)'
    BY <1>1, <1>2, <1>16, <2>1, Zenon DEF Computing
  <2>3. attempt'[n] <= crashes' + 1 /\ (attempt[n] <= crashes => attempt'[n] <= crashes')
    BY <1>2, <1>7, <1>16
  <2>4. AttemptsCounted(n)'
    BY <1>1, <1>16, <2>3, Zenon DEF AttemptsCounted
  <2> QED
    BY Zenon, <2>2, <2>4
<1>17. CASE /\ running[n] /\ ~running'[n] /\ view'[n] = NoSig /\ UNCHANGED signers
            /\ prepared'[n] \in {prepared[n], "idle"} /\ accepting'[n] = accepting[n]
            /\ operations'[n] = operations[n] /\ attempt'[n] = attempt[n]
  <2>1. Members(n)' = Members(n) /\ operations[n] /\ Cardinality(Members(n)) > threshold
    BY <1>1, <1>17, Zenon DEF Members, Computing
  <2>2. prepared'[n] # "idle" => session'[n].prepared
    BY <1>1, <1>6, <1>17, Zenon DEF Computing
  <2>3. Computing(n)'
    BY <1>2, <1>17, <2>1, <2>2, Zenon DEF Computing
  <2>4. attempt'[n] <= crashes' + 1
    BY <1>2, <1>7, <1>17
  <2>5. AttemptsCounted(n)'
    BY <1>17, <2>1, <2>4, Zenon DEF AttemptsCounted
  <2> QED
    BY Zenon, <2>3, <2>5
<1> QED
  BY <1>2, <1>9, <1>10, <1>11, <1>12, <1>13, <1>14, <1>15, <1>16, <1>17, Zenon DEF MemoryKinds


-----------------------------------------------------------------------------
(* The invariant holds at the start: there is no log and no session.       *)
LEMMA SessionInit == ASSUME NodesCount, Init PROVE SessionInv
<1>1. TypeOK
  <2>1. NoSession \in SessionRow /\ Idle \in Worker /\ NoSig \in Extras
    BY Zenon, IdleFields DEF Extras
  <2>2. /\ threshold \in Thresholds /\ log \in Seq(Outputs) /\ session \in [Nodes -> SessionRow]
        /\ signers \in [Nodes -> [Nodes -> Extras \cup {NoRow}]]
        /\ results \in [Nodes -> Seq(Extras)] /\ worker \in [Nodes -> Worker]
    BY <2>1 DEF Init
  <2>3. /\ accepting \in [Nodes -> BOOLEAN] /\ operations \in [Nodes -> BOOLEAN]
        /\ running \in [Nodes -> BOOLEAN]
    BY Zenon DEF Init
  <2>4. /\ initial \in [Nodes -> {"idle", "sent"}] /\ prepared \in [Nodes -> {"idle", "expiring", "waiting"}]
        /\ pending \in [Nodes -> {"idle", "sent"}] /\ attempt \in [Nodes -> Nat]
        /\ view \in [Nodes -> Extras] /\ shares \subseteq Nodes \X Signatures /\ crashes \in 0..MaxCrashes
    BY <2>1, FaultAssumption DEF Init
  <2>5. \A n \in Nodes : Len(results[n]) <= Len(log)
    BY DEF Init
  <2> QED
    BY Zenon, <2>2, <2>3, <2>4, <2>5 DEF TypeOK
<1>2. DOMAIN log = {} /\ Len(log) = 0
  BY DEF Init
<1>3. LogInv /\ SentInv
  BY <1>2, Zenon DEF LogInv, SentOnce, ResultsLate, SomeDecides, SentInv
<1>4. ASSUME NEW n \in Nodes PROVE TablesInv(n) /\ Computing(n) /\ AttemptsCounted(n)
  <2>1. Members(n) = {} /\ Processed(n) = 0 /\ 1..Processed(n) = {}
    BY DEF Init, Members, Processed
  <2>2. PICK f \in BOOLEAN : f = FALSE
    BY Zenon
  <2>3. session[n] = NoSession /\ worker[n] = Idle
    BY Zenon DEF Init
  <2>4. NoSession.prepared = f /\ NoSession.extra = NoSig /\ NoSession.state = "none" /\ Idle.at = "idle"
    <3>1. NoSession = Row("none", f, f, NoSig)
      BY <2>2, Zenon DEF NoSession, Row
    <3>2. Row("none", f, f, NoSig).prepared = f /\ Row("none", f, f, NoSig).extra = NoSig
      BY Zenon DEF Row
    <3> QED
      BY <3>1, <3>2, IdleFields, Zenon
  <2>5. /\ ~session[n].prepared /\ session[n].extra = NoSig /\ session[n].state = "none"
        /\ worker[n].at = "idle"
    BY <2>2, <2>3, <2>4, Zenon
  <2>6. Senders(0) = {}
    BY DEF Senders
  <2>7. Preparing(n)
    <3>1. Cardinality({}) = 0 /\ threshold \in Nat
      BY Zenon, <1>1, LogType DEF NodesCount
    <3> QED
      BY <2>1, <2>5, <2>6, <3>1 DEF Preparing
  <2>8. Stage(n) /\ Handling(n) /\ Carried(n) /\ Written(n)
    BY Zenon, <2>5, <2>7 DEF Stage, Handling, Carried, Written
  <2>9. RowsFromLog(n) /\ RowsComplete(n) /\ Replies(n)
    BY Zenon, <2>1, <2>5 DEF RowsFromLog, RowsComplete, Replies
  <2>10. prepared[n] = "idle" /\ view[n] = NoSig /\ attempt[n] = 0 /\ crashes = 0
    BY Zenon DEF Init
  <2>11. ~accepting[n] /\ ~operations[n] /\ ~running[n]
    BY Zenon DEF Init
  <2>12. Computing(n)
    BY <2>10, <2>11, Zenon DEF Computing
  <2>13. AttemptsCounted(n)
    BY <2>10 DEF AttemptsCounted
  <2> QED
    BY Zenon, <2>8, <2>9, <2>12, <2>13 DEF TablesInv
<1> QED
  BY Zenon, <1>1, <1>3, <1>4 DEF SessionInv

(* Every step keeps the invariant.                                         *)
LEMMA SessionInvStep ==
    ASSUME NodesCount, SessionInv, NEW n \in Nodes, NodeNext(n)
    PROVE  /\ SessionInv' /\ Kinds(n) /\ SessionMoves(n)
           /\ \A k \in Nodes : k # n => SameTables(k) /\ SameMemory(k)
<1>1. /\ TypeOK /\ LogInv /\ SentInv /\ (\A k \in Nodes : TablesInv(k)) /\ Computing(n)
      /\ TablesInv(n) /\ Stage(n) /\ Handling(n) /\ \A k \in Nodes : Written(k)
  BY Zenon DEF SessionInv, TablesInv
<1>2. Kinds(n)
  BY Zenon, <1>1, StepKinds
<1>3. TypeOK'
  BY Zenon, <1>1, TypeStep
<1>4. LogInv' /\ SentInv'
  BY Zenon, <1>1, <1>2, LogStep
<1>5. /\ \A k \in Nodes : TablesInv(k)'
      /\ SessionMoves(n)
      /\ \A k \in Nodes : k # n => SameTables(k)
  BY Zenon, <1>1, <1>2, TablesStep
<1>6. /\ \A k \in Nodes : k # n => SameMemory(k)
      /\ threshold' = threshold /\ crashes' \in {crashes, crashes + 1}
  BY Zenon, <1>1, MemoryEffect
<1>7. Computing(n)' /\ AttemptsCounted(n)'
  <2>1. Stage(n)'
    BY <1>5, Zenon DEF TablesInv
  <2> QED
    BY Zenon, <1>2, <1>3, <1>5, <2>1, ComputingStep
<1>8. ASSUME NEW k \in Nodes, k # n PROVE Computing(k)' /\ AttemptsCounted(k)'
  <2>1. SameTables(k) /\ SameMemory(k) /\ Computing(k) /\ AttemptsCounted(k)
    BY <1>5, <1>6, <1>8, Zenon DEF SessionInv
  <2>2. Members(k)' = Members(k)
    BY Zenon, <2>1 DEF SameTables, Members
  <2>3. Computing(k)'
    BY <1>6, <2>1, <2>2, Zenon DEF Computing, SameTables, SameMemory
  <2>4. attempt[k] \in Nat /\ crashes \in Nat
    BY <1>1, FaultAssumption DEF TypeOK
  <2>5. /\ attempt[k] <= crashes + 1 => attempt[k] <= crashes' + 1
        /\ attempt[k] <= crashes => attempt[k] <= crashes'
    BY <1>6, <2>4
  <2>6. AttemptsCounted(k)'
    BY <2>1, <2>5, Zenon DEF AttemptsCounted, SameTables, SameMemory
  <2> QED
    BY Zenon, <2>3, <2>6
<1> QED
  BY <1>2, <1>3, <1>4, <1>5, <1>6, <1>7, <1>8, Zenon DEF SessionInv

(* Stuttering keeps the invariant.                                         *)
LEMMA SessionInvStutter == ASSUME SessionInv, UNCHANGED vars PROVE SessionInv'
<1>1. /\ UNCHANGED <<threshold, log, session, signers, results, worker>>
      /\ UNCHANGED <<initial, prepared, pending, accepting, operations, attempt, running, view, shares, crashes>>
  BY Zenon DEF vars
<1>2. TypeOK'
  BY <1>1, Zenon DEF SessionInv, TypeOK
<1>3. LogInv' /\ SentInv'
  BY <1>1, LogSame, Zenon DEF SessionInv, SentInv
<1>4. ASSUME NEW n \in Nodes PROVE TablesInv(n)' /\ Computing(n)' /\ AttemptsCounted(n)'
  <2>1. TypeOK /\ (\A k \in Nodes : Written(k)) /\ TablesInv(n) /\ Computing(n) /\ AttemptsCounted(n)
    BY Zenon DEF SessionInv, TablesInv
  <2>2. SameTables(n) /\ SessionMoves(n)
    <3>1. \A k \in Nodes : session[k].extra # NoSig => session[k].state \in {"Pending", "Done"}
      BY <2>1, Zenon DEF Written
    <3> QED
      BY <1>1, <3>1, Zenon DEF SameTables, SessionMoves
  <2>3. TablesInv(n)'
    BY Zenon, <1>1, <2>1, <2>2, TablesKept
  <2>4. Members(n)' = Members(n)
    BY Zenon, <1>1 DEF Members
  <2> QED
    BY <1>1, <2>1, <2>3, <2>4, Zenon DEF Computing, AttemptsCounted
<1> QED
  BY <1>2, <1>3, <1>4, Zenon DEF SessionInv

(* Every step keeps the invariant of the session.                          *)
LEMMA SessionNext == ASSUME NodesCount, SessionInv, [Next]_vars PROVE SessionInv'
<1>1. CASE Next
  <2>1. PICK n \in Nodes : NodeNext(n)
    BY <1>1, Zenon DEF Next, NodeNext
  <2> QED
    BY Zenon, <2>1, SessionInvStep
<1>2. CASE UNCHANGED vars
  BY Zenon, <1>2, SessionInvStutter
<1> QED
  BY Zenon, <1>1, <1>2

-----------------------------------------------------------------------------
(* Nodes with a quorum have the same members.                              *)
LEMMA QuorumsAgree ==
    ASSUME NodesCount, SessionInv, NEW n \in Nodes, NEW m \in Nodes, NEW c, NEW d,
           PreparedBy(n, c), PreparedBy(m, d)
    PROVE  Members(n) = Members(m)
<1>1. Decisive(c) /\ Decisive(d) /\ Members(n) = Senders(c) /\ Members(m) = Senders(d)
  BY Zenon DEF PreparedBy
<1>2. c = d
  BY Zenon, <1>1, DecisiveUnique DEF SessionInv, LogInv
<1> QED
  BY <1>1, <1>2, Zenon

(* A node that is still preparing has processed no results.                *)
LEMMA PreparingReplies ==
    ASSUME NodesCount, SessionInv, NEW n \in Nodes, Preparing(n), NEW i \in 1..Processed(n)
    PROVE  \A M : ReplyTo(M, i) = NoSig
<1>1. TypeOK /\ LogInv /\ Processed(n) \in Nat /\ i \in DOMAIN log /\ i <= Processed(n) + 1
  BY LogType DEF SessionInv
<1>2. Cardinality(Senders(Processed(n))) <= threshold
  BY Zenon DEF Preparing
<1>3. log[i].type # "Result"
  BY Zenon, <1>1, <1>2, NoResultsYet
<1> QED
  BY Zenon, <1>3, NoReply

(* A signature that all members have sent is the extra of their sessions.  *)
LEMMA SentIsExtra ==
    ASSUME SessionInv, NEW M, NEW sig, NEW k \in DOMAIN log, AllResults(M, sig, k), NEW m \in M
    PROVE  session[m].extra = sig
<1>1. PICK j \in 1..k : log[j].type = "Result" /\ log[j].from = m /\ log[j].extra = sig
  BY Zenon DEF AllResults, HasResult
<1>2. j \in DOMAIN log
  BY LogType DEF SessionInv
<1> QED
  BY <1>1, <1>2, Zenon DEF SessionInv, SentInv

-----------------------------------------------------------------------------
(* Prepared sessions have the same members in the invariant.               *)
LEMMA MembersOfInv == ASSUME NodesCount, SessionInv PROVE SameMembers
<1> SUFFICES ASSUME SessionInv, NEW n \in Nodes, NEW m \in Nodes,
                    session[n].prepared, session[m].prepared
             PROVE  Members(n) = Members(m) /\ Cardinality(Members(n)) = threshold + 1
  BY Zenon DEF SameMembers
<1>1. TypeOK /\ Stage(n) /\ Stage(m)
  BY Zenon DEF SessionInv, TablesInv
<1>2. PICK c \in DOMAIN log : PreparedBy(n, c)
  BY Zenon, <1>1 DEF Stage, Preparing
<1>3. PICK d \in DOMAIN log : PreparedBy(m, d)
  BY Zenon, <1>1 DEF Stage, Preparing
<1>4. Cardinality(Members(n)) = threshold + 1
  BY Zenon, <1>1, <1>2, Quorum
<1> QED
  BY Zenon, <1>2, <1>3, <1>4, QuorumsAgree

(* Nodes reply the same in the invariant.                                  *)
LEMMA RepliesOfInv == ASSUME NodesCount, SessionInv PROVE RepliesAgree
<1> SUFFICES ASSUME SessionInv, NEW n \in Nodes, NEW m \in Nodes,
                    NEW i \in DOMAIN results[n] \cap DOMAIN results[m]
             PROVE  results[n][i] = results[m][i]
  BY Zenon DEF RepliesAgree
<1>1. i \in 1..Processed(n) /\ i \in 1..Processed(m)
  BY Zenon, LogType DEF SessionInv
<1>2. results[n][i] = ReplyTo(Members(n), i) /\ results[m][i] = ReplyTo(Members(m), i)
  BY <1>1, Zenon DEF SessionInv, TablesInv, Replies
<1>3. CASE Preparing(n)
  BY Zenon, <1>1, <1>2, <1>3, PreparingReplies
<1>4. CASE Preparing(m)
  BY Zenon, <1>1, <1>2, <1>4, PreparingReplies
<1>5. CASE ~Preparing(n) /\ ~Preparing(m)
  <2>1. Stage(n) /\ Stage(m)
    BY Zenon DEF SessionInv, TablesInv
  <2>2. Members(n) = Members(m)
    BY <1>5, <2>1, QuorumsAgree, Zenon DEF Stage
  <2> QED
    BY <1>2, <2>2, Zenon
<1> QED
  BY Zenon, <1>3, <1>4, <1>5

(* A session is replied to once in the invariant.                          *)
LEMMA OneReplyOfInv == ASSUME NodesCount, SessionInv PROVE OneReply
<1> SUFFICES ASSUME SessionInv, NEW n \in Nodes, NEW i \in DOMAIN results[n],
                    NEW j \in DOMAIN results[n], results[n][i] # NoSig, results[n][j] # NoSig
             PROVE  i = j
  BY Zenon DEF OneReply
<1>1. i \in 1..Processed(n) /\ j \in 1..Processed(n) /\ i \in DOMAIN log /\ j \in DOMAIN log
  BY LogType DEF SessionInv
<1>2. results[n][i] = ReplyTo(Members(n), i) /\ results[n][j] = ReplyTo(Members(n), j)
  BY <1>1, Zenon DEF SessionInv, TablesInv, Replies
<1>3. Decides(Members(n), i) /\ Decides(Members(n), j)
  BY <1>2, Zenon DEF ReplyTo
<1> QED
  BY Zenon, <1>1, <1>3, DecidesUnique DEF SessionInv, LogInv

(* A reply is the signature of all members in the invariant.               *)
LEMMA ReplyOfInv == ASSUME NodesCount, SessionInv PROVE ReplyByAll
<1> SUFFICES ASSUME SessionInv, NEW n \in Nodes
             PROVE  /\ \A i \in DOMAIN results[n] : results[n][i] # NoSig =>
                          \A m \in Members(n) : session[m].extra = results[n][i]
                    /\ worker[n].at = "finish" =>
                          /\ worker[n].seen.extra \in {NoSig, worker[n].reply}
                          /\ \A m \in Members(n) : session[m].extra = worker[n].reply
  BY Zenon DEF ReplyByAll
<1>0. TypeOK /\ LogInv /\ TablesInv(n) /\ Stage(n) /\ Handling(n) /\ Carried(n) /\ Written(n)
  BY Zenon DEF SessionInv, TablesInv
<1>1. ASSUME NEW i \in DOMAIN results[n], results[n][i] # NoSig, NEW m \in Members(n)
      PROVE  session[m].extra = results[n][i]
  <2>1. i \in 1..Processed(n) /\ i \in DOMAIN log
    BY <1>0, LogType
  <2>2. results[n][i] = ReplyTo(Members(n), i)
    BY <1>0, <2>1, Zenon DEF TablesInv, Replies
  <2>3. AllResults(Members(n), results[n][i], i)
    BY <1>1, <2>2, Zenon DEF ReplyTo, Decides
  <2> QED
    BY Zenon, <1>1, <2>1, <2>3, SentIsExtra
<1>2. ASSUME worker[n].at = "finish"
      PROVE  /\ worker[n].seen.extra \in {NoSig, worker[n].reply}
             /\ \A m \in Members(n) : session[m].extra = worker[n].reply
  <2>1. AllResults(Members(n), worker[n].reply, Processed(n) + 1)
    BY <1>0, <1>2, Zenon DEF Carried
  <2>2. Processed(n) < Len(log) /\ Output(n).type = "Result"
    BY Zenon, <1>0, <1>2 DEF Handling
  <2>3. Processed(n) + 1 \in DOMAIN log
    BY Zenon, <1>0, <2>2, OutputType
  <2>4. \A m \in Members(n) : session[m].extra = worker[n].reply
    BY Zenon, <2>1, <2>3, SentIsExtra
  <2>5. PICK c \in DOMAIN log : PreparedBy(n, c)
    BY Zenon, <1>0, <2>2, ResultPrepared
  <2>6. PICK m : m \in Members(n)
    BY Zenon, <1>0, <2>5, Quorum
  <2>7. worker[n].seen.extra # NoSig => worker[n].seen.extra = session[n].extra
    BY Zenon, <1>0, <1>2 DEF Carried
  <2>8. session[n].extra # NoSig => session[n].extra = worker[n].reply
    BY <1>0, <2>4, <2>6, Zenon DEF Written
  <2> QED
    BY Zenon, <2>4, <2>7, <2>8
<1> QED
  BY <1>1, <1>2, Zenon

(* The steps, by what they do to the computation.                          *)
Stopped(n) ==
    /\ running' = [running EXCEPT ![n] = FALSE] /\ view' = [view EXCEPT ![n] = NoSig]
    /\ UNCHANGED <<attempt, shares, signers>>
    /\ session'[n].extra = session[n].extra

Opened(n) ==
    /\ queueOperation(n)
    /\ UNCHANGED <<session, signers, shares>>
    /\ ListedPrepared(n) \/ accepting[n]

Signs(n) ==
    /\ running[n] /\ view[n] # NoSig
    /\ \A m \in Members(n) : <<m, view[n]>> \in shares
    /\ session'[n].extra = view[n]
    /\ running' = [running EXCEPT ![n] = FALSE] /\ view' = [view EXCEPT ![n] = NoSig]
    /\ UNCHANGED <<attempt, shares, signers>>

ComputationKinds(n) ==
    \/ /\ UNCHANGED <<attempt, running, view, shares>>
       /\ session'[n].extra = session[n].extra \/ FinishResult(n)
    \/ Stopped(n)
    \/ Opened(n)
    \/ SendShare(n)
    \/ Signs(n)

(* Every step is of one of these kinds.                                    *)
LEMMA ComputationStep == ASSUME TypeOK, NEW n \in Nodes, NodeNext(n) PROVE ComputationKinds(n)
<1> USE DEF database, setting, loops, computation
<1> DEFINE r == session[n]
<1>1. r \in SessionRow /\ session \in [Nodes -> SessionRow]
  BY Zenon DEF TypeOK
<1>2. ASSUME NEW x, \/ session' = session
                    \/ session' = [session EXCEPT ![n].state = x]
                    \/ session' = [session EXCEPT ![n].committed = x]
                    \/ session' = [session EXCEPT ![n].prepared = x]
      PROVE  session'[n].extra = session[n].extra
  <2>1. /\ [r EXCEPT !.state = x].extra = r.extra
        /\ [r EXCEPT !.committed = x].extra = r.extra
        /\ [r EXCEPT !.prepared = x].extra = r.extra
    BY Zenon, <1>1 DEF SessionRow
  <2> HIDE DEF r
  <2>2. \/ session' = session \/ session' = [session EXCEPT ![n] = [r EXCEPT !.state = x]]
        \/ session' = [session EXCEPT ![n] = [r EXCEPT !.committed = x]]
        \/ session' = [session EXCEPT ![n] = [r EXCEPT !.prepared = x]]
    BY <1>2, Zenon DEF r
  <2> QED
    BY <1>1, <2>1, <2>2, Zenon DEF r
<1>3. ASSUME NEW x \in States, NEW y \in Extras,
             session' = [session EXCEPT ![n] = [@ EXCEPT !.state = x, !.extra = y]]
      PROVE  session'[n].extra = y
  <2>1. [r EXCEPT !.state = x, !.extra = y].extra = y
    BY Zenon, <1>1 DEF SessionRow
  <2> HIDE DEF r
  <2>2. session' = [session EXCEPT ![n] = [r EXCEPT !.state = x, !.extra = y]]
    BY <1>3, Zenon DEF r
  <2> QED
    BY <1>1, <2>1, <2>2, Zenon
<1> HIDE DEF r
<1>4. ASSUME Panic(n) PROVE Stopped(n)
  BY <1>2, <1>4, Zenon DEF Panic, Forget, Stopped
<1>5. CASE WriteSessionIfNotExist(n) \/ PrepareSessionSignerIfNotExist(n) \/ ReadSession(n) \/ Reply(n)
  BY <1>2, <1>5, Zenon DEF WriteSessionIfNotExist, PrepareSessionSignerIfNotExist, ReadSession, Reply,
     ComputationKinds
<1>6. CASE UpdateSessionSigner(n) \/ FinishResult(n)
  BY <1>2, <1>6, Zenon DEF UpdateSessionSigner, FinishResult, Finish, ComputationKinds
<1>7. CASE MarkSessionPrepared(n)
  BY <1>2, <1>4, <1>7, Zenon DEF MarkSessionPrepared, ComputationKinds
<1>8. CASE FinishTooLate(n)
  BY <1>4, <1>8, Zenon DEF FinishTooLate, ComputationKinds
<1>9. CASE LoopInitial(n)
  BY <1>2, <1>9, Zenon DEF LoopInitial, sendSignerPrepareTransaction, MarkSessionCommitted, ComputationKinds
<1>10. CASE LoopPending(n)
  BY <1>2, <1>10, Zenon DEF LoopPending, sendSignerResultTransaction, MarkSessionDone, ComputationKinds
<1>11. CASE StartPrepared(n) \/ ListExpiredSession(n)
  BY <1>2, <1>11, Zenon DEF StartPrepared, ListExpiredSession, Opened, ComputationKinds
<1>12. CASE StartAccepted(n) \/ \E m \in Nodes : AcceptIncomingMessage(n, m)
  BY <1>2, <1>12, Zenon DEF StartAccepted, AcceptIncomingMessage, Opened, ComputationKinds
<1>13. CASE Expire(n)
  BY <1>2, <1>4, <1>13, Zenon DEF Expire, ComputationKinds
<1>14. CASE MarkSessionPending(n)
  <2>1. view[n] \in Extras /\ "Pending" \in States
    BY Zenon DEF TypeOK, States
  <2>2. CASE session[n].state = "Initial" /\ session[n].prepared
    <3>1. session' = [session EXCEPT ![n] = [@ EXCEPT !.state = "Pending", !.extra = view[n]]]
      BY <1>14, <2>2, Zenon DEF MarkSessionPending, EndSign
    <3>2. session'[n].extra = view[n]
      BY <1>3, <2>1, <3>1, Zenon
    <3> QED
      BY <1>14, <2>2, <3>2, Zenon DEF MarkSessionPending, EndSign, Signs, ComputationKinds
  <2>3. CASE ~(session[n].state = "Initial" /\ session[n].prepared)
    BY <1>2, <1>4, <1>14, <2>3, Zenon DEF MarkSessionPending, EndSign, Stopped, ComputationKinds
  <2> QED
    BY Zenon, <2>2, <2>3
<1>15. CASE FailSession(n)
  <2>1. session[n].extra \in Extras /\ "Pending" \in States
    BY Zenon, RowFields DEF TypeOK, States
  <2>2. CASE session[n].state = "Initial"
    <3>1. session' = [session EXCEPT ![n] = [@ EXCEPT !.state = "Pending", !.extra = session[n].extra]]
      BY <1>15, <2>2, Zenon DEF FailSession, EndSign
    <3>2. session'[n].extra = session[n].extra
      BY <1>3, <2>1, <3>1, Zenon
    <3> QED
      BY <1>15, <2>2, <3>2, Zenon DEF FailSession, EndSign, Stopped, ComputationKinds
  <2>3. CASE session[n].state # "Initial"
    BY <1>2, <1>4, <1>15, <2>3, Zenon DEF FailSession, EndSign, Stopped, ComputationKinds
  <2> QED
    BY Zenon, <2>2, <2>3
<1>16. CASE Crash(n)
  BY <1>2, <1>16, Zenon DEF Crash, Forget, Stopped, ComputationKinds
<1>17. CASE SendShare(n)
  BY Zenon, <1>17 DEF ComputationKinds
<1> QED
  BY <1>5, <1>6, <1>7, <1>8, <1>9, <1>10, <1>11, <1>12, <1>13, <1>14, <1>15, <1>16, <1>17, Zenon
     DEF NodeNext, Work, LoopPrepared, EndComputation


-----------------------------------------------------------------------------
(* The members of the computation, as SigningAttempts sees them.           *)
MemberExtra == [n \in Nodes |-> IF n \in Members(n) THEN session[n].extra ELSE NoSig]

Full(n) == Cardinality(Members(n)) > threshold

ChosenByQuorums ==
    \A n \in Nodes : Full(n) =>
        Chosen = Members(n) /\ Members(n) # {} /\ Members(n) \in SUBSET Nodes

NoneWithoutQuorum == (\A n \in Nodes : ~Full(n)) => Chosen = {}

(* The members that are chosen are those of every node with a quorum.      *)
LEMMA ChosenFull == NodesCount /\ SessionInv => ChosenByQuorums
<1> SUFFICES ASSUME NodesCount, SessionInv, NEW n \in Nodes, Full(n)
             PROVE  Chosen = Members(n) /\ Members(n) # {} /\ Members(n) \in SUBSET Nodes
  BY Zenon DEF ChosenByQuorums
<1>1. TypeOK /\ \A k \in Nodes : Stage(k)
  BY Zenon DEF SessionInv, TablesInv
<1>2. ASSUME NEW k \in Nodes, Full(k) PROVE \E c : PreparedBy(k, c)
  BY Zenon, <1>1, <1>2, MembersFull DEF Full
<1>3. ASSUME NEW k \in Nodes, Full(k) PROVE Members(k) = Members(n)
  BY Zenon, <1>2, <1>3, QuorumsAgree
<1>4. Members(n) # {} /\ Members(n) \in SUBSET Nodes
  BY Zenon, <1>1, <1>2, Quorum
<1>5. Chosen = Members(n)
  BY Zenon, <1>3 DEF Chosen, Full
<1> QED
  BY Zenon, <1>4, <1>5

(* No members are chosen before some node has a quorum.                    *)
LEMMA ChosenNone == NoneWithoutQuorum
  BY Zenon DEF Chosen, Full, NoneWithoutQuorum

(* The worker that counts a prepare is the only one to change the members. *)
LEMMA MembersMoved ==
    ASSUME TypeOK, SentInv, NEW n \in Nodes, Handling(n), Kinds(n)
    PROVE  PrepareSessionSignerIfNotExist(n) \/ Members(n)' = Members(n)
<1>1. CASE signers' = signers
  BY Zenon, <1>1 DEF Members
<1>2. CASE UpdateSessionSigner(n)
  BY Zenon, <1>2, UpdateRests, UpdateEffect
<1>3. CASE FinishResult(n)
  BY Zenon, <1>1, <1>3, FinishEffect
<1>4. CASE \E s \in States, c \in BOOLEAN, e \in Extras : Moved(n, s, c, e)
  BY <1>1, <1>4, Zenon DEF Moved, Resting
<1>5. CASE Resting \/ Restarted(n) \/ Marked(n) \/ ReadSession(n) \/ Reply(n)
  BY <1>1, <1>5, Zenon DEF Resting, Restarted, Marked, ReadSession, Reply, database
<1>6. CASE \E type \in {"Prepare", "Result"}, extra \in Extras : Sends(n, type, extra)
  BY <1>1, <1>6, Zenon DEF Sends
<1> QED
  BY <1>2, <1>3, <1>4, <1>5, <1>6, Zenon DEF Kinds

(* Members are chosen once, by the worker that completes the first quorum. *)
LEMMA ChosenStep ==
    ASSUME NodesCount, SessionInv, SessionInv', NEW n \in Nodes, Kinds(n), threshold' = threshold,
           \A k \in Nodes : k # n => SameTables(k)
    PROVE  \/ Chosen' = Chosen
           \/ /\ Chosen = {} /\ Chosen' # {} /\ Chosen' \in SUBSET Nodes
              /\ PrepareSessionSignerIfNotExist(n)
<1>1. /\ TypeOK /\ TypeOK' /\ SentInv /\ Handling(n) /\ Stage(n) /\ Stage(n)'
  BY Zenon DEF SessionInv, TablesInv
<1>2. /\ \A k \in Nodes : Full(k)' => /\ Chosen' = Members(k)' /\ Members(k)' # {}
                                      /\ Members(k)' \in SUBSET Nodes
      /\ (\A k \in Nodes : ~Full(k)') => Chosen' = {}
  <2>1. ChosenByQuorums'
    BY ChosenFull, PTL
  <2>2. NoneWithoutQuorum'
    BY ChosenNone, PTL
  <2> QED
    BY <2>1, <2>2, Zenon DEF ChosenByQuorums, NoneWithoutQuorum
<1>3. ASSUME NEW k \in Nodes, k # n PROVE Members(k)' = Members(k)
  BY Zenon, <1>3 DEF SameTables, Members
<1>4. ASSUME NEW k \in Nodes, Full(k) PROVE Members(k)' = Members(k)
  <2>1. CASE k = n
    BY Zenon, <1>1, <1>4, <2>1, MembersStay DEF Full
  <2>2. CASE k # n
    BY Zenon, <1>3, <2>2
  <2> QED
    BY Zenon, <2>1, <2>2
<1>5. ASSUME NEW k \in Nodes, Full(k) PROVE Chosen' = Chosen
  <2>1. Members(k)' = Members(k)
    BY Zenon, <1>4, <1>5
  <2>2. Full(k)'
    BY Zenon, <1>5, <2>1 DEF Full
  <2> QED
    BY <1>2, <1>5, <2>1, <2>2, ChosenFull, Zenon DEF ChosenByQuorums
<1>6. ASSUME \A k \in Nodes : ~Full(k) PROVE Chosen = {}
  BY <1>6, ChosenNone, Zenon DEF NoneWithoutQuorum
<1>7. ASSUME \A k \in Nodes : ~Full(k), NEW k \in Nodes, Full(k)'
      PROVE  Chosen' # {} /\ Chosen' \in SUBSET Nodes /\ PrepareSessionSignerIfNotExist(n)
  <2>1. Members(k)' # Members(k)
    BY Zenon, <1>7 DEF Full
  <2>2. k = n
    BY Zenon, <1>3, <2>1
  <2> QED
    BY Zenon, <1>1, <1>2, <1>7, <2>1, <2>2, MembersMoved
<1> QED
  BY <1>2, <1>5, <1>6, <1>7, Zenon

(* A member has the extra that it computed; only other nodes take theirs   *)
(* from a result.                                                          *)
LEMMA ExtraStep ==
    ASSUME NodesCount, SessionInv, SessionInv', NEW n \in Nodes, Kinds(n), threshold' = threshold,
           \A k \in Nodes : k # n => SameTables(k),
           session'[n].extra = session[n].extra \/ FinishResult(n)
    PROVE  MemberExtra' = MemberExtra
<1>1. /\ TypeOK /\ TypeOK' /\ SentInv /\ TablesInv(n) /\ Handling(n) /\ Stage(n) /\ Stage(n)' /\ Written(n)
  BY Zenon DEF SessionInv, TablesInv
<1> DEFINE E(k) == IF k \in Members(k) THEN session[k].extra ELSE NoSig
<1>2. ASSUME NEW k \in Nodes, k # n PROVE E(k)' = E(k)
  BY Zenon, <1>2 DEF SameTables, Members
<1>3. CASE n \in Members(n)
  <2>1. n \in Members(n)'
    BY Zenon, <1>1, <1>3, MembersGrow
  <2>2. session'[n].extra = session[n].extra
    BY Zenon, <1>1, <1>3, FinishByOutsider
  <2> QED
    BY Zenon, <1>2, <1>3, <2>1, <2>2 DEF MemberExtra
<1>4. CASE n \notin Members(n) /\ n \notin Members(n)'
  BY Zenon, <1>2, <1>4 DEF MemberExtra
<1>5. CASE n \notin Members(n) /\ n \in Members(n)'
  <2>1. ~Full(n)
    BY Zenon, <1>1, <1>5, MembersStay DEF Full
  <2>2. session[n].extra = NoSig
    <3>1. CASE Preparing(n)
      BY Zenon, <1>1, <3>1 DEF Preparing, Written
    <3>2. ASSUME NEW c \in DOMAIN log, PreparedBy(n, c) PROVE FALSE
      BY <1>1, <2>1, <3>2, Quorum DEF Full
    <3> QED
      BY Zenon, <1>1, <3>1, <3>2 DEF Stage
  <2>3. session'[n].extra = session[n].extra
    <3>1. CASE FinishResult(n)
      <4>1. signers' = signers
        BY Zenon, <1>1, <3>1, FinishEffect
      <4> QED
        BY Zenon, <1>5, <4>1 DEF Members
    <3> QED
      BY Zenon, <3>1
  <2> QED
    BY Zenon, <1>2, <1>5, <2>2, <2>3 DEF MemberExtra
<1> QED
  BY Zenon, <1>3, <1>4, <1>5


(* What a step leaves of the variables of SigningAttempts.                 *)
SameComputation ==
    UNCHANGED <<attempt, running, view, shares>> /\ Chosen' = Chosen /\ MemberExtra' = MemberExtra

(* A step that leaves all of them is a stuttering step there.              *)
LEMMA Stutters == SameComputation => UNCHANGED Attempts!vars
  BY Zenon DEF SameComputation, MemberExtra, Attempts!vars

(* A step that leaves the rows of session_signers leaves the members.      *)
LEMMA SignersKept ==
    ASSUME signers' = signers, threshold' = threshold
    PROVE  Chosen' = Chosen /\ \A k \in Nodes : Members(k)' = Members(k)
<1>1. \A k \in Nodes : Members(k)' = Members(k)
  BY Zenon DEF Members
<1> QED
  BY <1>1 DEF Chosen, Members

(* queueOperation opens an attempt of a member, and does nothing to        *)
(* the computation for another node.                                       *)
LEMMA OpenRefines ==
    ASSUME NodesCount, SessionInv, NEW n \in Nodes, Opened(n), threshold' = threshold
    PROVE  Attempts!Open(n) \/ SameComputation
<1>1. TypeOK /\ Stage(n) /\ Written(n) /\ Computing(n) /\ AttemptsCounted(n)
  BY Zenon DEF SessionInv, TablesInv
<1>2. /\ ~operations[n] /\ ~running[n]
      /\ UNCHANGED <<session, signers, shares, view>>
      /\ attempt' = IF n \in Members(n) THEN [attempt EXCEPT ![n] = @ + 1] ELSE attempt
      /\ running' = [running EXCEPT ![n] = n \in Members(n)]
  BY <1>1, Zenon DEF Opened, queueOperation, Computing
<1>3. Chosen' = Chosen /\ \A k \in Nodes : Members(k)' = Members(k)
  BY Zenon, <1>2, SignersKept
<1>4. MemberExtra' = MemberExtra
  BY Zenon, <1>2, <1>3 DEF MemberExtra
<1>5. CASE n \notin Members(n)
  <2>1. ~running[n] /\ running' = [running EXCEPT ![n] = n \in Members(n)]
    BY Zenon, <1>2
  <2>2. running' = running
    <3>1. running \in [Nodes -> BOOLEAN] /\ running' \in [Nodes -> BOOLEAN]
      BY <1>1, <2>1 DEF TypeOK
    <3>2. \A k \in Nodes : running'[k] = running[k]
      BY Zenon, <1>5, <2>1, <3>1
    <3> QED
      BY <3>1, <3>2
  <2> QED
    BY <1>2, <1>3, <1>4, <1>5, <2>2, Zenon DEF SameComputation
<1>6. CASE n \in Members(n)
  <2>1. running' = [running EXCEPT ![n] = TRUE] /\ attempt' = [attempt EXCEPT ![n] = @ + 1]
    BY <1>2, <1>6, Zenon
  <2>2. Full(n)
    <3>1. CASE ListedPrepared(n)
      BY <1>1, <3>1, MembersFull DEF ListedPrepared, Full
    <3>2. CASE accepting[n]
      BY Zenon, <1>1, <3>2 DEF Computing, Full
    <3> QED
      BY Zenon, <3>1, <3>2 DEF Opened
  <2>3. n \in Chosen
    BY Zenon, <1>6, <2>2, ChosenFull DEF ChosenByQuorums
  <2>4. session[n].extra = NoSig
    BY Zenon, <1>1, <1>2, <1>6 DEF Opened, ListedPrepared, Written, Computing
  <2>5. MemberExtra[n] = NoSig
    BY Zenon, <2>4 DEF MemberExtra
  <2>6. attempt[n] <= crashes
    BY <1>1, <1>2, Zenon DEF Opened, ListedPrepared, AttemptsCounted
  <2>7. attempt[n] < MaxCrashes + 1
    BY <1>1, <2>6, FaultAssumption DEF TypeOK
  <2> QED
    BY <1>2, <1>3, <1>4, <2>1, <2>3, <2>5, <2>7, Zenon DEF MemberExtra, Attempts!Open
<1> QED
  BY Zenon, <1>5, <1>6

(* A share is for attempts of the members that have been opened.           *)
LEMMA ShareRefines ==
    ASSUME NodesCount, SessionInv, NEW n \in Nodes, SendShare(n)
    PROVE  Attempts!SendShare(n)
<1>1. TypeOK /\ Computing(n) /\ \A k \in Nodes : AttemptsCounted(k)
  BY Zenon DEF SessionInv
<1>2. /\ running[n] /\ view[n] = NoSig
      /\ UNCHANGED <<session, signers, threshold, attempt, running>>
  BY Zenon DEF SendShare, Share, database, setting
<1>3. Chosen' = Chosen /\ \A k \in Nodes : Members(k)' = Members(k)
  BY Zenon, <1>2, SignersKept
<1>4. MemberExtra' = MemberExtra
  BY Zenon, <1>2, <1>3 DEF MemberExtra
<1>5. Chosen = Members(n)
  BY Zenon, <1>1, <1>2, ChosenFull DEF ChosenByQuorums, Computing, Full
<1>6. PICK v \in [Nodes -> 0..Max({attempt[m] : m \in Nodes})] :
        /\ v[n] = attempt[n]
        /\ \A m \in Nodes : IF m \in Members(n) THEN v[m] \in 1..attempt[m] ELSE v[m] = 0
        /\ view' = [view EXCEPT ![n] = v]
        /\ shares' = shares \cup {<<n, v>>}
  BY Zenon DEF SendShare, Share
<1>7. ASSUME NEW m \in Nodes PROVE v[m] \in 0..(MaxCrashes + 1)
  <2>1. attempt[m] \in Nat /\ attempt[m] <= crashes + 1 /\ crashes \in 0..MaxCrashes
    BY Zenon, <1>1 DEF TypeOK, AttemptsCounted
  <2>2. v[m] \in 1..attempt[m] \/ v[m] = 0
    BY <1>6, Zenon
  <2> QED
    BY Zenon, <2>1, <2>2, FaultAssumption, WithinBound
<1>8. v \in [Nodes -> 0..(MaxCrashes + 1)]
  BY Zenon, <1>6, <1>7
<1>9. Attempts!Heard(n, v)
  BY <1>5, <1>6, Zenon DEF Attempts!Heard
<1> QED
  BY <1>2, <1>3, <1>4, <1>6, <1>8, <1>9, Zenon DEF MemberExtra, Attempts!SendShare

(* startSign stores the signature of a computation that it completes.      *)
LEMMA SignRefines ==
    ASSUME NodesCount, SessionInv, NEW n \in Nodes, Signs(n), threshold' = threshold,
           \A k \in Nodes : k # n => SameTables(k)
    PROVE  Attempts!Complete(n)
<1>1. TypeOK /\ Computing(n)
  BY Zenon DEF SessionInv
<1>2. Chosen' = Chosen /\ \A k \in Nodes : Members(k)' = Members(k)
  BY Zenon, SignersKept DEF Signs
<1>3. n \in Members(n) /\ Chosen = Members(n)
  BY Zenon, <1>1, ChosenFull DEF ChosenByQuorums, Computing, Full, Signs
<1>4. MemberExtra' = [MemberExtra EXCEPT ![n] = view[n]]
  <2>1. session'[n].extra = view[n] /\ \A k \in Nodes : k # n => session'[k] = session[k]
    BY Zenon DEF Signs, SameTables
  <2> QED
    BY <1>2, <1>3, <2>1, Zenon DEF MemberExtra
<1> QED
  BY <1>2, <1>3, <1>4, Zenon DEF MemberExtra, Signs, Attempts!Complete

(* A failure or a restart gives up an attempt that is running.             *)
LEMMA StopRefines ==
    ASSUME SessionInv, NEW n \in Nodes, Stopped(n), threshold' = threshold, MemberExtra' = MemberExtra
    PROVE  Attempts!Stop(n) \/ SameComputation
<1>1. TypeOK /\ Computing(n)
  BY Zenon DEF SessionInv
<1>2. Chosen' = Chosen
  BY Zenon, SignersKept DEF Stopped
<1>3. CASE running[n]
  BY <1>2, <1>3, Zenon DEF MemberExtra, Stopped, Attempts!Stop
<1>4. CASE ~running[n]
  <2>1. running' = running
    BY Zenon, <1>1, <1>4 DEF Stopped, TypeOK
  <2>2. view[n] = NoSig
    BY Zenon, <1>1, <1>4 DEF Computing
  <2>3. view' = view
    BY Zenon, <1>1, <2>2 DEF Stopped, TypeOK
  <2> QED
    BY <1>2, <2>1, <2>3, Zenon DEF Stopped, SameComputation
<1> QED
  BY Zenon, <1>3, <1>4

(* Every step of a node is a step of the computation, or none.             *)
LEMMA StepRefines ==
    ASSUME NodesCount, SessionInv, NEW n \in Nodes, NodeNext(n)
    PROVE  Attempts!Next \/ UNCHANGED Attempts!vars
<1>1. /\ SessionInv' /\ Kinds(n) /\ (\A k \in Nodes : k # n => SameTables(k)) /\ TypeOK
  BY SessionInvStep, Zenon DEF SessionInv
<1>2. ComputationKinds(n) /\ threshold' = threshold
  BY Zenon, <1>1, ComputationStep, MemoryEffect DEF SessionInv
<1>3. session'[n].extra = session[n].extra \/ FinishResult(n) => MemberExtra' = MemberExtra
  BY Zenon, <1>1, <1>2, ExtraStep
<1>4. CASE /\ UNCHANGED <<attempt, running, view, shares>>
           /\ session'[n].extra = session[n].extra \/ FinishResult(n)
  <2>1. CASE Chosen' = Chosen
    BY Zenon, <1>3, <1>4, <2>1, Stutters DEF SameComputation
  <2>2. CASE Chosen = {} /\ Chosen' # {} /\ Chosen' \in SUBSET Nodes
    <3>1. PICK M \in SUBSET Nodes : M = Chosen'
      BY Zenon, <2>2
    <3>2. Attempts!Choose(M)
      BY <1>3, <1>4, <2>2, <3>1, Zenon DEF MemberExtra, Attempts!Choose
    <3> QED
      BY <3>2, Zenon DEF Attempts!Next
  <2> QED
    BY Zenon, <1>1, <1>2, <2>1, <2>2, ChosenStep
<1>5. CASE Stopped(n)
  <2>1. MemberExtra' = MemberExtra
    BY <1>3, <1>5, Zenon DEF Stopped
  <2> QED
    BY <1>2, <1>5, <2>1, StopRefines, Stutters, Zenon DEF Attempts!Next
<1>6. CASE Opened(n)
  BY <1>2, <1>6, OpenRefines, Stutters, Zenon DEF Attempts!Next
<1>7. CASE SendShare(n)
  BY <1>7, ShareRefines, Zenon DEF Attempts!Next
<1>8. CASE Signs(n)
  BY <1>1, <1>2, <1>8, SignRefines, Zenon DEF Attempts!Next
<1> QED
  BY <1>2, <1>4, <1>5, <1>6, <1>7, <1>8, Zenon DEF ComputationKinds

(* Nothing has been computed, and nobody chosen, in the initial state.     *)
LEMMA InitRefines == ASSUME NodesCount, Init PROVE Attempts!Init
<1>1. \A n \in Nodes : Members(n) = {}
  BY Zenon DEF Init, Members
<1>2. threshold \in Nat /\ Cardinality({}) = 0
  BY Zenon, ThresholdAssumption DEF Init, NodesCount
<1>3. \A n \in Nodes : ~Full(n)
  BY <1>1, <1>2 DEF Full
<1>4. Chosen = {}
  BY Zenon, <1>3, ChosenNone DEF NoneWithoutQuorum
<1>5. MemberExtra = [n \in Nodes |-> NoSig]
  BY Zenon, <1>1 DEF MemberExtra
<1> QED
  BY Zenon, <1>4, <1>5 DEF Init, MemberExtra, Attempts!Init

(* A member with a signature has it in the computation, another node has   *)
(* it from a member.                                                       *)
LEMMA ExtraOfMember ==
    ASSUME NodesCount, SessionInv, NEW n \in Nodes, session[n].extra # NoSig
    PROVE  \E m \in Nodes : MemberExtra[m] = session[n].extra
<1>1. TypeOK /\ Stage(n) /\ Written(n) /\ \A k \in Nodes : Stage(k)
  BY Zenon DEF SessionInv, TablesInv
<1>2. CASE n \in Members(n)
  BY Zenon, <1>2 DEF MemberExtra
<1>3. CASE n \notin Members(n)
  <2>1. session[n].state \in {"Pending", "Done"}
    BY Zenon, <1>1 DEF Written
  <2>2. PICK c \in DOMAIN log : PreparedBy(n, c)
    BY Zenon, <1>1, <2>1 DEF Stage, Preparing
  <2>3. PICK m \in Members(n) : TRUE
    BY Zenon, <1>1, <2>2, Quorum
  <2>4. session[m].extra = session[n].extra /\ m \in Nodes
    BY Zenon, <1>1, <1>3, <2>3 DEF Written, Members
  <2>5. m \in Members(m)
    <3>1. CASE Preparing(m)
      BY <1>1, <2>4, <3>1, Zenon DEF SessionInv, TablesInv, Written, Preparing
    <3>2. ASSUME NEW d \in DOMAIN log, PreparedBy(m, d) PROVE Members(m) = Members(n)
      BY Zenon, <2>2, <2>4, <3>2, QuorumsAgree
    <3> QED
      BY <1>1, <2>3, <2>4, <3>1, <3>2, Zenon DEF Stage
  <2> QED
    BY Zenon, <2>4, <2>5 DEF MemberExtra
<1> QED
  BY Zenon, <1>2, <1>3

(* A step of the session is a step of SigningAttempts or none.             *)
LEMMA NextRefines ==
    ASSUME NodesCount, SessionInv, [Next]_vars
    PROVE  [Attempts!Next]_(Attempts!vars)
<1> SUFFICES Attempts!Next \/ UNCHANGED Attempts!vars
  BY Zenon
<1>1. CASE Next
  <2>1. PICK n \in Nodes : NodeNext(n)
    BY <1>1, Zenon DEF Next, NodeNext
  <2> QED
    BY Zenon, <2>1, StepRefines
<1>2. CASE UNCHANGED vars
  <2>1. UNCHANGED <<session, signers, threshold, attempt, running, view, shares>>
    BY Zenon, <1>2 DEF vars
  <2>2. Chosen' = Chosen /\ \A k \in Nodes : Members(k)' = Members(k)
    BY Zenon, <2>1, SignersKept
  <2>3. MemberExtra' = MemberExtra
    BY Zenon, <2>1, <2>2 DEF MemberExtra
  <2> QED
    BY Zenon, <2>1, <2>2, <2>3, Stutters DEF SameComputation
<1> QED
  BY Zenon, <1>1, <1>2

(* Nodes have the same signature when the members have.                    *)
LEMMA OneOfMembers ==
    ASSUME NodesCount, SessionInv,
           \A j, k \in Nodes : MemberExtra[j] # NoSig /\ MemberExtra[k] # NoSig =>
                MemberExtra[j] = MemberExtra[k]
    PROVE  OneSignature
<1> SUFFICES ASSUME NEW n \in Nodes, NEW m \in Nodes,
                    session[n].extra # NoSig, session[m].extra # NoSig
             PROVE  session[n].extra = session[m].extra
  BY Zenon DEF OneSignature
<1>2. PICK j \in Nodes : MemberExtra[j] = session[n].extra
  BY Zenon, ExtraOfMember
<1>3. PICK k \in Nodes : MemberExtra[k] = session[m].extra
  BY Zenon, ExtraOfMember
<1> QED
  BY <1>2, <1>3, Zenon

-----------------------------------------------------------------------------
(* The nodes can be counted.                                               *)
INSTANCE SumTheorems

(* The least element of a finite set of numbers.                           *)
LEMMA MinOf ==
    ASSUME NEW S \in SUBSET Nat, IsFiniteSet(S), S # {}
    PROVE  Min(S) \in S
<1>1. \E x \in S : \A y \in S : x <= y
  BY LeastOf, Zenon
<1> QED
  BY <1>1, Zenon DEF Min

(* What the lemmas have assumed of sets of nodes.                          *)
LEMMA NodesCounted == NodesCount
<1>1. Cardinality({}) = 0
  BY Zenon, FS_EmptySet
<1>2. ASSUME NEW S \in SUBSET Nodes PROVE IsFiniteSet(S) /\ S \subseteq Nat
  BY NodesAssumption, FS_Subset, Zenon
<1>3. ASSUME NEW S \in SUBSET Nodes
      PROVE  /\ Cardinality(S) \in Nat
             /\ S # {} => Cardinality(S) # 0 /\ Min(S) \in S
  BY <1>2, FS_CardinalityType, FS_EmptySet, MinOf, Zenon
<1>4. ASSUME NEW S \in SUBSET Nodes, NEW T \in SUBSET Nodes, T \subseteq S
      PROVE  /\ Cardinality(T) <= Cardinality(S)
             /\ Cardinality(T) = Cardinality(S) => T = S
  <2>1. T \in SUBSET S
    BY Zenon, <1>4
  <2> QED
    BY <1>2, <2>1, FS_Subset, Zenon
<1>5. ASSUME NEW S \in SUBSET Nodes, NEW n \in Nodes \ S
      PROVE  Cardinality(S \cup {n}) = Cardinality(S) + 1
  BY <1>2, FS_AddElement, Zenon
<1> QED
  BY <1>1, <1>3, <1>4, <1>5, Zenon DEF NodesCount

(* The invariant of the session, for any number of nodes, any threshold    *)
(* and any number of crashes.                                              *)
THEOREM SessionInvariance == Spec => []SessionInv
<1>1. Init => SessionInv
  BY Zenon, SessionInit, NodesCounted
<1>2. SessionInv /\ [Next]_vars => SessionInv'
  BY Zenon, SessionNext, NodesCounted
<1> QED
  BY <1>1, <1>2, PTL DEF Spec

(* The members of a prepared session are the same on all nodes, and        *)
(* threshold + 1 (processSignerPrepare).                                   *)
THEOREM MembersAgree == Spec => []SameMembers
<1>1. SessionInv => SameMembers
  BY Zenon, MembersOfInv, NodesCounted
<1> QED
  BY <1>1, SessionInvariance, PTL

(* All nodes reply the same to an output that they have processed          *)
(* (ProcessOutput).                                                        *)
THEOREM RepliesAreTheSame == Spec => []RepliesAgree
<1>1. SessionInv => RepliesAgree
  BY Zenon, RepliesOfInv, NodesCounted
<1> QED
  BY <1>1, SessionInvariance, PTL

(* One output of a session is replied to (CheckActionResultsBySessionId).  *)
THEOREM RepliesOnce == Spec => []OneReply
<1>1. SessionInv => OneReply
  BY Zenon, OneReplyOfInv, NodesCounted
<1> QED
  BY <1>1, SessionInvariance, PTL

(* A reply is the signature that every member has, and the comparison at   *)
(* the end of processSignerResult does not panic.                          *)
THEOREM RepliesByAll == Spec => []ReplyByAll
<1>1. SessionInv => ReplyByAll
  BY Zenon, ReplyOfInv, NodesCounted
<1> QED
  BY <1>1, SessionInvariance, PTL

(* The loops, the worker, incoming messages, failures, panics and crashes  *)
(* implement the computation of SigningAttempts: members are chosen once,  *)
(* a member opens an attempt only while it has no signature, and sends one *)
(* share per attempt (queueOperation, startSign).                          *)
THEOREM SessionImplementsAttempts == Spec => ComputesOnce
<1>1. SessionInv /\ [Next]_vars => [Attempts!Next]_(Attempts!vars)
  BY Zenon, NextRefines, NodesCounted
<1>2. Init => Attempts!Init
  BY Zenon, InitRefines, NodesCounted
<1> QED
  BY <1>1, <1>2, SessionInvariance, PTL DEF Spec, ComputesOnce, Attempts!Spec


AttemptsProofs == INSTANCE SigningAttemptsProofs WITH
    MaxAttempts <- MaxCrashes + 1,
    members <- Chosen,
    extra <- [n \in Nodes |-> IF n \in Members(n) THEN session[n].extra ELSE NoSig]

(* No two nodes end a session with different signatures, for any number of *)
(* nodes and crashes (startSign, processSignerResult).                     *)
THEOREM SignaturesAgree == Spec => []OneSignature
<1>1. AttemptsProofs!ConstantsFit
  BY FaultAssumption, ExtraAssumption DEF AttemptsProofs!ConstantsFit, AttemptsProofs!Signatures, Signatures
<1>2. AttemptsProofs!Spec => []AttemptsProofs!OneSignature
  BY Zenon, <1>1, AttemptsProofs!OneSignatureHolds
<1>3. Attempts!Init => AttemptsProofs!Init
  BY Zenon DEF Attempts!Init, AttemptsProofs!Init
<1>4. [Attempts!Next]_(Attempts!vars) => [AttemptsProofs!Next]_(AttemptsProofs!vars)
  BY Zenon DEF Attempts!Next, AttemptsProofs!Next, Attempts!vars, AttemptsProofs!vars,
         Attempts!Choose, AttemptsProofs!Choose, Attempts!Open, AttemptsProofs!Open,
         Attempts!SendShare, AttemptsProofs!SendShare, Attempts!Heard, AttemptsProofs!Heard,
         Attempts!Complete, AttemptsProofs!Complete, Attempts!Stop, AttemptsProofs!Stop
<1>5. SessionInv /\ AttemptsProofs!OneSignature => OneSignature
  <2> SUFFICES ASSUME SessionInv, AttemptsProofs!OneSignature PROVE OneSignature
    BY Zenon
  <2>1. \A j, k \in Nodes : MemberExtra[j] # NoSig /\ MemberExtra[k] # NoSig =>
            MemberExtra[j] = MemberExtra[k]
    BY Zenon DEF MemberExtra, AttemptsProofs!OneSignature
  <2> QED
    BY Zenon, <2>1, OneOfMembers, NodesCounted
<1> QED
  BY <1>2, <1>3, <1>4, <1>5, SessionInvariance, SessionImplementsAttempts, PTL
     DEF ComputesOnce, Attempts!Spec, AttemptsProofs!Spec

=============================================================================
