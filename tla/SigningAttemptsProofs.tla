------------------------ MODULE SigningAttemptsProofs ------------------------
(***************************************************************************)
(* Members of a computation never end with two signatures.                 *)
(*                                                                         *)
(* A signature v that n completed names n's last attempt, and so does w    *)
(* for m.  The other one's share for it names an attempt that is the same  *)
(* or earlier.  If both were earlier, each of two shares would name an     *)
(* attempt of the other's sender that was opened after the one it was sent *)
(* in; whichever share was sent last cannot have done so.  So one of them  *)
(* is the same attempt, and an attempt sends one share.                    *)
(***************************************************************************)
EXTENDS SigningAttempts, TLAPS

Shared(n, v) == n \in Nodes /\ v \in Signatures /\ <<n, v>> \in shares

(* A share names attempts that have been opened.                           *)
SharesOpened == \A n, v : Shared(n, v) => \A m \in Nodes : v[m] <= attempt[m]

(* An attempt sends one share.                                             *)
OneShare == \A n, v, w : Shared(n, v) /\ Shared(n, w) /\ v[n] = w[n] => v = w

(* Of two shares, one was sent before the other's attempt was opened.      *)
NoCrossing ==
    \A n, m, v, w : Shared(n, w) /\ Shared(m, v) => ~(w[n] < v[n] /\ v[m] < w[m])

Running(n) ==
    /\ running[n] => n \in members
    /\ running[n] => extra[n] = NoSig
    /\ running[n] /\ view[n] = NoSig => \A v : Shared(n, v) => v[n] < attempt[n]
    /\ view[n] # NoSig => view[n][n] = attempt[n]

Completed(n) ==
    extra[n] # NoSig =>
        /\ n \in members
        /\ extra[n][n] = attempt[n]
        /\ \A m \in members : Shared(m, extra[n])

IInv ==
    /\ TypeOK
    /\ SharesOpened
    /\ OneShare
    /\ NoCrossing
    /\ \A n \in Nodes : Running(n)
    /\ \A n \in Nodes : Completed(n)

(* The types, and the invariant, hold in the initial state.                *)
LEMMA Initially == Init => IInv
<1> SUFFICES ASSUME Init PROVE IInv
  OBVIOUS
<1>1. TypeOK
  BY DEF Init, TypeOK
<1>2. \A n, v : ~Shared(n, v)
  BY DEF Init, Shared
<1>3. \A n \in Nodes : Running(n) /\ Completed(n)
  BY <1>2 DEF Init, Running, Completed
<1> QED
  BY <1>1, <1>2, <1>3 DEF IInv, SharesOpened, OneShare, NoCrossing

(* The choice of the members, before which there is no attempt.            *)
LEMMA ChooseStep == ASSUME IInv, NEW M \in SUBSET Nodes, Choose(M) PROVE IInv'
<1> USE DEF Choose
<1>1. TypeOK'
  BY DEF IInv, TypeOK
<1>2. \A n, v : Shared(n, v)' <=> Shared(n, v)
  BY DEF Shared
<1>3. SharesOpened' /\ OneShare' /\ NoCrossing'
  BY <1>2 DEF IInv, SharesOpened, OneShare, NoCrossing
<1>4. ASSUME NEW n \in Nodes PROVE Running(n)' /\ Completed(n)'
  BY <1>2, Zenon DEF IInv, Running, Completed
<1> QED
  BY <1>1, <1>3, <1>4 DEF IInv

(* A new attempt is later than every attempt a share names.                *)
LEMMA OpenStep == ASSUME IInv, NEW k \in Nodes, Open(k) PROVE IInv'
<1> USE DEF Open
<1>1. TypeOK'
  BY DEF IInv, TypeOK
<1>2. \A n, v : Shared(n, v)' <=> Shared(n, v)
  BY DEF Shared
<1>3. \A m \in Nodes : attempt[m] \in Nat /\ attempt'[m] \in Nat /\ attempt[m] <= attempt'[m]
  BY DEF IInv, TypeOK
<1>4. SharesOpened'
  <2> SUFFICES ASSUME NEW n, NEW v, Shared(n, v), NEW m \in Nodes PROVE v[m] <= attempt'[m]
    BY <1>2 DEF SharesOpened
  <2>1. v[m] \in Nat /\ v[m] <= attempt[m]
    BY DEF IInv, SharesOpened, Shared, Signatures
  <2> QED
    BY <1>3, <2>1
<1>5. OneShare' /\ NoCrossing'
  BY <1>2 DEF IInv, OneShare, NoCrossing
<1>6. ASSUME NEW n \in Nodes PROVE Running(n)'
  <2>1. CASE n = k
    <3>1. view[k] = NoSig /\ view'[k] = NoSig
      BY DEF IInv, TypeOK
    <3>2. running'[k] /\ k \in members' /\ extra'[k] = NoSig
      BY DEF IInv, TypeOK
    <3>3. attempt'[k] = attempt[k] + 1
      BY DEF IInv, TypeOK
    <3>4. ASSUME NEW v, Shared(k, v) PROVE v[k] < attempt'[k]
      <4>1. v[k] \in Nat /\ v[k] <= attempt[k]
        BY <3>4 DEF IInv, SharesOpened, Shared, Signatures
      <4> QED
        BY <1>3, <3>3, <4>1
    <3> QED
      BY <1>2, <2>1, <3>1, <3>2, <3>4 DEF Running
  <2>2. CASE n # k
    <3>1. attempt'[n] = attempt[n] /\ running'[n] = running[n]
      BY <2>2 DEF IInv, TypeOK
    <3> QED
      BY <1>2, <3>1, Zenon DEF IInv, Running
  <2> QED
    BY <2>1, <2>2
<1>7. ASSUME NEW n \in Nodes PROVE Completed(n)'
  <2>1. extra[n] # NoSig => attempt'[n] = attempt[n]
    BY DEF IInv, TypeOK
  <2> QED
    BY <1>2, <2>1, Zenon DEF IInv, Completed
<1> QED
  BY <1>1, <1>4, <1>5, <1>6, <1>7 DEF IInv

(* A share is sent in the last attempt of its sender, so that no share     *)
(* names a later one.                                                      *)
LEMMA ShareStep == ASSUME ConstantsFit, IInv, NEW k \in Nodes, SendShare(k) PROVE IInv'
<1>1. PICK u \in [Nodes -> 0..MaxAttempts] :
        /\ u[k] = attempt[k] /\ Heard(k, u)
        /\ view' = [view EXCEPT ![k] = u]
        /\ shares' = shares \cup {<<k, u>>}
  BY DEF SendShare
<1>2. running[k] /\ view[k] = NoSig /\ UNCHANGED <<members, attempt, running, extra>>
  BY DEF SendShare
<1>3. u \in Signatures
  BY <1>1 DEF ConstantsFit, Signatures
<1>4. u # NoSig
  BY <1>3 DEF ConstantsFit
<1>5. TypeOK'
  BY <1>1, <1>2, <1>3 DEF IInv, TypeOK
<1>6. \A n, v : Shared(n, v)' <=> Shared(n, v) \/ (n = k /\ v = u)
  BY <1>1, <1>3 DEF Shared
<1>7. \A m \in Nodes : u[m] \in Nat /\ u[m] <= attempt[m] /\ attempt[m] \in Nat
  BY <1>1, <1>3 DEF IInv, TypeOK, Heard, Signatures
<1>8. SharesOpened'
  BY <1>2, <1>6, <1>7 DEF IInv, SharesOpened
<1>9. \A v : Shared(k, v) => v[k] < u[k] /\ v[k] \in Nat
  BY <1>1, <1>2 DEF IInv, Running, Shared, Signatures
<1>10. OneShare'
  BY <1>6, <1>7, <1>9 DEF IInv, OneShare
<1>11. NoCrossing'
  <2> SUFFICES ASSUME NEW n, NEW m, NEW v, NEW w, Shared(n, w)', Shared(m, v)',
                      w[n] < v[n], v[m] < w[m]
               PROVE  FALSE
    BY DEF NoCrossing
  <2>1. n \in Nodes /\ m \in Nodes /\ v \in Signatures /\ w \in Signatures
    BY DEF Shared
  <2>2. v[n] \in Nat /\ v[m] \in Nat /\ w[n] \in Nat /\ w[m] \in Nat
    BY <2>1 DEF Signatures
  <2>3. v[n] <= attempt[n] /\ w[m] <= attempt[m]
    BY <1>2, <1>8, <2>1 DEF SharesOpened
  <2>4. CASE n = k /\ w = u
    BY <1>1, <1>7, <2>2, <2>3, <2>4
  <2>5. CASE m = k /\ v = u
    BY <1>1, <1>7, <2>2, <2>3, <2>5
  <2> QED
    BY <1>6, <2>4, <2>5 DEF IInv, NoCrossing
<1>12. ASSUME NEW n \in Nodes PROVE Running(n)'
  <2>1. CASE n = k
    <3>1. view'[k] = u
      BY <1>1 DEF IInv, TypeOK
    <3> QED
      BY <1>1, <1>2, <1>4, <2>1, <3>1 DEF IInv, Running
  <2>2. CASE n # k
    <3>1. view'[n] = view[n]
      BY <1>1, <2>2 DEF IInv, TypeOK
    <3>2. \A v : Shared(n, v)' <=> Shared(n, v)
      BY <1>6, <2>2
    <3> QED
      BY <1>2, <3>1, <3>2, Zenon DEF IInv, Running
  <2> QED
    BY <2>1, <2>2
<1>13. ASSUME NEW n \in Nodes PROVE Completed(n)'
  BY <1>2, <1>6, Zenon DEF IInv, Completed
<1> QED
  BY <1>5, <1>8, <1>10, <1>11, <1>12, <1>13 DEF IInv

(* A completed signature names the last attempt of the node.               *)
LEMMA CompleteStep == ASSUME IInv, NEW k \in Nodes, Complete(k) PROVE IInv'
<1> USE DEF Complete
<1>1. TypeOK'
  BY DEF IInv, TypeOK
<1>2. \A n, v : Shared(n, v)' <=> Shared(n, v)
  BY DEF Shared
<1>3. SharesOpened' /\ OneShare' /\ NoCrossing'
  BY <1>2 DEF IInv, SharesOpened, OneShare, NoCrossing
<1>4. view[k][k] = attempt[k] /\ k \in members /\ view[k] \in Signatures
  BY DEF IInv, Running, TypeOK
<1>5. extra'[k] = view[k] /\ ~running'[k] /\ view'[k] = NoSig
  BY DEF IInv, TypeOK
<1>6. ASSUME NEW n \in Nodes, n # k
      PROVE  extra'[n] = extra[n] /\ running'[n] = running[n] /\ view'[n] = view[n]
  BY <1>6 DEF IInv, TypeOK
<1>7. ASSUME NEW n \in Nodes PROVE Running(n)'
  <2>1. CASE n = k
    BY <1>5, <2>1 DEF Running
  <2>2. CASE n # k
    BY <1>2, <1>6, <2>2, Zenon DEF IInv, Running
  <2> QED
    BY <2>1, <2>2
<1>8. ASSUME NEW n \in Nodes PROVE Completed(n)'
  <2>1. CASE n = k
    <3>1. \A m \in members : Shared(m, view[k])
      BY <1>4 DEF IInv, TypeOK, Shared
    <3> QED
      BY <1>2, <1>4, <1>5, <2>1, <3>1 DEF Completed
  <2>2. CASE n # k
    BY <1>2, <1>6, <2>2, Zenon DEF IInv, Completed
  <2> QED
    BY <2>1, <2>2
<1> QED
  BY <1>1, <1>3, <1>7, <1>8 DEF IInv

(* An attempt that is given up leaves its messages behind.                 *)
LEMMA StopStep == ASSUME IInv, NEW k \in Nodes, Stop(k) PROVE IInv'
<1> USE DEF Stop
<1>1. TypeOK'
  BY DEF IInv, TypeOK
<1>2. \A n, v : Shared(n, v)' <=> Shared(n, v)
  BY DEF Shared
<1>3. SharesOpened' /\ OneShare' /\ NoCrossing'
  BY <1>2 DEF IInv, SharesOpened, OneShare, NoCrossing
<1>4. ~running'[k] /\ view'[k] = NoSig
  BY DEF IInv, TypeOK
<1>5. ASSUME NEW n \in Nodes, n # k PROVE running'[n] = running[n] /\ view'[n] = view[n]
  BY <1>5 DEF IInv, TypeOK
<1>6. ASSUME NEW n \in Nodes PROVE Running(n)'
  <2>1. CASE n = k
    BY <1>4, <2>1 DEF Running
  <2>2. CASE n # k
    BY <1>2, <1>5, <2>2, Zenon DEF IInv, Running
  <2> QED
    BY <2>1, <2>2
<1>7. ASSUME NEW n \in Nodes PROVE Completed(n)'
  BY <1>2, Zenon DEF IInv, Completed
<1> QED
  BY <1>1, <1>3, <1>6, <1>7 DEF IInv

(* Every reachable state satisfies the invariant.                          *)
THEOREM Invariance == ASSUME ConstantsFit PROVE Spec => []IInv
<1>1. IInv /\ [Next]_vars => IInv'
  <2> SUFFICES ASSUME IInv, [Next]_vars PROVE IInv'
    OBVIOUS
  <2>1. CASE UNCHANGED vars
    <3>1. \A n, v : Shared(n, v)' <=> Shared(n, v)
      BY <2>1 DEF vars, Shared
    <3>2. TypeOK'
      BY <2>1 DEF vars, IInv, TypeOK
    <3>3. SharesOpened' /\ OneShare' /\ NoCrossing'
      BY <2>1, <3>1 DEF vars, IInv, SharesOpened, OneShare, NoCrossing
    <3>4. ASSUME NEW n \in Nodes PROVE Running(n)' /\ Completed(n)'
      BY <2>1, <3>1, Zenon DEF vars, IInv, Running, Completed
    <3> QED
      BY <3>2, <3>3, <3>4 DEF IInv
  <2>2. CASE Next
    BY <2>2, ChooseStep, OpenStep, ShareStep, CompleteStep, StopStep DEF Next
  <2> QED
    BY <2>1, <2>2
<1> QED
  BY <1>1, Initially, PTL DEF Spec

(* Two nodes that completed the computation have the same signature, for   *)
(* any number of members, attempts and old messages.                       *)
THEOREM OneSignatureHolds == ASSUME ConstantsFit PROVE Spec => []OneSignature
<1>1. IInv => OneSignature
  <2> SUFFICES ASSUME IInv, NEW n \in Nodes, NEW m \in Nodes,
                      extra[n] # NoSig, extra[m] # NoSig
               PROVE  extra[n] = extra[m]
    BY DEF OneSignature
  <2> DEFINE v == extra[n]
             w == extra[m]
  <2>1. v \in Signatures /\ w \in Signatures
    BY DEF IInv, TypeOK
  <2>2. n \in members /\ m \in members /\ v[n] = attempt[n] /\ w[m] = attempt[m]
    BY Zenon DEF IInv, Completed
  <2>3. Shared(n, v) /\ Shared(m, v) /\ Shared(n, w) /\ Shared(m, w)
    BY <2>2, Zenon DEF IInv, Completed
  <2> HIDE DEF v, w
  <2>4. /\ v[n] \in Nat /\ v[m] \in Nat /\ w[n] \in Nat /\ w[m] \in Nat
        /\ w[n] <= v[n] /\ v[m] <= w[m]
    BY <2>1, <2>2, <2>3 DEF IInv, SharesOpened, Signatures
  <2>5. ~(w[n] < v[n] /\ v[m] < w[m])
    BY <2>3, Zenon DEF IInv, NoCrossing
  <2>6. w[n] = v[n] \/ v[m] = w[m]
    BY <2>4, <2>5
  <2>7. v = w
    BY <2>3, <2>6, Zenon DEF IInv, OneShare
  <2> QED
    BY <2>7 DEF v, w
<1> QED
  BY <1>1, Invariance, PTL

=============================================================================
