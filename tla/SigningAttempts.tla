---------------------------- MODULE SigningAttempts ----------------------------
(***************************************************************************)
(* What the signer nodes rely on in the multi-party computation of one     *)
(* signature: a fixed set of members, each of which opens an attempt, may  *)
(* lose it in a crash or a timeout and open another.  The rounds of the    *)
(* protocols are two here.  In the first a member hears of an attempt of   *)
(* every other member, which may be an old one whose messages are still    *)
(* under way, since all attempts have the same session id.  In the second  *)
(* it sends its share for these attempts, once per attempt; a member that  *)
(* has the shares of all members for the same attempts has the signature.  *)
(*                                                                         *)
(* SignerSession implements this module.                                   *)
(***************************************************************************)
EXTENDS Integers

CONSTANTS
    Nodes,
    NoSig,          \* the absence of a signature
    MaxAttempts     \* bound on the attempts of a node

(* A signature is named by what it was computed from: for each member the  *)
(* attempt whose messages went into it, 0 for the other nodes.             *)
Signatures == [Nodes -> Nat]

(* What the constants of an instance satisfy.                              *)
ConstantsFit == MaxAttempts \in Nat /\ NoSig \notin Signatures

VARIABLES
    members,        \* the nodes that sign, {} until they are chosen
    attempt,        \* how often each node has started
    running,        \* the nodes whose last attempt is under way
    view,           \* the attempts a running node works with
    shares,         \* the shares sent: pairs of a node and a view
    extra           \* the signature each node has

vars == <<members, attempt, running, view, shares, extra>>

Init ==
    /\ members = {}
    /\ attempt = [n \in Nodes |-> 0]
    /\ running = [n \in Nodes |-> FALSE]
    /\ view = [n \in Nodes |-> NoSig]
    /\ shares = {}
    /\ extra = [n \in Nodes |-> NoSig]

Choose(M) ==
    /\ members = {} /\ M # {}
    /\ members' = M
    /\ UNCHANGED <<attempt, running, view, shares, extra>>

Open(n) ==
    /\ n \in members /\ ~running[n] /\ extra[n] = NoSig
    /\ attempt[n] < MaxAttempts
    /\ attempt' = [attempt EXCEPT ![n] = @ + 1]
    /\ running' = [running EXCEPT ![n] = TRUE]
    /\ UNCHANGED <<members, view, shares, extra>>

(* The attempts that n may have heard of.                                  *)
Heard(n, v) ==
    \A m \in Nodes : IF m \in members THEN v[m] \in 1..attempt[m] ELSE v[m] = 0

SendShare(n) ==
    /\ running[n] /\ view[n] = NoSig
    /\ \E v \in [Nodes -> 0..MaxAttempts] :
        /\ v[n] = attempt[n] /\ Heard(n, v)
        /\ view' = [view EXCEPT ![n] = v]
        /\ shares' = shares \cup {<<n, v>>}
    /\ UNCHANGED <<members, attempt, running, extra>>

Complete(n) ==
    /\ running[n] /\ view[n] # NoSig
    /\ \A m \in members : <<m, view[n]>> \in shares
    /\ extra' = [extra EXCEPT ![n] = view[n]]
    /\ running' = [running EXCEPT ![n] = FALSE]
    /\ view' = [view EXCEPT ![n] = NoSig]
    /\ UNCHANGED <<members, attempt, shares>>

Stop(n) ==
    /\ running[n]
    /\ running' = [running EXCEPT ![n] = FALSE]
    /\ view' = [view EXCEPT ![n] = NoSig]
    /\ UNCHANGED <<members, attempt, shares, extra>>

Next ==
    \/ \E M \in SUBSET Nodes : Choose(M)
    \/ \E n \in Nodes : Open(n) \/ SendShare(n) \/ Complete(n) \/ Stop(n)

Spec == Init /\ [][Next]_vars

-----------------------------------------------------------------------------
(* Every variable has its type, and only a running attempt has a view (the *)
(* handler of handlerLoop is dropped when its loop returns).               *)
TypeOK ==
    /\ members \subseteq Nodes
    /\ attempt \in [Nodes -> Nat]
    /\ running \in [Nodes -> BOOLEAN]
    /\ view \in [Nodes -> Signatures \cup {NoSig}]
    /\ shares \subseteq Nodes \X Signatures
    /\ extra \in [Nodes -> Signatures \cup {NoSig}]
    /\ \A n \in Nodes : view[n] # NoSig => running[n]

(* Members that complete the computation have the same signature, however  *)
(* many attempts each has made and whichever old messages it has heard     *)
(* (startSign stores what cmpSign returns, once per session).              *)
OneSignature ==
    \A n, m \in Nodes : extra[n] # NoSig /\ extra[m] # NoSig => extra[n] = extra[m]

=============================================================================
