----------------------------- MODULE AtMostOnce -----------------------------
(* What a sender may rely on, whatever the threads do: messages are accepted   *)
(* under increasing numbers, and some of them reach the wire, each at most     *)
(* once.  Nothing is promised about loss, nor (see SendQueue) about order.     *)
EXTENDS Naturals, Sequences

CONSTANT MaxSends

VARIABLES accepted,   \* how many messages have been accepted
          delivered   \* the messages put on the wire, oldest first

vars == <<accepted, delivered>>

Messages == 1..MaxSends

(* s extends t: t is what s starts with. *)
Extends(s, t) == /\ Len(t) <= Len(s)
                 /\ \A k \in 1..Len(t) : s[k] = t[k]

(* No message occurs twice in s. *)
NoRepeat(s) == \A j, k \in 1..Len(s) : s[j] = s[k] => j = k

Init == /\ accepted = 0
        /\ delivered = <<>>

Accept == /\ accepted < MaxSends
          /\ accepted' = accepted + 1
          /\ UNCHANGED delivered

Deliver == /\ UNCHANGED accepted
           /\ delivered' \in Seq(Messages)
           /\ Extends(delivered', delivered)
           /\ \A k \in 1..Len(delivered') : delivered'[k] <= accepted
           /\ NoRepeat(delivered')

Next == Accept \/ Deliver

Spec == Init /\ [][Next]_vars
=============================================================================
