---------------------------- MODULE CopyContract ----------------------------
(***************************************************************************)
(* What quarantine promises about the copies of one duplicate group: a copy*)
(* is set aside only on the strength of another copy that stays home, and  *)
(* a copy others rest on is never set aside.  Nothing is promised of a     *)
(* member disturbed from outside.                                          *)
(***************************************************************************)
CONSTANT Members

VARIABLES place,     \* "home", or "held" in the quarantine area
          pin,       \* the copy a held member rests on
          disturbed  \* members changed from outside
vars == <<place, pin, disturbed>>

TypeOK == /\ place \in [Members -> {"home", "held"}]
          /\ pin \in [Members -> Members]
          /\ disturbed \subseteq Members

Init == /\ place = [m \in Members |-> "home"]
        /\ pin \in [Members -> Members]
        /\ disturbed = {}

\* Undisturbed members outside S keep their place and pin.
Frame(S) == /\ TypeOK'
            /\ \A m \in Members \ (S \cup disturbed') :
                 place'[m] = place[m] /\ pin'[m] = pin[m]

Available(k) == k \in disturbed \/ place[k] = "home"

\* m is set aside: k stays for it, and nothing held rests on m.
Hold(m, k) ==
  /\ m \notin disturbed /\ place[m] = "home"
  /\ k # m /\ Available(k)
  /\ \A h \in Members \ disturbed : place[h] = "held" => pin[h] # m
  /\ disturbed' = disturbed
  /\ place'[m] = "held" /\ pin'[m] = k
  /\ Frame({m})

\* Copies come home, by a restore or because a crash undid their move;
\* meanwhile others may be disturbed.
Release(S, D) ==
  /\ disturbed' = disturbed \cup D
  /\ \A m \in S \ disturbed' : place[m] = "held" /\ place'[m] = "home"
  /\ Frame(S)

Next == \/ \E m, k \in Members : Hold(m, k)
        \/ \E S, D \in SUBSET Members : Release(S, D)

Spec == Init /\ [][Next]_vars

\* Every undisturbed held member rests on a copy that is home, or disturbed.
Anchored == \A m \in Members \ disturbed :
              place[m] = "held" => pin[m] # m /\ Available(pin[m])

\* An undisturbed group always has a copy at home.
CopyAtHome == disturbed = {} => \E m \in Members : place[m] = "home"
=============================================================================
