------------------------------ MODULE TradeDeal ------------------------------
(***************************************************************************)
(* What a trade room promises, without saying how: at most two parties lay *)
(* goods on the table, each agrees to what lies there, a change takes the  *)
(* agreement back, and a deal all parties agreed to is sealed.  A sealed   *)
(* deal is carried out exactly as it was sealed, between the two parties   *)
(* that sealed it, or not at all.                                          *)
(***************************************************************************)
EXTENDS Integers, FiniteSets

CONSTANTS Units, Items, EDs

VARIABLES
  stage,    \* "none", "open", "sealed" or "executing"
  deal,     \* the goods each party has laid on the table
  agreed    \* the parties that agree to what lies there

vars == <<stage, deal, agreed>>

Goods == [items : SUBSET Items, ed : EDs]
Nothing == [items |-> {}, ed |-> 0]
NoDeal == [u \in {} |-> u]

Parties == DOMAIN deal
TwoParties == Cardinality(Parties) = 2
SomethingLaid == \E u \in Parties : deal[u].items # {} \/ deal[u].ed > 0

Init == stage = "none" /\ deal = NoDeal /\ agreed = {}

Open(u) ==
  /\ stage = "none" /\ stage' = "open"
  /\ deal' = [v \in {u} |-> Nothing]
  /\ agreed' = {}

Enter(u) ==
  /\ stage = "open" /\ u \notin Parties /\ Cardinality(Parties) < 2
  /\ deal' = [v \in Parties \cup {u} |-> IF v = u THEN Nothing ELSE deal[v]]
  /\ UNCHANGED <<stage, agreed>>

Leave(leavers) ==
  /\ stage \in {"open", "sealed"}
  /\ deal' = [v \in Parties \ leavers |-> deal[v]]
  /\ agreed' = agreed \ leavers
  /\ UNCHANGED stage

\* Only a party that has not agreed may change its goods, and nobody agrees
\* to the new ones yet.
Change(u, g) ==
  /\ stage = "open" /\ TwoParties /\ u \in Parties \ agreed
  /\ deal' = [deal EXCEPT ![u] = g]
  /\ agreed' = {}
  /\ UNCHANGED stage

Agree(u) ==
  /\ stage = "open" /\ TwoParties /\ u \in Parties
  /\ agreed' = agreed \cup {u}
  /\ \/ agreed' # Parties /\ UNCHANGED stage
     \/ agreed' = Parties /\ SomethingLaid /\ stage' = "sealed"
  /\ UNCHANGED deal

Execute ==
  /\ stage = "sealed" /\ TwoParties
  /\ stage' = "executing"
  /\ UNCHANGED <<deal, agreed>>

End ==
  /\ stage # "none" /\ stage' = "none"
  /\ deal' = NoDeal /\ agreed' = {}

Next ==
  \/ \E u \in Units : Open(u) \/ Enter(u) \/ Agree(u)
  \/ \E u \in Units, g \in Goods : Change(u, g)
  \/ \E leavers \in SUBSET Units : Leave(leavers)
  \/ Execute
  \/ End

Spec == Init /\ [][Next]_vars

=============================================================================
