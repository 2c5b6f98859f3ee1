-------------------------- MODULE ShopSystemProofs --------------------------
(***************************************************************************)
(* Proofs about ShopSystem, for any units, sellers, items, prices, wealth  *)
(* and bounds.                                                             *)
(*                                                                         *)
(* First the sums the books are kept with.  Then the types: every step of  *)
(* the system is a step of the shop's room or leaves it alone, so the      *)
(* room's invariant holds in the system, and the channels, the writes and  *)
(* the orders hold what the two ends may send; in particular the giver and *)
(* the taker of a sale are never the same.  Last the books themselves.     *)
(***************************************************************************)
EXTENDS ShopSystem, PersonalShopProofs, SequenceTheorems, FiniteSetTheorems,
        WellFoundedInduction

-----------------------------------------------------------------------------
(* Sums of numbers.                                                        *)

\* Induction over the naturals, stated for a set: the least number not in it
\* would have a predecessor in it.
LEMMA Induction ==
  ASSUME NEW S, 0 \in S, \A n \in Nat : n \in S => n + 1 \in S
  PROVE  Nat \subseteq S
<1> DEFINE R == OpToRel(<, Nat)
           T == Nat \ S
<1>1. R = {ss \in Nat \X Nat : ss[1] < ss[2]}
  BY DEF OpToRel
<1>2. IsWellFoundedOn(R, Nat)
  BY NatLessThanWellFounded
<1> SUFFICES ASSUME T # {} PROVE FALSE
  OBVIOUS
<1>3. T \subseteq Nat
  OBVIOUS
<1> HIDE DEF R, T
<1>4. PICK x \in T : \A y \in T : ~(<<y, x>> \in R)
  BY <1>2, <1>3, WFMin
<1>5. x \in Nat /\ x \notin S /\ x # 0
  BY DEF T
<1>6. x - 1 \in Nat /\ <<x - 1, x>> \in R
  BY <1>1, <1>5
<1>7. x - 1 \in S
  BY <1>4, <1>6 DEF T
<1>8. (x - 1) + 1 \in S
  BY <1>6, <1>7
<1> QED
  BY <1>5, <1>8

\* Numbers have partial sums.
LEMMA PartialSums ==
  ASSUME NEW e \in [Nat -> Int], NEW n \in Nat
  PROVE  \E f \in [0..n -> Int] : f[0] = 0 /\ \A k \in 1..n : f[k] = f[k - 1] + e[k]
<1> DEFINE Sums(f, m) == f[0] = 0 /\ \A k \in 1..m : f[k] = f[k - 1] + e[k]
           T == {m \in Nat : \E f \in [0..m -> Int] : Sums(f, m)}
<1>1. 0 \in T
  <2> DEFINE f == [k \in 0..0 |-> 0]
  <2>1. f \in [0..0 -> Int] /\ Sums(f, 0)
    OBVIOUS
  <2> QED
    BY <2>1
<1>2. ASSUME NEW m \in Nat, m \in T PROVE m + 1 \in T
  <2>1. PICK f \in [0..m -> Int] : Sums(f, m)
    BY <1>2
  <2>2. e[m + 1] \in Int /\ f[m] \in Int
    BY <2>1
  <2> DEFINE g == [k \in 0..(m + 1) |-> IF k = m + 1 THEN f[m] + e[m + 1] ELSE f[k]]
  <2>3. g \in [0..(m + 1) -> Int]
    BY <2>2
  <2>4. g[0] = 0
    BY <2>1
  <2>5. ASSUME NEW k \in 1..(m + 1) PROVE g[k] = g[k - 1] + e[k]
    <3>1. CASE k = m + 1
      <4>1. k - 1 = m /\ m \in 0..(m + 1) /\ m # m + 1
        BY <3>1
      <4>2. g[k] = f[m] + e[m + 1] /\ g[m] = f[m]
        BY <3>1, <4>1
      <4> QED
        BY <4>1, <4>2, <3>1
    <3>2. CASE k # m + 1
      <4>1. k \in 1..m /\ k - 1 \in 0..m /\ k - 1 # m + 1
        BY <3>2
      <4>2. g[k] = f[k] /\ g[k - 1] = f[k - 1]
        BY <4>1, <3>2
      <4> QED
        BY <2>1, <4>1, <4>2
    <3> QED
      BY <3>1, <3>2
  <2> HIDE DEF g
  <2>6. Sums(g, m + 1)
    BY <2>4, <2>5
  <2> HIDE DEF Sums
  <2>7. \E h \in [0..(m + 1) -> Int] : Sums(h, m + 1)
    BY <2>3, <2>6
  <2> QED
    BY <2>7
<1> HIDE DEF T
<1>3. Nat \subseteq T
  BY <1>1, <1>2, Induction
<1> QED
  BY <1>3 DEF T

\* The sum is the last partial sum.
LEMMA TotalIsLast ==
  ASSUME NEW s \in Seq(Int)
  PROVE  \E f \in [0..Len(s) -> Int] :
           /\ f[0] = 0 /\ \A k \in 1..Len(s) : f[k] = f[k - 1] + s[k]
           /\ GS!Total(s) = f[Len(s)]
<1> DEFINE N == Len(s)
           R == CHOOSE upTo : upTo = [n \in 0..N |-> IF n = 0 THEN 0 ELSE upTo[n - 1] + s[n]]
<1>1. N \in Nat
  OBVIOUS
<1>2. GS!Total(s) = R[N]
  BY DEF GS!Total
<1>3. PICK f \in [0..N -> Int] : f[0] = 0 /\ \A k \in 1..N : f[k] = f[k - 1] + s[k]
  <2> DEFINE e == [k \in Nat |-> IF k \in 1..N THEN s[k] ELSE 0]
  <2>1. e \in [Nat -> Int] /\ \A k \in 1..N : e[k] = s[k]
    BY <1>1
  <2> HIDE DEF e, N
  <2>2. PICK f \in [0..N -> Int] : f[0] = 0 /\ \A k \in 1..N : f[k] = f[k - 1] + e[k]
    BY <1>1, <2>1, PartialSums
  <2> QED
    BY <2>1, <2>2
<1> HIDE DEF N
<1>4. f = [n \in 0..N |-> IF n = 0 THEN 0 ELSE f[n - 1] + s[n]]
  <2>1. f = [n \in 0..N |-> f[n]]
    BY <1>3
  <2>2. \A n \in 0..N : f[n] = IF n = 0 THEN 0 ELSE f[n - 1] + s[n]
    <3>1. \A n \in 0..N : n # 0 => n \in 1..N
      BY <1>1
    <3> QED
      BY <1>3, <3>1
  <2> QED
    BY <2>1, <2>2
<1>5. R = [n \in 0..N |-> IF n = 0 THEN 0 ELSE R[n - 1] + s[n]]
  BY <1>4
<1> HIDE DEF R
<1>6. R[0] = 0 /\ \A k \in 1..N : R[k] = R[k - 1] + s[k]
  BY <1>1, <1>5
<1> DEFINE T == {m \in Nat : m <= N => R[m] = f[m]}
<1>7. Nat \subseteq T
  <2>1. 0 \in T
    BY <1>3, <1>6
  <2>2. ASSUME NEW m \in Nat, m \in T PROVE m + 1 \in T
    <3> SUFFICES ASSUME m + 1 <= N PROVE R[m + 1] = f[m + 1]
      OBVIOUS
    <3>1. m + 1 \in 1..N /\ (m + 1) - 1 = m /\ R[m] = f[m]
      BY <1>1, <2>2
    <3> QED
      BY <1>3, <1>6, <3>1
  <2> HIDE DEF T
  <2> QED
    BY <2>1, <2>2, Induction
<1>8. R[N] = f[N]
  BY <1>1, <1>7
<1> QED
  BY <1>2, <1>3, <1>8 DEF N

\* What grows as the partial sums do ends as they do.
LEMMA Telescope ==
  ASSUME NEW s \in Seq(Int), NEW c \in Int, NEW g \in [0..Len(s) -> Int],
         g[0] = c, \A k \in 1..Len(s) : g[k] = g[k - 1] + s[k]
  PROVE  g[Len(s)] = c + GS!Total(s) /\ GS!Total(s) \in Int
<1> DEFINE N == Len(s)
<1>1. N \in Nat
  OBVIOUS
<1>2. PICK f \in [0..N -> Int] : /\ f[0] = 0 /\ \A k \in 1..N : f[k] = f[k - 1] + s[k]
                                 /\ GS!Total(s) = f[N]
  BY TotalIsLast
<1>3. \A k \in 1..N : g[k] = g[k - 1] + s[k] /\ s[k] \in Int
  OBVIOUS
<1>4. g \in [0..N -> Int] /\ g[0] = c
  OBVIOUS
<1> HIDE DEF N
<1> DEFINE T == {m \in Nat : m <= N => g[m] = c + f[m]}
<1>5. Nat \subseteq T
  <2>1. 0 \in T
    BY <1>2, <1>4
  <2>2. ASSUME NEW m \in Nat, m \in T PROVE m + 1 \in T
    <3> SUFFICES ASSUME m + 1 <= N PROVE g[m + 1] = c + f[m + 1]
      OBVIOUS
    <3>1. m + 1 \in 1..N /\ (m + 1) - 1 = m /\ g[m] = c + f[m] /\ m \in 0..N
      BY <1>1, <2>2
    <3>2. s[m + 1] \in Int /\ f[m] \in Int /\ g[m] \in Int
      BY <1>2, <1>3, <1>4, <3>1
    <3>3. g[m + 1] = g[m] + s[m + 1] /\ f[m + 1] = f[m] + s[m + 1]
      BY <1>2, <1>3, <3>1
    <3> QED
      BY <3>1, <3>2, <3>3
  <2> HIDE DEF T
  <2> QED
    BY <2>1, <2>2, Induction
<1>6. g[N] = c + f[N] /\ f[N] \in Int
  BY <1>1, <1>2, <1>5
<1> QED
  BY <1>2, <1>6 DEF N

\* Nothing sums up to nothing.
LEMMA NothingTotal ==
  ASSUME NEW s \in Seq(Int), \A k \in 1..Len(s) : s[k] = 0
  PROVE  GS!Total(s) = 0
<1> DEFINE g == [k \in 0..Len(s) |-> 0]
<1>1. Len(s) \in Nat
  OBVIOUS
<1>2. g \in [0..Len(s) -> Int] /\ g[0] = 0 /\ g[Len(s)] = 0
  BY <1>1
<1>3. \A k \in 1..Len(s) : g[k] = g[k - 1] + s[k]
  BY <1>1
<1> HIDE DEF g
<1>4. g[Len(s)] = 0 + GS!Total(s) /\ GS!Total(s) \in Int
  BY <1>2, <1>3, Telescope
<1> QED
  BY <1>2, <1>4

\* A sum that differs from another in one term, or adds it.
LEMMA OneDiffers ==
  ASSUME NEW s \in Seq(Int), NEW t \in Seq(Int), Len(s) <= Len(t),
         NEW n \in 1..Len(t),
         \A k \in 1..Len(t) \ {n} : t[k] = IF k <= Len(s) THEN s[k] ELSE 0
  PROVE  GS!Total(t) = GS!Total(s) + t[n] - (IF n <= Len(s) THEN s[n] ELSE 0)
<1> DEFINE M == Len(s)
           N == Len(t)
           old == IF n <= M THEN s[n] ELSE 0
           d == t[n] - old
<1>1. M \in Nat /\ N \in Nat /\ M <= N /\ n \in 1..N
  OBVIOUS
<1>2. \A k \in 1..N : t[k] \in Int /\ (k <= M => s[k] \in Int)
  OBVIOUS
<1>3. old \in Int /\ d \in Int /\ t[n] = old + d
  BY <1>1, <1>2
<1>4. PICK f \in [0..M -> Int] :
        f[0] = 0 /\ (\A k \in 1..M : f[k] = f[k - 1] + s[k]) /\ GS!Total(s) = f[M]
  BY TotalIsLast
<1> DEFINE base == [k \in 0..N |-> IF k <= M THEN f[k] ELSE f[M]]
           g == [k \in 0..N |-> base[k] + (IF n <= k THEN d ELSE 0)]
<1>5. \A k \in 1..N \ {n} : t[k] = IF k <= M THEN s[k] ELSE 0
  OBVIOUS
<1> HIDE DEF M, N, old, d
<1>6. ASSUME NEW k \in 0..N PROVE base[k] \in Int
  BY <1>1, <1>4, <1>6
<1>7. ASSUME NEW k \in 1..N
      PROVE  base[k] = base[k - 1] + (IF k <= M THEN s[k] ELSE 0)
  <2>1. k \in 0..N /\ k - 1 \in 0..N /\ k \in Nat \ {0}
    BY <1>1
  <2>2. CASE k <= M
    <3>1. k \in 1..M /\ k - 1 <= M
      BY <1>1, <2>1, <2>2
    <3> QED
      BY <1>4, <2>1, <2>2, <3>1
  <2>3. CASE ~(k <= M)
    <3>1. k - 1 = M \/ ~(k - 1 <= M)
      BY <1>1, <2>1, <2>3
    <3>2. base[k] = f[M] /\ base[k - 1] = f[M] /\ f[M] \in Int
      BY <1>1, <1>4, <2>1, <2>3, <3>1
    <3> QED
      BY <2>3, <3>2
  <2> QED
    BY <2>2, <2>3
<1>8. base[0] = 0 /\ base[N] = f[M]
  <2>1. 0 \in 0..N /\ 0 <= M /\ N \in 0..N /\ (N <= M => N = M)
    BY <1>1
  <2> QED
    BY <1>4, <2>1
<1> HIDE DEF base
<1>9. g \in [0..N -> Int]
  BY <1>3, <1>6
<1>10. g[0] = 0 /\ g[N] = f[M] + d
  <2>1. 0 \in 0..N /\ N \in 0..N /\ n <= N /\ ~(n <= 0)
    BY <1>1
  <2>2. f[M] \in Int
    BY <1>1, <1>4
  <2> QED
    BY <1>8, <2>1, <2>2
<1>11. ASSUME NEW k \in 1..N PROVE g[k] = g[k - 1] + t[k]
  <2>1. k \in 0..N /\ k - 1 \in 0..N /\ k \in Nat \ {0}
    BY <1>1
  <2>2. base[k] \in Int /\ base[k - 1] \in Int
    BY <1>6, <2>1
  <2>5. /\ g[k] = base[k] + (IF n <= k THEN d ELSE 0)
        /\ g[k - 1] = base[k - 1] + (IF n <= k - 1 THEN d ELSE 0)
    BY <2>1
  <2> HIDE DEF g
  <2>3. CASE k = n
    <3>1. n <= k /\ ~(n <= k - 1) /\ old = IF k <= M THEN s[k] ELSE 0
      BY <1>1, <2>3 DEF old
    <3> QED
      <4>1. base[k] = base[k - 1] + old
        BY <1>7, <3>1
      <4>2. g[k] = base[k] + d /\ g[k - 1] = base[k - 1] + 0
        BY <2>5, <3>1
      <4> QED
        BY <1>3, <2>2, <2>3, <4>1, <4>2
  <2>4. CASE k # n
    <3>1. n <= k <=> n <= k - 1
      BY <1>1, <2>4
    <3>2. k \in 1..N \ {n}
      BY <2>4
    <3>3. t[k] = IF k <= M THEN s[k] ELSE 0
      BY <1>5, <3>2
    <3>4. base[k] = base[k - 1] + t[k]
      BY <1>7, <3>3
    <3> QED
      <4>1. t[k] \in Int
        BY <1>2
      <4> QED
        BY SMTT(60), <1>3, <2>2, <2>5, <3>1, <3>4, <4>1
  <2> QED
    BY <2>3, <2>4
<1> HIDE DEF g
<1>12. g[N] = 0 + GS!Total(t) /\ GS!Total(t) \in Int
  <2>1. /\ g \in [0..Len(t) -> Int] /\ g[0] = 0
        /\ \A k \in 1..Len(t) : g[k] = g[k - 1] + t[k]
    BY <1>9, <1>10, <1>11 DEF N
  <2>2. t \in Seq(Int) /\ 0 \in Int
    OBVIOUS
  <2>3. g[Len(t)] = 0 + GS!Total(t) /\ GS!Total(t) \in Int
    BY ONLY <2>1, <2>2, Telescope
  <2> QED
    BY <2>3 DEF N
<1>13. f[M] \in Int
  BY <1>1, <1>4
<1> QED
  BY <1>3, <1>4, <1>10, <1>12, <1>13 DEF d, old, M

\* Sums that differ in zeros only.
LEMMA NoneDiffers ==
  ASSUME NEW s \in Seq(Int), NEW t \in Seq(Int), Len(s) <= Len(t),
         \A k \in 1..Len(t) : t[k] = IF k <= Len(s) THEN s[k] ELSE 0
  PROVE  GS!Total(t) = GS!Total(s)
<1>1. Len(s) \in Nat /\ Len(t) \in Nat /\ GS!Total(s) \in Int
  BY TotalIsLast
<1>2. CASE Len(t) = 0
  BY <1>1, <1>2, NothingTotal
<1>3. CASE Len(t) # 0
  <2>1. Len(t) \in 1..Len(t)
    BY <1>1, <1>3
  <2>2. t[Len(t)] = (IF Len(t) <= Len(s) THEN s[Len(t)] ELSE 0) /\ t[Len(t)] \in Int
    BY <2>1
  <2>3. GS!Total(t) = GS!Total(s) + t[Len(t)]
                        - (IF Len(t) <= Len(s) THEN s[Len(t)] ELSE 0)
    BY <2>1, OneDiffers
  <2> QED
    BY <1>1, <2>2, <2>3
<1> QED
  BY <1>2, <1>3

\* The first term and the others.
LEMMA FirstApart ==
  ASSUME NEW s \in Seq(Int), NEW t \in Seq(Int), Len(s) = Len(t) + 1,
         \A k \in 1..Len(t) : t[k] = s[k + 1]
  PROVE  GS!Total(s) = s[1] + GS!Total(t)
<1> DEFINE N == Len(t)
<1>1. N \in Nat /\ Len(s) = N + 1 /\ s[1] \in Int
  OBVIOUS
<1>2. PICK f \in [0..(N + 1) -> Int] :
        /\ f[0] = 0 /\ (\A k \in 1..(N + 1) : f[k] = f[k - 1] + s[k])
        /\ GS!Total(s) = f[N + 1]
  BY TotalIsLast
<1>3. \A k \in 1..N : t[k] = s[k + 1]
  OBVIOUS
<1> DEFINE g == [k \in 0..N |-> f[k + 1]]
<1> HIDE DEF N
<1>4. g \in [0..N -> Int]
  BY <1>1, <1>2
<1>5. g[0] = s[1] /\ g[N] = GS!Total(s)
  <2>1. 0 \in 0..N /\ N \in 0..N /\ 1 \in 1..(N + 1) /\ 0 + 1 = 1 /\ 1 - 1 = 0
    BY <1>1
  <2> QED
    BY <1>1, <1>2, <2>1
<1>6. ASSUME NEW k \in 1..N PROVE g[k] = g[k - 1] + t[k]
  <2>1. k \in 0..N /\ k - 1 \in 0..N /\ k + 1 \in 1..(N + 1)
        /\ (k - 1) + 1 = k /\ (k + 1) - 1 = k
    BY <1>1
  <2> QED
    BY <1>2, <1>3, <2>1
<1> HIDE DEF g
<1>7. g[N] = s[1] + GS!Total(t)
  BY <1>1, <1>4, <1>5, <1>6, Telescope DEF N
<1> QED
  BY <1>5, <1>7

-----------------------------------------------------------------------------
(* The types of the system.  Who sells never buys, so the two parties of a *)
(* sale are different units.                                               *)

Buyers == Units \ Sellers
Sale == [seller : Sellers, buyer : Buyers, item : Items, quantity : Quantities]

\* What the game server of u may send to the room, and the room to it.
UpMessage(u) ==
  {m \in [type : {"OPEN"}] : u \in Sellers}
    \cup [type : {"REG"}, list : Lists]
    \cup [type : {"JOIN", "LEAVE"}]
    \cup [type : {"BREAK"}, quietly : BOOLEAN]
    \cup {m \in [type : {"BUY"}, item : Items, quantity : Quantities, ed : Int] : u \in Buyers}
    \cup [type : {"CONFIRM_ACK"}, buyer : Buyers, item : Items, quantity : Quantities,
          ok : BOOLEAN]
Notice ==
  [type : {"OPEN_ACK", "REG_ACK", "JOIN_ACK", "BREAK_ACK", "LEAVE_ACK", "BUY_ACK"},
   ok : BOOLEAN]
    \cup [type : {"BREAK_NOT"}]
    \cup [type : {"CONFIRM_REQ"}, buyer : Buyers, item : Items, left : Nat,
          quantity : Quantities]
SaleNotice == [type : {"COMPLETE_NOT"}, purchase : Sale]
DownMessage == Notice \cup SaleNotice

Order == [purchase : Sale, status : {"asked", "done", "refused", "error", "sold", "lost"}]

\* The room: its own invariant, its seller is one, and a single item is listed
\* only if one piece is a quantity.
HostsOf(us) == {u \in DOMAIN us : us[u].host}
RoomIsSound ==
  /\ Safe
  /\ HostsOf(users) \subseteq Sellers
  /\ \A i \in DOMAIN goods : i \notin Stackable => 1 \in Quantities

\* What a step of the room sends: notices, but for those of sales, and at most
\* one order.
SendsNotices ==
  /\ sent' \in [Units -> Seq(Notice)]
  /\ sentDB' = {} \/ \E p \in Sale : sentDB' = {p}

-----------------------------------------------------------------------------
(* The room's handlers.                                                    *)

\* What the room sends short of a sale is a notice: answers and the shop's end,
\* to one user or to many, one packet after another.
LEMMA NoticeTypes ==
  /\ \A ok \in BOOLEAN : /\ Ack("OPEN_ACK", ok) \in Notice
                         /\ Ack("REG_ACK", ok) \in Notice
                         /\ Ack("JOIN_ACK", ok) \in Notice
                         /\ Ack("BREAK_ACK", ok) \in Notice
                         /\ Ack("LEAVE_ACK", ok) \in Notice
                         /\ Ack("BUY_ACK", ok) \in Notice
  /\ BreakNot \in Notice
  /\ Silence \in [Units -> Seq(Notice)]
  /\ \A u \in Units, m \in Notice : To(u, m) \in [Units -> Seq(Notice)]
  /\ \A us : \A m \in Notice : Broadcast(us, m) \in [Units -> Seq(Notice)]
  /\ \A f, g \in [Units -> Seq(Notice)] : Then(f, g) \in [Units -> Seq(Notice)]
<1>1. /\ \A ok \in BOOLEAN : /\ Ack("OPEN_ACK", ok) \in Notice
                             /\ Ack("REG_ACK", ok) \in Notice
                             /\ Ack("JOIN_ACK", ok) \in Notice
                             /\ Ack("BREAK_ACK", ok) \in Notice
                             /\ Ack("LEAVE_ACK", ok) \in Notice
                             /\ Ack("BUY_ACK", ok) \in Notice
      /\ BreakNot \in Notice
  BY DEF Ack, BreakNot, Notice
<1> QED
  BY <1>1, MailOf

\* Who is the seller after an entry or a departure.
LEMMA HostsAre ==
  /\ HostsOf(Nobody) = {}
  /\ \A us, leavers : HostsOf(Without(us, leavers)) \subseteq HostsOf(us)
  /\ \A us, u, gs : HostsOf(Entered(us, u, gs))
                      \subseteq HostsOf(us) \cup {v \in {u} : DOMAIN us = {}}
  /\ Hosts = HostsOf(users)
<1>1. HostsOf(Nobody) = {}
  BY DEF HostsOf, Nobody
<1>2. ASSUME NEW us, NEW leavers PROVE HostsOf(Without(us, leavers)) \subseteq HostsOf(us)
  BY DEF HostsOf, Without
<1>3. ASSUME NEW us, NEW u, NEW gs
      PROVE  HostsOf(Entered(us, u, gs)) \subseteq HostsOf(us) \cup {v \in {u} : DOMAIN us = {}}
  <2> SUFFICES ASSUME NEW v \in HostsOf(Entered(us, u, gs)), v \notin HostsOf(us)
               PROVE  v = u /\ DOMAIN us = {}
    OBVIOUS
  <2>1. v \in DOMAIN us \cup {u} /\ Entered(us, u, gs)[v].host
    BY DEF HostsOf, Entered
  <2>2. CASE v = u
    BY <2>1, <2>2 DEF Entered
  <2>3. CASE v # u
    BY <2>1, <2>3 DEF Entered, HostsOf
  <2> QED
    BY <2>2, <2>3
<1> QED
  BY <1>1, <1>2, <1>3 DEF Hosts, HostsOf, Members

\* A handler that answers, and at most takes members out.
LEMMA ReplySends ==
  ASSUME RoomIsSound, NEW us, HostsOf(us) \subseteq Sellers,
         NEW notices \in [Units -> Seq(Notice)], Reply(us, notices), Safe'
  PROVE  RoomIsSound' /\ SendsNotices
BY DEF RoomIsSound, SendsNotices, Reply, HostsOf

\* A refusal is an answer to the one who asked.
LEMMA RefuseSends ==
  ASSUME RoomIsSound, NEW u \in Units,
         NEW type \in {"OPEN_ACK", "REG_ACK", "JOIN_ACK", "BREAK_ACK", "LEAVE_ACK", "BUY_ACK"},
         Refuse(u, type), Safe'
  PROVE  RoomIsSound' /\ SendsNotices
<1>1. To(u, Ack(type, FALSE)) \in [Units -> Seq(Notice)]
  BY NoticeTypes
<1> QED
  BY <1>1, ReplySends DEF Refuse, RoomIsSound

\* A shop that closes tells everybody in it, and hosts nobody new.
LEMMA BreakSends ==
  ASSUME RoomIsSound, NEW us, HostsOf(us) \subseteq Sellers,
         NEW before \in [Units -> Seq(Notice)], BreakPersonalShop(us, before),
         UNCHANGED goods, Safe'
  PROVE  RoomIsSound' /\ SendsNotices
<1>1. sent' \in [Units -> Seq(Notice)]
  BY NoticeTypes DEF BreakPersonalShop
<1> QED
  BY <1>1 DEF RoomIsSound, SendsNotices, BreakPersonalShop, HostsOf

\* The room does nothing.
LEMMA IgnoreSends ==
  ASSUME RoomIsSound, Ignore
  PROVE  RoomIsSound' /\ SendsNotices
<1>1. Safe'
  BY ReplyKeepsSafe, MailTypes DEF Ignore, RoomIsSound, Safe
<1> QED
  BY <1>1, ReplySends, NoticeTypes DEF Ignore, RoomIsSound

\* The room's handlers, one by one: each leaves the room's invariant standing,
\* lets nobody but a seller host, and sends notices only.  ERM_OPEN_PERSONAL_SHOP:
LEMMA OpenSends ==
  ASSUME RoomIsSound, NEW u \in Sellers, OpenReq(u, u, TRUE)
  PROVE  RoomIsSound' /\ SendsNotices
<1>0. u \in Units /\ u \in Servers
  BY SystemAssumption
<1>1. Safe'
  BY <1>0, OpenStep DEF RoomIsSound
<1>2. CASE Refuse(u, "OPEN_ACK")
  BY <1>0, <1>1, <1>2, RefuseSends
<1>3. CASE /\ users' = Entered(Nobody, u, u)
           /\ sent' = To(u, Ack("OPEN_ACK", TRUE))
           /\ sentDB' = {}
           /\ UNCHANGED <<goods, ghosts>>
  <2>1. HostsOf(users') \subseteq Sellers
    BY <1>3, HostsAre
  <2>2. sent' \in [Units -> Seq(Notice)]
    BY <1>0, <1>3, NoticeTypes
  <2> QED
    BY <1>1, <1>3, <2>1, <2>2 DEF RoomIsSound, SendsNotices, HostsOf
<1> QED
  BY <1>2, <1>3 DEF OpenReq

\* ERM_REG_PERSONAL_SHOP_ITEM: the packet may be answered twice.
LEMMA ListSends ==
  ASSUME RoomIsSound, NEW u \in Units, NEW list \in Lists, RegReq(u, list, TRUE)
  PROVE  RoomIsSound' /\ SendsNotices
<1>1. Safe'
  BY ListStep DEF RoomIsSound
<1>2. /\ To(u, Ack("REG_ACK", FALSE)) \in [Units -> Seq(Notice)]
      /\ To(u, Ack("REG_ACK", TRUE)) \in [Units -> Seq(Notice)]
  BY NoticeTypes
<1>3. CASE Refuse(u, "REG_ACK")
  BY <1>1, <1>3, RefuseSends
<1>4. CASE Reply(users, Then(To(u, Ack("REG_ACK", FALSE)), To(u, Ack("REG_ACK", FALSE))))
  <2>1. Then(To(u, Ack("REG_ACK", FALSE)), To(u, Ack("REG_ACK", FALSE))) \in [Units -> Seq(Notice)]
    BY <1>2, NoticeTypes
  <2> QED
    BY <1>1, <1>4, <2>1, ReplySends DEF RoomIsSound
<1>5. CASE /\ sent' = To(u, Ack("REG_ACK", FALSE)) /\ sentDB' = {}
           /\ UNCHANGED <<users, goods, waitOver, ghosts>>
  BY <1>1, <1>2, <1>5 DEF RoomIsSound, SendsNotices, HostsOf
<1>6. CASE /\ goods' = list
           /\ sent' = To(u, Ack("REG_ACK", TRUE)) /\ sentDB' = {}
           /\ UNCHANGED <<users, waitOver>>
  <2>1. \A i \in DOMAIN list : i \notin Stackable => 1 \in Quantities
    BY DEF Lists
  <2> QED
    BY <1>1, <1>2, <1>6, <2>1 DEF RoomIsSound, SendsNotices, HostsOf
<1> QED
  BY <1>3, <1>4, <1>5, <1>6 DEF RegReq

\* ERM_JOIN_PERSONAL_SHOP.
LEMMA JoinSends ==
  ASSUME RoomIsSound, NEW u \in Units, JoinReq(u, u, TRUE)
  PROVE  RoomIsSound' /\ SendsNotices
<1>0. u \in Servers
  BY SystemAssumption
<1>1. Safe'
  BY <1>0, JoinStep DEF RoomIsSound
<1>2. CASE Refuse(u, "JOIN_ACK")
  BY <1>1, <1>2, RefuseSends
<1>3. CASE MayJoin(u, TRUE) /\ Reply(Entered(users, u, u), To(u, Ack("JOIN_ACK", TRUE)))
  <2>1. DOMAIN users # {}
    BY <1>3 DEF MayJoin, Hosts, Members
  <2>2. HostsOf(Entered(users, u, u)) \subseteq Sellers
    BY <2>1, HostsAre DEF RoomIsSound
  <2>3. To(u, Ack("JOIN_ACK", TRUE)) \in [Units -> Seq(Notice)]
    BY NoticeTypes
  <2> QED
    BY <1>1, <1>3, <2>2, <2>3, ReplySends
<1> QED
  BY <1>2, <1>3 DEF JoinReq

\* ERM_BREAK_PERSONAL_SHOP, asked for by a user or on his behalf.
LEMMA BreakReqSends ==
  ASSUME RoomIsSound, NEW u \in Units, NEW quietly \in BOOLEAN, BreakReq(u, quietly)
  PROVE  RoomIsSound' /\ SendsNotices
<1> DEFINE answer == IF quietly THEN Silence ELSE To(u, Ack("BREAK_ACK", TRUE))
<1>1. Safe'
  BY BreakStep DEF RoomIsSound
<1>2. answer \in [Units -> Seq(Notice)]
  BY NoticeTypes
<1>3. HostsOf(Without(users, {u})) \subseteq Sellers
  BY HostsAre DEF RoomIsSound
<1>4. CASE Refuse(u, "BREAK_ACK")
  BY <1>1, <1>4, RefuseSends
<1>5. CASE Reply(Without(users, {u}), answer)
  BY <1>1, <1>2, <1>3, <1>5, ReplySends
<1>6. CASE BreakPersonalShop(Without(users, {u}), answer) /\ UNCHANGED goods
  BY <1>1, <1>2, <1>3, <1>6, BreakSends
<1> QED
  BY <1>4, <1>5, <1>6 DEF BreakReq

\* ERM_LEAVE_PERSONAL_SHOP: the host's leave closes the shop.
LEMMA LeaveSends ==
  ASSUME RoomIsSound, NEW u \in Units, LeaveReq(u)
  PROVE  RoomIsSound' /\ SendsNotices
<1>1. Safe'
  BY LeaveStep DEF RoomIsSound
<1>2. CASE Refuse(u, "LEAVE_ACK")
  BY <1>1, <1>2, RefuseSends
<1>3. CASE BreakPersonalShop(users, Silence) /\ UNCHANGED goods
  BY <1>1, <1>3, BreakSends, NoticeTypes DEF RoomIsSound
<1>4. CASE /\ users' = Without(users, {u})
           /\ sent' = To(u, Ack("LEAVE_ACK", TRUE)) /\ sentDB' = {}
           /\ UNCHANGED <<goods, waitOver, ghosts>>
  <2>1. HostsOf(users') \subseteq Sellers
    BY <1>4, HostsAre DEF RoomIsSound
  <2>2. sent' \in [Units -> Seq(Notice)]
    BY <1>4, NoticeTypes
  <2> QED
    BY <1>1, <1>4, <2>1, <2>2 DEF RoomIsSound, SendsNotices, HostsOf
<1> QED
  BY <1>2, <1>3, <1>4 DEF LeaveReq

\* ERM_BUY_PERSONAL_SHOP_ITEM: a purchase is confirmed with the host first.
LEMMA BuySends ==
  ASSUME RoomIsSound, NEW u \in Buyers, NEW i \in Items, NEW quantity \in Quantities,
         NEW ed, BuyReq(u, i, quantity, ed, TRUE)
  PROVE  RoomIsSound' /\ SendsNotices
<1>0. u \in Units
  BY DEF Buyers
<1>1. Safe'
  BY <1>0, BuyStep DEF RoomIsSound
<1>2. CASE Refuse(u, "BUY_ACK")
  BY <1>0, <1>1, <1>2, RefuseSends
<1>3. CASE CanBuy(u, i, quantity, ed)
           /\ \E host \in Hosts : Reply(users, To(host, ConfirmReq(u, i, quantity)))
  <2>1. PICK host \in Hosts : Reply(users, To(host, ConfirmReq(u, i, quantity)))
    BY <1>3
  <2>2. host \in Units /\ goods[i] \in Nat
    BY <1>3 DEF Hosts, Members, RoomIsSound, Safe, Room, Listing, CanBuy
  <2>3. ConfirmReq(u, i, quantity) \in Notice
    BY <2>2 DEF ConfirmReq, Notice
  <2>4. To(host, ConfirmReq(u, i, quantity)) \in [Units -> Seq(Notice)]
    BY <2>2, <2>3, NoticeTypes
  <2> QED
    BY <1>1, <2>1, <2>4, ReplySends DEF RoomIsSound
<1> QED
  BY <1>2, <1>3 DEF BuyReq

\* The one handler that orders: the seller is the host, and what is ordered is
\* what was asked for, or one piece of a single item, which is on the list.
LEMMA ConfirmSends ==
  ASSUME RoomIsSound, NEW u \in Units, NEW buyer \in Buyers, NEW i \in Items,
         NEW quantity \in Quantities, NEW ok \in BOOLEAN,
         ConfirmAck(u, buyer, i, quantity, ok)
  PROVE  RoomIsSound' /\ SendsNotices
<1> DEFINE pieces == Pieces(i, quantity)
           left == goods[i] - pieces
           yes == To(buyer, Ack("BUY_ACK", TRUE))
<1>0. buyer \in Units
  BY DEF Buyers
<1>1. Safe'
  BY <1>0, ConfirmStep DEF RoomIsSound
<1>2. CASE Refuse(u, "BUY_ACK") \/ Refuse(buyer, "BUY_ACK")
  BY <1>0, <1>1, <1>2, RefuseSends
<1>3. CASE Ignore
  BY <1>3, IgnoreSends
<1>4. CASE /\ EnoughLeft(i, quantity)
           /\ goods' = [goods EXCEPT ![i] = IF left <= 0 THEN 0 ELSE left]
           /\ sent' = Then(yes, yes)
           /\ \E host \in Hosts :
                sentDB' = {[seller |-> host, buyer |-> buyer, item |-> i, quantity |-> pieces]}
           /\ UNCHANGED <<fsm, users, waitOver, listed>>
  <2>1. pieces \in Quantities
    BY <1>4 DEF Pieces, RoomIsSound, EnoughLeft
  <2>2. sent' \in [Units -> Seq(Notice)]
    BY <1>0, <1>4, NoticeTypes
  <2>3. PICK host \in Hosts :
          sentDB' = {[seller |-> host, buyer |-> buyer, item |-> i, quantity |-> pieces]}
    BY <1>4
  <2>4. host \in Sellers
    BY HostsAre DEF RoomIsSound
  <2>5. [seller |-> host, buyer |-> buyer, item |-> i, quantity |-> pieces] \in Sale
    BY <2>1, <2>4 DEF Sale
  <2>6. DOMAIN goods' = DOMAIN goods
    BY <1>4
  <2> HIDE DEF pieces
  <2> QED
    BY <1>1, <1>4, <2>2, <2>3, <2>5, <2>6 DEF RoomIsSound, SendsNotices, HostsOf
<1> QED
  BY <1>2, <1>3, <1>4 DEF ConfirmAck

\* The manager's tick.
LEMMA TickSends ==
  ASSUME RoomIsSound, Tick
  PROVE  RoomIsSound' /\ SendsNotices
<1>1. Safe'
  BY TickStep DEF RoomIsSound
<1>2. CASE CloseRoom
  <2>1. HostsOf(users') = {} /\ DOMAIN goods' = {}
    BY <1>2, HostsAre DEF CloseRoom, Nothing
  <2> QED
    BY <1>1, <1>2, <2>1, NoticeTypes DEF CloseRoom, RoomIsSound, SendsNotices, HostsOf
<1>3. CASE GiveUpWaiting
  BY <1>1, <1>3, BreakSends, NoticeTypes DEF GiveUpWaiting, RoomIsSound
<1> QED
  BY <1>2, <1>3 DEF Tick

\* Whatever a game server sends, the room stays sound and answers with notices.
LEMMA HandleSends ==
  ASSUME RoomIsSound, NEW u \in Units, NEW m \in UpMessage(u), Handle(u, m)
  PROVE  RoomIsSound' /\ SendsNotices
<1>1. CASE m.type = "OPEN" /\ OpenReq(u, u, TRUE)
  <2>1. u \in Sellers
    BY <1>1 DEF UpMessage
  <2> QED
    BY <1>1, <2>1, OpenSends
<1>2. CASE m.type = "REG" /\ RegReq(u, m.list, TRUE)
  <2>1. m.list \in Lists
    BY <1>2 DEF UpMessage
  <2> QED
    BY <1>2, <2>1, ListSends
<1>3. CASE m.type = "JOIN" /\ JoinReq(u, u, TRUE)
  BY <1>3, JoinSends
<1>4. CASE m.type = "BREAK" /\ BreakReq(u, m.quietly)
  <2>1. m.quietly \in BOOLEAN
    BY <1>4 DEF UpMessage
  <2> QED
    BY <1>4, <2>1, BreakReqSends
<1>5. CASE m.type = "LEAVE" /\ LeaveReq(u)
  BY <1>5, LeaveSends
<1>6. CASE m.type = "BUY" /\ BuyReq(u, m.item, m.quantity, m.ed, TRUE)
  <2>1. u \in Buyers /\ m.item \in Items /\ m.quantity \in Quantities
    BY <1>6 DEF UpMessage
  <2> QED
    BY <1>6, <2>1, BuySends
<1>7. CASE m.type = "CONFIRM_ACK" /\ ConfirmAck(u, m.buyer, m.item, m.quantity, m.ok)
  <2>1. /\ m.buyer \in Buyers /\ m.item \in Items /\ m.quantity \in Quantities
        /\ m.ok \in BOOLEAN
    BY <1>7 DEF UpMessage
  <2> QED
    BY <1>7, <2>1, ConfirmSends
<1> QED
  BY <1>1, <1>2, <1>3, <1>4, <1>5, <1>6, <1>7 DEF Handle

-----------------------------------------------------------------------------
(* The game servers.                                                       *)

\* What is asked for is an item of a sale, and sellers ask for nothing.
WishIsSound(u, x) ==
  /\ x.wish \subseteq [item : Items, quantity : Quantities, ed : Int]
  /\ u \in Sellers => x.wish = {}

UsersAreSound ==
  /\ user \in [Units -> GS!User]
  /\ \A u \in Units : WishIsSound(u, user[u])
  /\ \A u \in Units \ lacking, i \in Items : user[u].held[i] >= 0
UpIsSound == DOMAIN up = Units /\ \A u \in Units : up[u] \in Seq(UpMessage(u))
DownIsSound == down \in [Units -> Seq(DownMessage)]

\* Prices are natural numbers, and so are quantities.
LEMMA CostType ==
  ASSUME NEW p \in Sale
  PROVE  /\ GS!Cost(p) \in Int /\ p.quantity \in Nat /\ p.item \in Items
         /\ p.seller \in Units /\ p.buyer \in Units /\ p.seller # p.buyer
<1>1. p.quantity \in Nat /\ p.item \in Items /\ Price[p.item] \in Nat
  BY AmountAssumption DEF Sale
<1>2. GS!Cost(p) \in Int
  BY <1>1 DEF GS!Cost
<1> QED
  BY <1>1, <1>2, SystemAssumption DEF Sale, Buyers

\* What a flush, a write and a sale make of a unit.
LEMMA FlushTypes ==
  ASSUME NEW x \in GS!User
  PROVE  /\ GS!Flushed(x) \in GS!User /\ GS!Flushed(x).wish = x.wish
         /\ GS!Flushed(x).held = x.held /\ GS!Flushed(x).heldInit = x.held
         /\ GS!Flushed(x).ed = x.ed /\ GS!Flushed(x).init = x.ed
         /\ GS!Flushed(x).writes = x.writes /\ GS!Flushed(x).online = x.online
BY DEF GS!Flushed, GS!User

\* A write keeps what the user has and wishes; it moves the DB's image of it on
\* to what the unit has now and queues the difference.
LEMMA WriteTypes ==
  ASSUME NEW x \in GS!User, NEW buy \in BOOLEAN
  PROVE  /\ GS!WriteUnitInfo(x, buy) \in GS!User
         /\ GS!WriteUnitInfo(x, buy).wish = x.wish
         /\ GS!WriteUnitInfo(x, buy).held = x.held
         /\ GS!WriteUnitInfo(x, buy).heldInit = x.held
         /\ GS!WriteUnitInfo(x, buy).init = x.ed
         /\ GS!WriteUnitInfo(x, buy).online = x.online
         /\ GS!WriteUnitInfo(x, buy).writes = Append(x.writes, GS!Change(x, buy))
         /\ GS!Change(x, buy) \in GS!Write
<1>1. GS!Change(x, buy) \in GS!Write
  BY DEF GS!Change, GS!Write, GS!User
<1>2. Append(x.writes, GS!Change(x, buy)) \in Seq(GS!Write)
  BY <1>1 DEF GS!User
<1> HIDE DEF GS!Change
<1> QED
  BY <1>1, <1>2, FlushTypes DEF GS!WriteUnitInfo, GS!User

\* The two parts of a write that fails in part make up the whole.
LEMMA PartsAre ==
  ASSUME NEW w \in GS!Write, NEW ed \in Int, NEW some \in SUBSET Items
  PROVE  LET failed == GS!Part(w, ed, some)
             arrived == GS!Part(w, w.ed - ed, Items \ some)
         IN /\ failed \in GS!Write /\ arrived \in GS!Write
            /\ w.ed = arrived.ed + failed.ed
            /\ \A i \in Items : w.held[i] = arrived.held[i] + failed.held[i]
<1>1. w.ed \in Int /\ w.held \in [Items -> Int] /\ w.gone \in SUBSET Items /\ w.buy \in BOOLEAN
  BY DEF GS!Write
<1>2. ASSUME NEW e \in Int, NEW is \in SUBSET Items
      PROVE  /\ GS!Part(w, e, is) \in GS!Write /\ GS!Part(w, e, is).ed = e
             /\ \A i \in Items : GS!Part(w, e, is).held[i] = IF i \in is THEN w.held[i] ELSE 0
  BY <1>1 DEF GS!Part, GS!Write
<1>3. Items \ some \in SUBSET Items
  BY Zenon
<1>4. w.ed - ed \in Int /\ w.ed = (w.ed - ed) + ed
  BY <1>1
<1> QED
  BY <1>1, <1>2, <1>3, <1>4

\* What a failed write leaves behind.  The ED is taken back, and so is each item
\* that is still there or whose deletion failed.  An item that a later write
\* deletes makes that write, and no other, longer by what has failed.
LEMMA UnwrittenIs ==
  ASSUME NEW x \in GS!User, NEW w \in GS!Write
  PROVE  LET y == GS!Unwritten(x, w)
             deleted == GS!Deleted(x, w)
         IN /\ y \in GS!User /\ y.wish = x.wish /\ y.held = x.held /\ y.online = x.online
            /\ y.init = x.init - w.ed
            /\ \A i \in Items :
                 y.heldInit[i] = IF i \in deleted \cup GS!Lost(x, w) THEN x.heldInit[i]
                                 ELSE x.heldInit[i] - w.held[i]
            /\ Len(y.writes) = Len(x.writes)
            /\ \A n \in 1..Len(x.writes) : y.writes[n].ed = x.writes[n].ed
            /\ \A i \in Items \ deleted : \A n \in 1..Len(x.writes) :
                 y.writes[n].held[i] = x.writes[n].held[i]
            /\ \A i \in deleted : \E m \in 1..Len(x.writes) :
                 /\ y.writes[m].held[i] = x.writes[m].held[i] + w.held[i]
                 /\ \A n \in 1..Len(x.writes) \ {m} : y.writes[n].held[i] = x.writes[n].held[i]
<1> DEFINE deleted == GS!Deleted(x, w)
           kept == deleted \cup GS!Lost(x, w)
           by == [i \in deleted |-> CHOOSE n \in GS!Deletions(x, i) : TRUE]
           More(n, i) == IF i \in deleted /\ by[i] = n THEN w.held[i] ELSE 0
           init == x.init - w.ed
           heldInit == [i \in Items |-> IF i \in kept THEN x.heldInit[i]
                                        ELSE x.heldInit[i] - w.held[i]]
           Longer(n) == [x.writes[n] EXCEPT !.held = [i \in Items |-> @[i] + More(n, i)]]
           writes == [n \in DOMAIN x.writes |-> Longer(n)]
           y == [x EXCEPT !.init = init, !.heldInit = heldInit, !.writes = writes]
<1>1. GS!Unwritten(x, w) = y
  BY DEF GS!Unwritten
<1>2. /\ x.init \in Int /\ x.heldInit \in [Items -> Int] /\ x.writes \in Seq(GS!Write)
      /\ w.ed \in Int /\ w.held \in [Items -> Int]
  BY DEF GS!User, GS!Write
<1>3. Len(x.writes) \in Nat /\ DOMAIN x.writes = 1..Len(x.writes)
  BY <1>2
<1>a. \A n \in 1..Len(x.writes), i \in Items : x.writes[n].held[i] \in Int
  <2> SUFFICES ASSUME NEW n \in 1..Len(x.writes), NEW i \in Items
               PROVE  x.writes[n].held[i] \in Int
    OBVIOUS
  <2>1. x.writes[n] \in GS!Write
    BY <1>2
  <2> QED
    BY <2>1 DEF GS!Write
<1>4. init \in Int /\ heldInit \in [Items -> Int]
  BY <1>2
<1>5. ASSUME NEW i \in deleted
      PROVE  by[i] \in 1..Len(x.writes) /\ i \in Items
  <2>1. GS!Deletions(x, i) # {} /\ i \in Items
    BY DEF GS!Deleted
  <2> QED
    BY <1>3, <2>1 DEF GS!Deletions
<1>6. ASSUME NEW n, NEW i \in Items PROVE More(n, i) \in Int
  BY <1>2
<1>7. ASSUME NEW n \in 1..Len(x.writes)
      PROVE  /\ Longer(n) \in GS!Write /\ Longer(n).ed = x.writes[n].ed
             /\ \A i \in Items : Longer(n).held[i] = x.writes[n].held[i] + More(n, i)
  <2> DEFINE c == x.writes[n]
             held == [i \in Items |-> c.held[i] + More(n, i)]
  <2>1. c \in GS!Write
    BY <1>2
  <2>2. c.held \in [Items -> Int]
    BY <2>1 DEF GS!Write
  <2> HIDE DEF c, More
  <2>3. held \in [Items -> Int]
    BY <1>6, <2>2
  <2>4. ASSUME NEW h \in [Items -> Int]
        PROVE  LET z == [c EXCEPT !.held = h]
               IN z \in GS!Write /\ z.ed = c.ed /\ z.held = h
    BY <2>1 DEF GS!Write
  <2>5. Longer(n) = [c EXCEPT !.held = held]
    BY DEF c
  <2> HIDE DEF Longer
  <2>6. Longer(n) \in GS!Write /\ Longer(n).ed = c.ed /\ Longer(n).held = held
    BY <2>3, <2>4, <2>5
  <2> QED
    BY <2>6 DEF c
<1> HIDE DEF Longer
<1>8. writes \in Seq(GS!Write) /\ Len(writes) = Len(x.writes)
      /\ \A n \in 1..Len(x.writes) : writes[n] = Longer(n)
  <2>1. writes \in [1..Len(x.writes) -> GS!Write]
    BY <1>3, <1>7
  <2>2. writes \in Seq(GS!Write)
    BY <1>3, <2>1
  <2>3. Len(writes) \in Nat /\ DOMAIN writes = 1..Len(writes) /\ DOMAIN writes = 1..Len(x.writes)
    BY <2>1, <2>2
  <2>4. Len(writes) = Len(x.writes)
    BY ONLY <1>3, <2>3
  <2> QED
    BY <1>3, <2>2, <2>4
<1> HIDE DEF init, heldInit, writes
<1>9. /\ y \in GS!User /\ y.wish = x.wish /\ y.held = x.held /\ y.online = x.online
      /\ y.init = init /\ y.heldInit = heldInit /\ y.writes = writes
  BY <1>4, <1>8 DEF GS!User
<1> HIDE DEF y
<1>10. ASSUME NEW i \in Items \ deleted, NEW n \in 1..Len(x.writes)
       PROVE  writes[n].held[i] = x.writes[n].held[i]
  <2>1. More(n, i) = 0
    OBVIOUS
  <2> HIDE DEF More
  <2>2. writes[n].held[i] = x.writes[n].held[i] + 0
    BY <1>7, <1>8, <2>1
  <2> QED
    BY <1>a, <2>2
<1>11. ASSUME NEW i \in deleted
       PROVE  \E m \in 1..Len(x.writes) :
                /\ writes[m].held[i] = x.writes[m].held[i] + w.held[i]
                /\ \A n \in 1..Len(x.writes) \ {m} : writes[n].held[i] = x.writes[n].held[i]
  <2> DEFINE m == by[i]
  <2>1. m \in 1..Len(x.writes) /\ i \in Items
    BY <1>5
  <2>2. More(m, i) = w.held[i] /\ \A n : n # m => More(n, i) = 0
    OBVIOUS
  <2> HIDE DEF m, More
  <2>3. writes[m].held[i] = x.writes[m].held[i] + w.held[i]
    BY <1>7, <1>8, <2>1, <2>2
  <2>4. ASSUME NEW n \in 1..Len(x.writes) \ {m} PROVE writes[n].held[i] = x.writes[n].held[i]
    <3>1. writes[n].held[i] = x.writes[n].held[i] + 0
      BY <1>7, <1>8, <2>1, <2>2
    <3> QED
      BY <1>a, <2>1, <3>1
  <2> QED
    BY <2>1, <2>3, <2>4
<1>12. \A i \in Items : heldInit[i] = IF i \in kept THEN x.heldInit[i]
                                     ELSE x.heldInit[i] - w.held[i]
  BY DEF heldInit
<1>13. \A n \in 1..Len(x.writes) : writes[n].ed = x.writes[n].ed
  BY <1>7, <1>8
<1> HIDE DEF deleted
<1> QED
  BY <1>1, <1>8, <1>9, <1>10, <1>11, <1>12, <1>13 DEF init, deleted

\* Carrying a sale out in memory wishes for nothing, and takes the seller's
\* pieces to no less than none.
LEMMA SaleTypes ==
  ASSUME NEW x \in GS!User, NEW p \in Sale
  PROVE  /\ GS!Sold(x, p) \in GS!User /\ GS!Bought(x, p) \in GS!User
         /\ GS!Sold(x, p).wish = x.wish /\ GS!Bought(x, p).wish = x.wish
         /\ \A i \in Items : x.held[i] >= 0 => /\ GS!Sold(x, p).held[i] >= 0
                                               /\ GS!Bought(x, p).held[i] >= 0
<1> DEFINE cost == GS!Cost(p)
           fewer == [x.held EXCEPT ![p.item] = GS!Fewer(@, p.quantity)]
           more == [x.held EXCEPT ![p.item] = @ + p.quantity]
           sold == [x EXCEPT !.ed = @ + cost, !.held = fewer]
           bought == [x EXCEPT !.ed = @ - cost, !.held = more]
<1>1. cost \in Int /\ p.quantity \in Nat /\ p.item \in Items
  BY CostType
<1>2. x.ed \in Int /\ x.held \in [Items -> Int]
  BY DEF GS!User
<1> HIDE DEF cost
<1>3. GS!Fewer(x.held[p.item], p.quantity) \in Int
      /\ (x.held[p.item] >= 0 => GS!Fewer(x.held[p.item], p.quantity) >= 0)
  BY <1>1, <1>2 DEF GS!Fewer
<1>4. /\ fewer \in [Items -> Int] /\ \A i \in Items : x.held[i] >= 0 => fewer[i] >= 0
      /\ more \in [Items -> Int] /\ \A i \in Items : x.held[i] >= 0 => more[i] >= 0
  BY <1>1, <1>2, <1>3
<1>5. GS!Sold(x, p) = GS!Flushed(sold) /\ GS!Bought(x, p) = GS!Flushed(bought)
  BY DEF GS!Sold, GS!Bought, cost
<1> HIDE DEF fewer, more
<1>6. ASSUME NEW ed \in Int, NEW held \in [Items -> Int]
      PROVE  LET y == [x EXCEPT !.ed = ed, !.held = held]
             IN y \in GS!User /\ y.wish = x.wish /\ y.held = held
  BY DEF GS!User
<1>7. x.ed + cost \in Int /\ x.ed - cost \in Int
  BY <1>1, <1>2
<1>8. /\ sold \in GS!User /\ sold.wish = x.wish /\ sold.held = fewer
      /\ bought \in GS!User /\ bought.wish = x.wish /\ bought.held = more
  BY <1>4, <1>6, <1>7
<1> HIDE DEF sold, bought
<1> QED
  BY <1>4, <1>5, <1>8, FlushTypes

\* One unit changes.
LEMMA OneUserChanges ==
  ASSUME UsersAreSound, UNCHANGED lacking, NEW u \in Units, NEW x \in GS!User,
         WishIsSound(u, x), u \notin lacking => \A i \in Items : x.held[i] >= 0,
         user' = [user EXCEPT ![u] = x]
  PROVE  UsersAreSound'
<1>1. user' \in [Units -> GS!User]
  BY DEF UsersAreSound
<1>2. user'[u] = x /\ \A v \in Units \ {u} : user'[v] = user[v]
  BY DEF UsersAreSound
<1> QED
  BY <1>1, <1>2 DEF UsersAreSound, WishIsSound

\* One unit changes, but not what it holds or wishes for.
LEMMA OneUserKeeps ==
  ASSUME UsersAreSound, UNCHANGED lacking, NEW u \in Units, NEW x \in GS!User,
         x.wish = user[u].wish, x.held = user[u].held, user' = [user EXCEPT ![u] = x]
  PROVE  UsersAreSound'
<1>1. WishIsSound(u, x)
  BY DEF UsersAreSound, WishIsSound
<1>2. u \notin lacking => \A i \in Items : x.held[i] >= 0
  BY DEF UsersAreSound
<1> QED
  BY <1>1, <1>2, OneUserChanges

\* One packet more for the room.
LEMMA OneMoreUp ==
  ASSUME UpIsSound, NEW u \in Units, NEW m \in UpMessage(u),
         \/ up' = [up EXCEPT ![u] = Append(@, m)]
         \/ GS!ToShop(u, m)
         \/ UNCHANGED up
  PROVE  UpIsSound'
<1>1. Append(up[u], m) \in Seq(UpMessage(u))
  BY DEF UpIsSound
<1>2. DOMAIN up' = Units /\ \A v \in Units : up'[v] = up[v] \/ (v = u /\ up'[v] = Append(up[u], m))
  BY DEF UpIsSound, GS!ToShop
<1> QED
  BY <1>1, <1>2 DEF UpIsSound

\* One packet of the room less.
LEMMA OneLessDown ==
  ASSUME DownIsSound, NEW u \in Units, down[u] # <<>>, down' = [down EXCEPT ![u] = Tail(@)]
  PROVE  DownIsSound' /\ Head(down[u]) \in DownMessage
<1>1. Tail(down[u]) \in Seq(DownMessage) /\ Head(down[u]) \in DownMessage
  BY DEF DownIsSound
<1> QED
  BY <1>1 DEF DownIsSound

-----------------------------------------------------------------------------
(* The game servers' steps.                                                *)

ServersAreSound == UsersAreSound /\ UpIsSound /\ DownIsSound

\* Packets that a unit's game server may send at any time.
LEMMA PlainPackets ==
  ASSUME NEW u \in Units
  PROVE  /\ u \in Sellers => GS!Plain("OPEN") \in UpMessage(u)
         /\ GS!Plain("JOIN") \in UpMessage(u) /\ GS!Plain("LEAVE") \in UpMessage(u)
         /\ \A quietly \in BOOLEAN : [type |-> "BREAK", quietly |-> quietly] \in UpMessage(u)
         /\ \A list \in Lists : [type |-> "REG", list |-> list] \in UpMessage(u)
BY DEF GS!Plain, UpMessage

\* Requests that go straight to the room keep the game server's types.
LEMMA RequestTypes ==
  ASSUME ServersAreSound, UNCHANGED lacking, NEW u \in Units,
         \/ u \in Sellers /\ GS!OpenShop(u)
         \/ \E list \in Lists : GS!RegItems(u, list)
         \/ GS!BreakShop(u) \/ GS!JoinShop(u) \/ GS!LeaveShop(u)
  PROVE  ServersAreSound'
<1>1. CASE u \in Sellers /\ GS!OpenShop(u)
  <2>1. UpIsSound'
    BY <1>1, PlainPackets, OneMoreUp DEF GS!OpenShop, ServersAreSound
  <2> QED
    BY <1>1, <2>1 DEF GS!OpenShop, ServersAreSound, UsersAreSound, WishIsSound, DownIsSound
<1>2. ASSUME NEW list \in Lists, GS!RegItems(u, list) PROVE ServersAreSound'
  <2>1. UpIsSound'
    BY <1>2, PlainPackets, OneMoreUp DEF GS!RegItems, GS!Relay, ServersAreSound
  <2> QED
    BY <1>2, <2>1 DEF GS!RegItems, GS!Relay, ServersAreSound, UsersAreSound, WishIsSound,
                      DownIsSound
<1>3. CASE GS!BreakShop(u)
  <2>1. UpIsSound'
    BY <1>3, PlainPackets, OneMoreUp DEF GS!BreakShop, GS!Relay, ServersAreSound
  <2> QED
    BY <1>3, <2>1 DEF GS!BreakShop, GS!Relay, ServersAreSound, UsersAreSound, WishIsSound,
                      DownIsSound
<1>4. CASE GS!LeaveShop(u)
  <2>1. UpIsSound'
    BY <1>4, PlainPackets, OneMoreUp DEF GS!LeaveShop, GS!Relay, ServersAreSound
  <2> QED
    BY <1>4, <2>1 DEF GS!LeaveShop, GS!Relay, ServersAreSound, UsersAreSound, WishIsSound,
                      DownIsSound
<1>5. CASE GS!JoinShop(u)
  <2>1. UpIsSound'
    BY <1>5, PlainPackets, OneMoreUp DEF GS!JoinShop, ServersAreSound
  <2> DEFINE x == [user[u] EXCEPT !.shopping = TRUE]
  <2>2. user' = [user EXCEPT ![u] = x]
    BY <1>5 DEF GS!JoinShop
  <2>3. x \in GS!User /\ x.wish = user[u].wish /\ x.held = user[u].held
    BY DEF ServersAreSound, UsersAreSound, GS!User
  <2> HIDE DEF x
  <2>4. UsersAreSound'
    BY <2>2, <2>3, OneUserKeeps DEF ServersAreSound
  <2> QED
    BY <1>5, <2>1, <2>4 DEF GS!JoinShop, ServersAreSound, DownIsSound
<1> QED
  BY <1>1, <1>2, <1>3, <1>4, <1>5

\* KGSUser's request to buy writes first and remembers what it asked for.
LEMMA BuyTypes ==
  ASSUME ServersAreSound, UNCHANGED lacking, NEW u \in Buyers, NEW i \in Items,
         NEW quantity \in Quantities, GS!BuyItem(u, i, quantity)
  PROVE  ServersAreSound'
<1> DEFINE w == [item |-> i, quantity |-> quantity, ed |-> user[u].ed]
           y == GS!WriteUnitInfo(user[u], TRUE)
           x == [y EXCEPT !.filter = TRUE, !.wish = {w}]
<1>1. u \in Units /\ user[u] \in GS!User
  BY DEF Buyers, ServersAreSound, UsersAreSound
<1>2. w \in [item : Items, quantity : Quantities, ed : Int] /\ w \in GS!Wish
  BY <1>1, AmountAssumption DEF GS!User, GS!Wish
<1>3. y \in GS!User /\ y.held = user[u].held
  BY <1>1, WriteTypes
<1>4. user' = [user EXCEPT ![u] = x]
  BY DEF GS!BuyItem
<1> HIDE DEF w, y
<1>5. x \in GS!User /\ x.wish = {w} /\ x.held = user[u].held
  BY <1>2, <1>3 DEF GS!User
<1>6. WishIsSound(u, x)
  BY <1>2, <1>5 DEF WishIsSound, Buyers
<1>7. u \notin lacking => \A j \in Items : x.held[j] >= 0
  BY <1>1, <1>5 DEF ServersAreSound, UsersAreSound
<1> HIDE DEF x
<1>8. UsersAreSound'
  BY <1>1, <1>4, <1>5, <1>6, <1>7, OneUserChanges DEF ServersAreSound
<1> QED
  BY <1>8 DEF GS!BuyItem, ServersAreSound, UpIsSound, DownIsSound

\* The DB's answer to a write takes it off the queue and takes back what failed.
LEMMA WrittenTypes ==
  ASSUME ServersAreSound, UNCHANGED lacking, NEW u \in Units, NEW ed \in Int,
         NEW some \in SUBSET Items, GS!UnitInfoWritten(u, ed, some)
  PROVE  ServersAreSound'
<1> DEFINE w == Head(user[u].writes)
           rest == [user[u] EXCEPT !.writes = Tail(@)]
           x == GS!Unwritten(rest, GS!Part(w, ed, some))
<1>1. user[u] \in GS!User /\ user[u].writes # <<>>
  BY DEF GS!UnitInfoWritten, ServersAreSound, UsersAreSound
<1>2. w \in GS!Write /\ Tail(user[u].writes) \in Seq(GS!Write)
  BY <1>1 DEF GS!User
<1>3. /\ rest \in GS!User /\ rest.wish = user[u].wish /\ rest.held = user[u].held
  BY <1>1, <1>2 DEF GS!User
<1>4. user' = [user EXCEPT ![u] = x]
  BY DEF GS!UnitInfoWritten
<1> HIDE DEF w, rest
<1>5. GS!Part(w, ed, some) \in GS!Write
  BY <1>2, PartsAre
<1>6. x \in GS!User /\ x.wish = user[u].wish /\ x.held = user[u].held
  BY <1>3, <1>5, UnwrittenIs
<1> HIDE DEF x
<1>7. UsersAreSound'
  BY <1>4, <1>6, OneUserKeeps DEF ServersAreSound
<1>8. UpIsSound'
  <2>1. CASE UNCHANGED up
    BY <2>1 DEF ServersAreSound, UpIsSound
  <2>2. ASSUME NEW wish \in user[u].wish,
               GS!ToShop(u, [type |-> "BUY", item |-> wish.item,
                             quantity |-> wish.quantity, ed |-> wish.ed])
        PROVE  UpIsSound'
    <3> DEFINE m == [type |-> "BUY", item |-> wish.item,
                     quantity |-> wish.quantity, ed |-> wish.ed]
    <3>1. wish \in [item : Items, quantity : Quantities, ed : Int] /\ u \in Buyers
      BY DEF ServersAreSound, UsersAreSound, WishIsSound, Buyers
    <3>2. m \in UpMessage(u)
      BY <3>1 DEF UpMessage
    <3> HIDE DEF m
    <3> QED
      BY <2>2, <3>2, OneMoreUp DEF ServersAreSound, m
  <2> QED
    BY <2>1, <2>2 DEF GS!UnitInfoWritten
<1> QED
  BY <1>7, <1>8 DEF GS!UnitInfoWritten, ServersAreSound, DownIsSound

\* A piece is used only if there is one.
LEMMA UseTypes ==
  ASSUME ServersAreSound, UNCHANGED lacking, NEW u \in Units, NEW i \in Items,
         GS!UseItem(u, i)
  PROVE  ServersAreSound'
<1> DEFINE held == [user[u].held EXCEPT ![i] = @ - 1]
           x == [user[u] EXCEPT !.held = held]
<1>1. user[u] \in GS!User /\ user[u].held \in [Items -> Int] /\ user[u].held[i] > 0
  BY DEF GS!UseItem, ServersAreSound, UsersAreSound, GS!User
<1>2. held \in [Items -> Int] /\ \A j \in Items : user[u].held[j] >= 0 => held[j] >= 0
  BY <1>1
<1>3. user' = [user EXCEPT ![u] = x]
  BY DEF GS!UseItem
<1> HIDE DEF held
<1>4. x \in GS!User /\ x.wish = user[u].wish /\ x.held = held
  BY <1>1, <1>2 DEF GS!User
<1>5. WishIsSound(u, x)
  BY <1>4 DEF ServersAreSound, UsersAreSound, WishIsSound
<1>6. u \notin lacking => \A j \in Items : x.held[j] >= 0
  BY <1>2, <1>4 DEF ServersAreSound, UsersAreSound
<1> HIDE DEF x
<1>7. UsersAreSound'
  BY <1>3, <1>4, <1>5, <1>6, OneUserChanges DEF ServersAreSound
<1> QED
  BY <1>7 DEF GS!UseItem, ServersAreSound, UpIsSound, DownIsSound

\* Every packet of the room that KGSUser handles keeps the types, and one that
\* nobody is there to receive changes nothing.
LEMMA ReceiveTypes ==
  ASSUME ServersAreSound, UNCHANGED lacking, NEW u \in Units, GS!Receive(u)
  PROVE  ServersAreSound'
<1> DEFINE m == Head(down[u])
<1>1. down[u] # <<>> /\ down' = [down EXCEPT ![u] = Tail(@)]
  BY DEF GS!Receive, GS!Undelivered, GS!Opened, GS!Registered, GS!Joined, GS!Left, GS!BuyAck,
         GS!ConfirmReq, GS!CompleteNot, GS!Take
<1>2. DownIsSound' /\ m \in DownMessage
  BY <1>1, OneLessDown DEF ServersAreSound
<1>3. user[u] \in GS!User
  BY DEF ServersAreSound, UsersAreSound
<1>4. CASE GS!Undelivered(u)
  BY <1>2, <1>4 DEF GS!Undelivered, ServersAreSound, UsersAreSound, WishIsSound, UpIsSound
<1>5. ASSUME UNCHANGED up, NEW x \in GS!User, x.wish = user[u].wish, x.held = user[u].held,
             user' = [user EXCEPT ![u] = x]
      PROVE  ServersAreSound'
  <2>1. UsersAreSound'
    BY <1>5, OneUserKeeps DEF ServersAreSound
  <2> QED
    BY <1>2, <1>5, <2>1 DEF ServersAreSound, UpIsSound
<1>6. ASSUME NEW b \in BOOLEAN
      PROVE  LET x == [user[u] EXCEPT !.shopping = b]
             IN x \in GS!User /\ x.wish = user[u].wish /\ x.held = user[u].held
  BY <1>3 DEF GS!User
<1>7. user[u].shopping \in BOOLEAN
  BY <1>3 DEF GS!User
<1>8. CASE GS!Opened(u)
  <2>1. m.ok \in BOOLEAN
    BY <1>2, <1>8 DEF GS!Opened, GS!Next, DownMessage, Notice, SaleNotice
  <2> DEFINE b == user[u].shopping \/ m.ok
             x == [user[u] EXCEPT !.shopping = b]
  <2>2. user' = [user EXCEPT ![u] = x] /\ UNCHANGED up
    BY <1>8 DEF GS!Opened, GS!Next
  <2>3. b \in BOOLEAN
    OBVIOUS
  <2> HIDE DEF b
  <2>4. x \in GS!User /\ x.wish = user[u].wish /\ x.held = user[u].held
    BY <1>6, <2>3
  <2> HIDE DEF x
  <2> QED
    BY <1>5, <2>2, <2>4
<1>9. CASE GS!Registered(u)
  <2> DEFINE x == IF m.ok THEN GS!WriteUnitInfo(user[u], FALSE) ELSE user[u]
  <2>1. user' = [user EXCEPT ![u] = x] /\ UNCHANGED up
    BY <1>9 DEF GS!Registered, GS!Next
  <2>2. x \in GS!User /\ x.wish = user[u].wish /\ x.held = user[u].held
    BY <1>3, WriteTypes
  <2> HIDE DEF x
  <2> QED
    BY <1>5, <2>1, <2>2
<1>10. CASE GS!Joined(u)
  <2>1. m.ok \in BOOLEAN
    BY <1>2, <1>10 DEF GS!Joined, GS!Next, DownMessage, Notice, SaleNotice
  <2> DEFINE x == [user[u] EXCEPT !.shopping = m.ok]
  <2>2. user' = [user EXCEPT ![u] = x] /\ UNCHANGED up
    BY <1>10 DEF GS!Joined, GS!Next
  <2>3. x \in GS!User /\ x.wish = user[u].wish /\ x.held = user[u].held
    BY <1>6, <2>1
  <2> HIDE DEF x
  <2> QED
    BY <1>5, <2>2, <2>3
<1>11. CASE GS!Left(u)
  <2> DEFINE b == user[u].shopping /\ m.type # "BREAK_NOT" /\ ~m.ok
             x == [user[u] EXCEPT !.shopping = b]
  <2>1. user' = [user EXCEPT ![u] = x] /\ UNCHANGED up
    BY <1>11 DEF GS!Left, GS!Next
  <2>2. b \in BOOLEAN
    OBVIOUS
  <2> HIDE DEF b
  <2>3. x \in GS!User /\ x.wish = user[u].wish /\ x.held = user[u].held
    BY <1>6, <2>2
  <2> HIDE DEF x
  <2> QED
    BY <1>5, <2>1, <2>3
<1>12. CASE GS!BuyAck(u)
  <2> DEFINE x == [user[u] EXCEPT !.filter = FALSE]
  <2>1. user' = [user EXCEPT ![u] = x] /\ UNCHANGED up
    BY <1>12 DEF GS!BuyAck
  <2>2. x \in GS!User /\ x.wish = user[u].wish /\ x.held = user[u].held
    BY <1>3 DEF GS!User
  <2> HIDE DEF x
  <2> QED
    BY <1>5, <2>1, <2>2
<1>13. CASE GS!ConfirmReq(u)
  <2> DEFINE answer == [type |-> "CONFIRM_ACK", buyer |-> m.buyer, item |-> m.item,
                        quantity |-> m.quantity, ok |-> m.left <= user[u].held[m.item]]
  <2>1. m.buyer \in Buyers /\ m.item \in Items /\ m.quantity \in Quantities
    BY <1>2, <1>13 DEF GS!ConfirmReq, GS!Next, DownMessage, Notice, SaleNotice
  <2>2. answer \in UpMessage(u)
    BY <2>1 DEF UpMessage
  <2>3. GS!ToShop(u, answer) /\ UNCHANGED user
    BY <1>13 DEF GS!ConfirmReq, GS!Next
  <2> HIDE DEF answer
  <2>4. UpIsSound'
    BY <2>2, <2>3, OneMoreUp DEF ServersAreSound
  <2> QED
    BY <1>2, <2>3, <2>4 DEF ServersAreSound, UsersAreSound, WishIsSound
<1>14. CASE GS!CompleteNot(u)
  <2> DEFINE p == m.purchase
             x == IF u = p.seller THEN GS!Sold(user[u], p) ELSE GS!Bought(user[u], p)
  <2>1. p \in Sale
    BY <1>2, <1>14 DEF GS!CompleteNot, GS!Next, DownMessage, Notice, SaleNotice
  <2>2. user' = [user EXCEPT ![u] = x] /\ UNCHANGED up
    BY <1>14 DEF GS!CompleteNot, GS!Next
  <2>3. x \in GS!User /\ x.wish = user[u].wish
        /\ \A i \in Items : user[u].held[i] >= 0 => x.held[i] >= 0
    BY <1>3, <2>1, SaleTypes
  <2> HIDE DEF p, x
  <2>4. WishIsSound(u, x)
    BY <2>3 DEF ServersAreSound, UsersAreSound, WishIsSound
  <2>5. u \notin lacking => \A i \in Items : x.held[i] >= 0
    BY <2>3 DEF ServersAreSound, UsersAreSound
  <2>6. UsersAreSound'
    BY <2>2, <2>3, <2>4, <2>5, OneUserChanges DEF ServersAreSound
  <2> QED
    BY <1>2, <2>2, <2>6 DEF ServersAreSound, UpIsSound
<1> QED
  BY <1>4, <1>8, <1>9, <1>10, <1>11, <1>12, <1>13, <1>14 DEF GS!Receive

\* What a login reads from the DB.
LEMMA LoggedInTypes ==
  ASSUME NEW ed \in Int, NEW held \in [Items -> Int]
  PROVE  LET x == GS!LoggedIn(ed, held)
         IN /\ x \in GS!User /\ x.wish = {} /\ x.writes = <<>> /\ x.online
            /\ x.held = held /\ x.heldInit = held /\ x.ed = ed /\ x.init = ed
BY DEF GS!LoggedIn, GS!User

\* A unit that logs out leaves no wish behind.
LEMMA LogoutTypes ==
  ASSUME ServersAreSound, UNCHANGED lacking, NEW u \in Units, GS!Logout(u)
  PROVE  ServersAreSound' /\ ~user'[u].online
<1> DEFINE none == [i \in Items |-> 0]
           y == GS!LoggedIn(0, none)
           x == [y EXCEPT !.online = FALSE]
           m == [type |-> "BREAK", quietly |-> TRUE]
<1>1. none \in [Items -> Int] /\ \A i \in Items : none[i] >= 0
  OBVIOUS
<1>2. user' = [user EXCEPT ![u] = x]
  BY DEF GS!Logout
<1> HIDE DEF none
<1>3. y \in GS!User /\ y.wish = {} /\ y.held = none
  BY <1>1, LoggedInTypes
<1> HIDE DEF y
<1>4. x \in GS!User /\ x.wish = {} /\ x.held = none /\ ~x.online
  BY <1>3 DEF GS!User
<1>5. WishIsSound(u, x)
  BY <1>4 DEF WishIsSound
<1> HIDE DEF x
<1>6. UsersAreSound'
  BY <1>1, <1>2, <1>4, <1>5, OneUserChanges DEF ServersAreSound
<1>7. m \in UpMessage(u) /\ GS!ToShop(u, m)
  BY PlainPackets DEF GS!Logout
<1> HIDE DEF m
<1>8. UpIsSound'
  BY <1>7, OneMoreUp DEF ServersAreSound
<1>9. user'[u] = x
  BY <1>2 DEF ServersAreSound, UsersAreSound
<1> QED
  BY <1>4, <1>6, <1>8, <1>9 DEF GS!Logout, ServersAreSound, DownIsSound

DbIsSound == db \in [ed : [Units -> Int], held : [Units -> [Items -> Int]]]

\* A unit that logs in knows what the DB knew of it.
LEMMA LoginTypes ==
  ASSUME ServersAreSound, DbIsSound, NEW u \in Units, GS!Login(u, db.ed[u], db.held[u]),
         lacking' = IF Lacking(u) THEN lacking \cup {u} ELSE lacking \ {u}
  PROVE  ServersAreSound'
<1> DEFINE x == GS!LoggedIn(db.ed[u], db.held[u])
<1>1. db.ed[u] \in Int /\ db.held[u] \in [Items -> Int]
  BY DEF DbIsSound
<1>2. x \in GS!User /\ x.wish = {} /\ x.held = db.held[u]
  BY <1>1, LoggedInTypes
<1>3. user' = [user EXCEPT ![u] = x]
  BY DEF GS!Login
<1> HIDE DEF x
<1>4. user' \in [Units -> GS!User] /\ user'[u] = x /\ \A v \in Units \ {u} : user'[v] = user[v]
  BY <1>2, <1>3 DEF ServersAreSound, UsersAreSound
<1>5. \A v \in Units : WishIsSound(v, user'[v])
  BY <1>2, <1>4 DEF ServersAreSound, UsersAreSound, WishIsSound
<1>6. ASSUME NEW v \in Units \ lacking', NEW i \in Items PROVE user'[v].held[i] >= 0
  <2>1. CASE v = u
    BY <1>1, <1>2, <1>4, <1>6, <2>1 DEF Lacking
  <2>2. CASE v # u
    BY <1>4, <1>6, <2>2 DEF ServersAreSound, UsersAreSound
  <2> QED
    BY <2>1, <2>2
<1> QED
  BY <1>4, <1>5, <1>6 DEF GS!Login, ServersAreSound, UsersAreSound, UpIsSound, DownIsSound

-----------------------------------------------------------------------------
(* Sums of changes: entry by entry they are sums of numbers.               *)

Entry == [ed : Int, held : [Items -> Int]]
IsEntry(c) == c.ed \in Int /\ c.held \in [Items -> Int]
IsBook(s) == /\ Len(s) \in Nat /\ DOMAIN s = 1..Len(s)
             /\ \A n \in 1..Len(s) : IsEntry(s[n])

EdOf(s) == [n \in DOMAIN s |-> s[n].ed]
HeldOf(s, i) == [n \in DOMAIN s |-> s[n].held[i]]

\* A function on the first n numbers is a sequence of length n.
LEMMA FunctionIsSeq ==
  ASSUME NEW n \in Nat, NEW S, NEW f \in [1..n -> S]
  PROVE  f \in Seq(S) /\ Len(f) = n
<1>1. f \in Seq(S)
  OBVIOUS
<1>2. Len(f) \in Nat /\ DOMAIN f = 1..Len(f) /\ DOMAIN f = 1..n
  BY <1>1
<1>3. Len(f) = n
  BY <1>2
<1> QED
  BY <1>1, <1>3

\* The total of a book, column by column.
LEMMA Columns ==
  ASSUME NEW s, IsBook(s)
  PROVE  /\ EdOf(s) \in Seq(Int) /\ Len(EdOf(s)) = Len(s)
         /\ \A n \in 1..Len(s) : EdOf(s)[n] = s[n].ed
         /\ GS!AllOf(s).ed = GS!Total(EdOf(s))
         /\ \A i \in Items : /\ HeldOf(s, i) \in Seq(Int) /\ Len(HeldOf(s, i)) = Len(s)
                             /\ \A n \in 1..Len(s) : HeldOf(s, i)[n] = s[n].held[i]
                             /\ GS!AllOf(s).held[i] = GS!Total(HeldOf(s, i))
<1>1. EdOf(s) \in [1..Len(s) -> Int]
  BY DEF EdOf, IsBook, IsEntry
<1>2. \A i \in Items : HeldOf(s, i) \in [1..Len(s) -> Int]
  BY DEF HeldOf, IsBook, IsEntry
<1>3. /\ GS!AllOf(s).ed = GS!Total(EdOf(s))
      /\ \A i \in Items : GS!AllOf(s).held[i] = GS!Total(HeldOf(s, i))
  BY DEF GS!AllOf, EdOf, HeldOf
<1>4. EdOf(s) \in Seq(Int) /\ Len(EdOf(s)) = Len(s)
  BY <1>1, FunctionIsSeq DEF IsBook
<1>5. \A i \in Items : HeldOf(s, i) \in Seq(Int) /\ Len(HeldOf(s, i)) = Len(s)
  BY <1>2, FunctionIsSeq DEF IsBook
<1>6. /\ \A n \in 1..Len(s) : EdOf(s)[n] = s[n].ed
      /\ \A i \in Items : \A n \in 1..Len(s) : HeldOf(s, i)[n] = s[n].held[i]
  BY DEF EdOf, HeldOf, IsBook
<1> QED
  BY <1>3, <1>4, <1>5, <1>6

\* The sum of changes is a change.
LEMMA AllIsEntry ==
  ASSUME NEW s, IsBook(s)
  PROVE  GS!AllOf(s) \in Entry /\ IsEntry(GS!AllOf(s))
<1>1. GS!Total(EdOf(s)) \in Int
  <2>1. EdOf(s) \in Seq(Int) /\ Len(EdOf(s)) \in Nat
    BY Columns
  <2> QED
    BY <2>1, TotalIsLast
<1>2. \A i \in Items : GS!Total(HeldOf(s, i)) \in Int
  <2> SUFFICES ASSUME NEW i \in Items PROVE GS!Total(HeldOf(s, i)) \in Int
    OBVIOUS
  <2>1. HeldOf(s, i) \in Seq(Int) /\ Len(HeldOf(s, i)) \in Nat
    BY Columns
  <2> QED
    BY <2>1, TotalIsLast
<1>3. GS!AllOf(s) = [ed |-> GS!Total(EdOf(s)), held |-> [i \in Items |-> GS!Total(HeldOf(s, i))]]
  BY DEF GS!AllOf, EdOf, HeldOf
<1> QED
  BY <1>1, <1>2, <1>3 DEF Entry, IsEntry

\* One entry is another, or is added.
LEMMA OneEntryDiffers ==
  ASSUME NEW s, NEW t, IsBook(s), IsBook(t), Len(s) <= Len(t), NEW n \in 1..Len(t),
         \A k \in 1..Len(t) \ {n} : t[k] = IF k <= Len(s) THEN s[k] ELSE NoChange
  PROVE  LET old == IF n <= Len(s) THEN s[n] ELSE NoChange
         IN /\ GS!AllOf(t).ed = GS!AllOf(s).ed + t[n].ed - old.ed
            /\ \A i \in Items :
                 GS!AllOf(t).held[i] = GS!AllOf(s).held[i] + t[n].held[i] - old.held[i]
<1> DEFINE old == IF n <= Len(s) THEN s[n] ELSE NoChange
<1>0. NoChange.ed = 0 /\ \A i \in Items : NoChange.held[i] = 0
  BY DEF NoChange
<1>1. Len(s) \in Nat /\ Len(t) \in Nat
  BY DEF IsBook
<1>2. GS!AllOf(t).ed = GS!AllOf(s).ed + t[n].ed - old.ed
  <2> DEFINE a == EdOf(s)
             b == EdOf(t)
  <2>1. /\ a \in Seq(Int) /\ Len(a) = Len(s) /\ \A k \in 1..Len(s) : a[k] = s[k].ed
        /\ b \in Seq(Int) /\ Len(b) = Len(t) /\ \A k \in 1..Len(t) : b[k] = t[k].ed
        /\ GS!AllOf(s).ed = GS!Total(a) /\ GS!AllOf(t).ed = GS!Total(b)
    BY Columns
  <2> HIDE DEF a, b
  <2>2. ASSUME NEW k \in 1..Len(b) \ {n} PROVE b[k] = IF k <= Len(a) THEN a[k] ELSE 0
    <3>1. k \in 1..Len(t) \ {n} /\ b[k] = t[k].ed
      BY <2>1
    <3>2. t[k] = IF k <= Len(s) THEN s[k] ELSE NoChange
      BY <3>1
    <3>3. k <= Len(s) => a[k] = s[k].ed
      BY <1>1, <2>1, <3>1
    <3> QED
      BY <1>0, <2>1, <3>1, <3>2, <3>3
  <2>3. /\ a \in Seq(Int) /\ b \in Seq(Int) /\ Len(a) <= Len(b) /\ n \in 1..Len(b)
        /\ \A k \in 1..Len(b) \ {n} : b[k] = IF k <= Len(a) THEN a[k] ELSE 0
    BY <2>1, <2>2
  <2>4. GS!Total(b) = GS!Total(a) + b[n] - (IF n <= Len(a) THEN a[n] ELSE 0)
    BY ONLY <2>3, OneDiffers
  <2> QED
    BY <1>0, <1>1, <2>1, <2>4
<1>3. ASSUME NEW i \in Items
      PROVE  GS!AllOf(t).held[i] = GS!AllOf(s).held[i] + t[n].held[i] - old.held[i]
  <2> DEFINE a == HeldOf(s, i)
             b == HeldOf(t, i)
  <2>1. /\ a \in Seq(Int) /\ Len(a) = Len(s) /\ \A k \in 1..Len(s) : a[k] = s[k].held[i]
        /\ b \in Seq(Int) /\ Len(b) = Len(t) /\ \A k \in 1..Len(t) : b[k] = t[k].held[i]
        /\ GS!AllOf(s).held[i] = GS!Total(a) /\ GS!AllOf(t).held[i] = GS!Total(b)
    BY Columns
  <2> HIDE DEF a, b
  <2>2. ASSUME NEW k \in 1..Len(b) \ {n} PROVE b[k] = IF k <= Len(a) THEN a[k] ELSE 0
    <3>1. k \in 1..Len(t) \ {n} /\ b[k] = t[k].held[i]
      BY <2>1
    <3>2. t[k] = IF k <= Len(s) THEN s[k] ELSE NoChange
      BY <3>1
    <3>3. k <= Len(s) => a[k] = s[k].held[i]
      BY <1>1, <2>1, <3>1
    <3> QED
      BY <1>0, <2>1, <3>1, <3>2, <3>3
  <2>3. /\ a \in Seq(Int) /\ b \in Seq(Int) /\ Len(a) <= Len(b) /\ n \in 1..Len(b)
        /\ \A k \in 1..Len(b) \ {n} : b[k] = IF k <= Len(a) THEN a[k] ELSE 0
    BY <2>1, <2>2
  <2>4. GS!Total(b) = GS!Total(a) + b[n] - (IF n <= Len(a) THEN a[n] ELSE 0)
    BY ONLY <2>3, OneDiffers
  <2> QED
    BY <1>0, <1>1, <2>1, <2>4
<1> QED
  BY <1>2, <1>3

\* Two sums are the same when their entries are.
SameSum(s, t) ==
  GS!AllOf(t).ed = GS!AllOf(s).ed
  /\ \A i \in Items : GS!AllOf(t).held[i] = GS!AllOf(s).held[i]

\* No entry is another, and those added say nothing.
LEMMA NoEntryDiffers ==
  ASSUME NEW s, NEW t, IsBook(s), IsBook(t), Len(s) <= Len(t),
         \A k \in 1..Len(t) : t[k] = IF k <= Len(s) THEN s[k] ELSE NoChange
  PROVE  SameSum(s, t)
<1>1. CASE Len(t) \in 1..Len(t)
  <2> DEFINE old == IF Len(t) <= Len(s) THEN s[Len(t)] ELSE NoChange
  <2>1. /\ GS!AllOf(t).ed = GS!AllOf(s).ed + t[Len(t)].ed - old.ed
        /\ \A i \in Items :
             GS!AllOf(t).held[i] = GS!AllOf(s).held[i] + t[Len(t)].held[i] - old.held[i]
    BY <1>1, OneEntryDiffers
  <2>2. t[Len(t)] = old /\ IsEntry(old)
    BY <1>1 DEF IsBook
  <2>3. IsEntry(GS!AllOf(s))
    BY AllIsEntry
  <2> HIDE DEF old
  <2> QED
    BY <2>1, <2>2, <2>3 DEF SameSum, IsEntry
<1>2. CASE Len(t) \notin 1..Len(t)
  <2>1. Len(t) = 0 /\ Len(s) = 0
    BY <1>2 DEF IsBook
  <2>2. EdOf(s) = EdOf(t) /\ \A i \in Items : HeldOf(s, i) = HeldOf(t, i)
    BY <2>1 DEF EdOf, HeldOf, IsBook
  <2> QED
    BY <2>2, Columns DEF SameSum
<1> QED
  BY <1>1, <1>2

\* The first entry and the others.
LEMMA FirstEntryApart ==
  ASSUME NEW s, NEW t, IsBook(s), IsBook(t), Len(s) = Len(t) + 1,
         \A k \in 1..Len(t) : t[k] = s[k + 1]
  PROVE  /\ GS!AllOf(s).ed = s[1].ed + GS!AllOf(t).ed
         /\ \A i \in Items : GS!AllOf(s).held[i] = s[1].held[i] + GS!AllOf(t).held[i]
<1>1. Len(s) \in Nat /\ Len(t) \in Nat /\ 1 \in 1..Len(s)
      /\ \A k \in 1..Len(t) : k + 1 \in 1..Len(s)
  BY DEF IsBook
<1>2. GS!AllOf(s).ed = s[1].ed + GS!AllOf(t).ed
  <2> DEFINE a == EdOf(s)
             b == EdOf(t)
  <2>1. /\ a \in Seq(Int) /\ Len(a) = Len(s) /\ \A k \in 1..Len(s) : a[k] = s[k].ed
        /\ b \in Seq(Int) /\ Len(b) = Len(t) /\ \A k \in 1..Len(t) : b[k] = t[k].ed
        /\ GS!AllOf(s).ed = GS!Total(a) /\ GS!AllOf(t).ed = GS!Total(b)
    BY Columns
  <2> HIDE DEF a, b
  <2>2. \A k \in 1..Len(b) : b[k] = a[k + 1]
    BY <1>1, <2>1
  <2>3. GS!Total(a) = a[1] + GS!Total(b)
    BY <2>1, <2>2, FirstApart
  <2> QED
    BY <1>1, <2>1, <2>3
<1>3. ASSUME NEW i \in Items
      PROVE  GS!AllOf(s).held[i] = s[1].held[i] + GS!AllOf(t).held[i]
  <2> DEFINE a == HeldOf(s, i)
             b == HeldOf(t, i)
  <2>1. /\ a \in Seq(Int) /\ Len(a) = Len(s) /\ \A k \in 1..Len(s) : a[k] = s[k].held[i]
        /\ b \in Seq(Int) /\ Len(b) = Len(t) /\ \A k \in 1..Len(t) : b[k] = t[k].held[i]
        /\ GS!AllOf(s).held[i] = GS!Total(a) /\ GS!AllOf(t).held[i] = GS!Total(b)
    BY Columns
  <2> HIDE DEF a, b
  <2>2. \A k \in 1..Len(b) : b[k] = a[k + 1]
    BY <1>1, <2>1
  <2>3. GS!Total(a) = a[1] + GS!Total(b)
    BY <2>1, <2>2, FirstApart
  <2> QED
    BY <1>1, <2>1, <2>3
<1> QED
  BY <1>2, <1>3

\* Entries that say nothing sum up to nothing.
LEMMA NothingInAll ==
  ASSUME NEW s, IsBook(s), \A k \in 1..Len(s) : s[k] = NoChange
  PROVE  GS!AllOf(s).ed = 0 /\ \A i \in Items : GS!AllOf(s).held[i] = 0
<1>0. NoChange.ed = 0 /\ \A i \in Items : NoChange.held[i] = 0
  BY DEF NoChange
<1>1. GS!Total(EdOf(s)) = 0
  BY <1>0, Columns, NothingTotal
<1>2. ASSUME NEW i \in Items PROVE GS!Total(HeldOf(s, i)) = 0
  BY <1>0, Columns, NothingTotal
<1> QED
  BY <1>1, <1>2, Columns

-----------------------------------------------------------------------------
(* The books of a unit: its writes, the sales whose notice is due and those *)
(* whose notice is on its way.                                             *)

\* The writes that wait for the DB are a book.
LEMMA WritesAreBook ==
  ASSUME NEW s \in Seq(GS!Write)
  PROVE  IsBook(s)
<1>1. Len(s) \in Nat /\ DOMAIN s = 1..Len(s)
  OBVIOUS
<1>2. ASSUME NEW n \in 1..Len(s) PROVE IsEntry(s[n])
  <2>1. s[n] \in GS!Write
    OBVIOUS
  <2> QED
    BY <2>1 DEF GS!Write, IsEntry
<1> QED
  BY <1>1, <1>2 DEF IsBook

\* What a sale is to its seller, and to its buyer.
LEMMA ShareIs ==
  ASSUME NEW p \in Sale, NEW u
  PROVE  /\ Share(u, p).ed = IF u = p.seller THEN GS!Cost(p) ELSE -GS!Cost(p)
         /\ \A i \in Items :
              Share(u, p).held[i]
                = IF i # p.item THEN 0
                  ELSE IF u = p.seller THEN -p.quantity ELSE p.quantity
         /\ Share(u, p) \in Entry /\ IsEntry(Share(u, p))
<1>1. GS!Cost(p) \in Int /\ p.quantity \in Nat
  BY CostType
<1>2. OfItem(p, p.quantity) \in [Items -> Int] /\ OfItem(p, -p.quantity) \in [Items -> Int]
  BY <1>1 DEF OfItem
<1>3. \A n : \A i \in Items : OfItem(p, n)[i] = IF i = p.item THEN n ELSE 0
  BY DEF OfItem
<1> QED
  BY <1>1, <1>2, <1>3 DEF Share, Entry, IsEntry

\* An entry that changes nothing is an entry.
LEMMA NoChangeIs == NoChange \in Entry /\ IsEntry(NoChange)
BY DEF NoChange, Entry, IsEntry

-----------------------------------------------------------------------------
(* The types of the whole.                                                 *)

SystemIsSound ==
  /\ RoomIsSound /\ ServersAreSound /\ DbIsSound
  /\ orders \in Seq(Order)
  /\ drifted \subseteq Units /\ lacking \subseteq Units

\* t goes on from s with members of S.
GoesOn(s, t, S) ==
  /\ Len(s) <= Len(t)
  /\ \A k \in 1..Len(t) : IF k <= Len(s) THEN t[k] = s[k] ELSE t[k] \in S

\* A channel that is added to goes on from what it was.
LEMMA ConcatGoesOn ==
  ASSUME NEW S, NEW T, NEW s \in Seq(S), NEW t \in Seq(T), T \subseteq S
  PROVE  s \o t \in Seq(S) /\ GoesOn(s, s \o t, T)
<1>1. t \in Seq(S)
  OBVIOUS
<1>2. s \o t \in Seq(S) /\ Len(s \o t) = Len(s) + Len(t)
  BY <1>1
<1>3. \A k \in 1..Len(s \o t) : (s \o t)[k] = IF k <= Len(s) THEN s[k] ELSE t[k - Len(s)]
  BY <1>1
<1>4. ASSUME NEW k \in 1..Len(s \o t), ~(k <= Len(s)) PROVE t[k - Len(s)] \in T
  BY <1>2, <1>4
<1> QED
  BY <1>2, <1>3, <1>4 DEF GoesOn

\* A set of at most one element, as a sequence.
LEMMA FewToSeq ==
  ASSUME NEW S, S = {} \/ \E x \in S : S = {x}
  PROVE  SetToSeq(S) \in Seq(S)
<1> DEFINE n == Cardinality(S)
<1>1. n \in Nat /\ \E f \in [1..n -> S] : IsInjective(f)
  <2>1. CASE S = {}
    <3>1. n = 0
      BY <2>1, FS_EmptySet
    <3> DEFINE f == [k \in 1..0 |-> k]
    <3>2. f \in [1..0 -> S] /\ IsInjective(f)
      BY DEF IsInjective
    <3> HIDE DEF f, n
    <3>4. \E g \in [1..0 -> S] : IsInjective(g)
      BY <3>2
    <3> QED
      BY <3>1, <3>4
  <2>2. CASE \E x \in S : S = {x}
    <3>1. PICK x \in S : S = {x}
      BY <2>2
    <3>2. n = 1
      BY <3>1, FS_Singleton
    <3> DEFINE f == [k \in 1..1 |-> x]
    <3>3. f \in [1..1 -> S] /\ IsInjective(f)
      BY DEF IsInjective
    <3> HIDE DEF f, n
    <3>4. \E g \in [1..1 -> S] : IsInjective(g)
      BY <3>3
    <3> QED
      BY <3>2, <3>4
  <2> QED
    BY <2>1, <2>2
<1>2. SetToSeq(S) = CHOOSE f \in [1..n -> S] : IsInjective(f)
  BY DEF SetToSeq
<1> HIDE DEF n
<1>3. SetToSeq(S) \in [1..n -> S]
  BY <1>1, <1>2
<1> QED
  BY <1>1, <1>3, FunctionIsSeq

Asked == {o \in Order : o.status = "asked"}

\* What the room sends goes to the game servers, what it orders to the DB.
LEMMA ForwardTypes ==
  ASSUME DownIsSound, orders \in Seq(Order), SendsNotices, Forward
  PROVE  /\ DownIsSound' /\ \A u \in Units : GoesOn(down[u], down'[u], Notice)
         /\ orders' \in Seq(Order) /\ GoesOn(orders, orders', Asked)
<1>1. ASSUME NEW u \in Units
      PROVE  down'[u] \in Seq(DownMessage) /\ GoesOn(down[u], down'[u], Notice)
  <2>1. down'[u] = down[u] \o sent'[u]
    BY DEF Forward
  <2>2. down[u] \in Seq(DownMessage) /\ sent'[u] \in Seq(Notice)
    BY DEF DownIsSound, SendsNotices
  <2>3. Notice \subseteq DownMessage
    BY DEF DownMessage
  <2> QED
    BY <2>1, <2>2, <2>3, ConcatGoesOn
<1>2. DownIsSound'
  BY <1>1 DEF Forward, DownIsSound
<1>3. orders' \in Seq(Order) /\ GoesOn(orders, orders', Asked)
  <2> DEFINE new == {[purchase |-> p, status |-> "asked"] : p \in sentDB'}
  <2>1. orders' = orders \o SetToSeq(new)
    BY DEF Forward
  <2>2. new = {} \/ \E x \in new : new = {x}
    <3>1. CASE sentDB' = {}
      BY <3>1
    <3>2. ASSUME NEW p \in Sale, sentDB' = {p} PROVE \E x \in new : new = {x}
      <4>1. new = {[purchase |-> p, status |-> "asked"]}
        BY <3>2
      <4> QED
        BY <4>1
    <3> QED
      BY <3>1, <3>2 DEF SendsNotices
  <2>3. new \subseteq Asked
    <3> SUFFICES ASSUME NEW p \in sentDB' PROVE [purchase |-> p, status |-> "asked"] \in Asked
      OBVIOUS
    <3>1. p \in Sale
      BY DEF SendsNotices
    <3> QED
      BY <3>1 DEF Asked, Order
  <2> HIDE DEF new
  <2>4. SetToSeq(new) \in Seq(new)
    BY <2>2, FewToSeq
  <2>5. SetToSeq(new) \in Seq(Asked)
    BY <2>3, <2>4
  <2>6. Asked \subseteq Order
    BY DEF Asked
  <2> QED
    BY <2>1, <2>5, <2>6, ConcatGoesOn
<1> QED
  BY <1>1, <1>2, <1>3

\* The room handles a packet: it sends notices and orders sales nobody has
\* carried out yet.
LEMMA DeliverTypes ==
  ASSUME SystemIsSound, NEW u \in Units, Deliver(u)
  PROVE  /\ SystemIsSound' /\ \A v \in Units : GoesOn(down[v], down'[v], Notice)
         /\ GoesOn(orders, orders', Asked)
<1>1. up[u] \in Seq(UpMessage(u)) /\ up[u] # <<>>
  BY DEF Deliver, SystemIsSound, ServersAreSound, UpIsSound
<1>2. Head(up[u]) \in UpMessage(u) /\ Tail(up[u]) \in Seq(UpMessage(u))
  BY <1>1
<1>3. RoomIsSound' /\ SendsNotices
  BY <1>2, HandleSends DEF Deliver, SystemIsSound
<1>4. /\ DownIsSound' /\ \A v \in Units : GoesOn(down[v], down'[v], Notice)
      /\ orders' \in Seq(Order) /\ GoesOn(orders, orders', Asked)
  BY <1>3, ForwardTypes DEF Deliver, SystemIsSound, ServersAreSound
<1>5. UpIsSound'
  <2>1. up' = [up EXCEPT ![u] = Tail(@)]
    BY DEF Deliver
  <2> QED
    BY <1>2, <2>1 DEF SystemIsSound, ServersAreSound, UpIsSound
<1>6. UNCHANGED <<user, db, drifted, lacking>>
  BY DEF Deliver
<1> QED
  BY <1>3, <1>4, <1>5, <1>6
     DEF SystemIsSound, ServersAreSound, UsersAreSound, WishIsSound, DbIsSound

\* So does the room's timer.
LEMMA RoomTickTypes ==
  ASSUME SystemIsSound, RoomTick
  PROVE  /\ SystemIsSound' /\ \A v \in Units : GoesOn(down[v], down'[v], Notice)
         /\ GoesOn(orders, orders', Asked)
<1>1. RoomIsSound' /\ SendsNotices
  BY TickSends DEF RoomTick, SystemIsSound
<1>2. /\ DownIsSound' /\ \A v \in Units : GoesOn(down[v], down'[v], Notice)
      /\ orders' \in Seq(Order) /\ GoesOn(orders, orders', Asked)
  BY <1>1, ForwardTypes DEF RoomTick, SystemIsSound, ServersAreSound
<1>3. UNCHANGED <<user, up, db, drifted, lacking>>
  BY DEF RoomTick, sysGhosts
<1> QED
  BY <1>1, <1>2, <1>3
     DEF SystemIsSound, ServersAreSound, UsersAreSound, WishIsSound, DbIsSound, UpIsSound

\* While a game server takes a step, the room does nothing.
LEMMA ElsewhereTypes ==
  ASSUME SystemIsSound, Elsewhere
  PROVE  RoomIsSound' /\ orders' \in Seq(Order)
BY IgnoreSends DEF Elsewhere, SystemIsSound

-----------------------------------------------------------------------------
(* The DB.                                                                 *)

\* A write adds to one unit's record.
LEMMA CreditIs ==
  ASSUME DbIsSound, NEW u \in Units, NEW ed \in Int, NEW held \in [Items -> Int],
         db' = Credit(u, ed, held)
  PROVE  /\ DbIsSound'
         /\ \A v \in Units \ {u} : db'.ed[v] = db.ed[v] /\ db'.held[v] = db.held[v]
         /\ db'.ed[u] = db.ed[u] + ed
         /\ \A i \in Items : db'.held[u][i] = db.held[u][i] + held[i]
<1> DEFINE row == [i \in Items |-> db.held[u][i] + held[i]]
           eds == [db.ed EXCEPT ![u] = @ + ed]
           helds == [db.held EXCEPT ![u] = row]
<1>1. db.ed \in [Units -> Int] /\ db.held \in [Units -> [Items -> Int]]
  BY DEF DbIsSound
<1>2. row \in [Items -> Int] /\ \A i \in Items : row[i] = db.held[u][i] + held[i]
  BY <1>1
<1>3. db' = [ed |-> eds, held |-> helds]
  BY DEF Credit
<1> HIDE DEF row
<1>4. /\ eds \in [Units -> Int] /\ eds[u] = db.ed[u] + ed
      /\ \A v \in Units \ {u} : eds[v] = db.ed[v]
  BY <1>1
<1>5. /\ helds \in [Units -> [Items -> Int]] /\ helds[u] = row
      /\ \A v \in Units \ {u} : helds[v] = db.held[v]
  BY <1>1, <1>2
<1> HIDE DEF eds, helds
<1> QED
  BY <1>2, <1>3, <1>4, <1>5 DEF DbIsSound

\* A sale adds to the records of its two parties what it is to them.
LEMMA CarriedIs ==
  ASSUME DbIsSound, NEW p \in Sale, db' = CarriedOut(p)
  PROVE  /\ DbIsSound'
         /\ \A v \in Units :
              IF Concerns(v, p)
              THEN /\ db'.ed[v] = db.ed[v] + Share(v, p).ed
                   /\ \A i \in Items : db'.held[v][i] = db.held[v][i] + Share(v, p).held[i]
              ELSE db'.ed[v] = db.ed[v] /\ db'.held[v] = db.held[v]
<1> DEFINE cost == GS!Cost(p)
           eds == [db.ed EXCEPT ![p.seller] = @ + cost, ![p.buyer] = @ - cost]
           less == [db.held[p.seller] EXCEPT ![p.item] = @ - p.quantity]
           more == [db.held[p.buyer] EXCEPT ![p.item] = @ + p.quantity]
           helds == [db.held EXCEPT ![p.seller] = less, ![p.buyer] = more]
<1>0. /\ cost \in Int /\ p.quantity \in Nat /\ p.item \in Items
      /\ p.seller \in Units /\ p.buyer \in Units /\ p.seller # p.buyer
  BY CostType
<1>1. db.ed \in [Units -> Int] /\ db.held \in [Units -> [Items -> Int]]
  BY DEF DbIsSound
<1>2. db' = [ed |-> eds, held |-> helds]
  <2>1. db'.ed = eds /\ db' = [ed |-> db'.ed, held |-> db'.held]
    BY DEF CarriedOut
  <2>2. db'.held = [db.held EXCEPT ![p.seller][p.item] = @ - p.quantity,
                                   ![p.buyer][p.item] = @ + p.quantity]
    BY DEF CarriedOut
  <2>3. db'.held = helds
    BY <1>0, <1>1, <2>2
  <2> QED
    BY <2>1, <2>3
<1>3. /\ less \in [Items -> Int] /\ less[p.item] = db.held[p.seller][p.item] - p.quantity
      /\ \A i \in Items \ {p.item} : less[i] = db.held[p.seller][i]
      /\ more \in [Items -> Int] /\ more[p.item] = db.held[p.buyer][p.item] + p.quantity
      /\ \A i \in Items \ {p.item} : more[i] = db.held[p.buyer][i]
  BY <1>0, <1>1
<1> HIDE DEF cost, less, more
<1>4. /\ eds \in [Units -> Int]
      /\ eds[p.seller] = db.ed[p.seller] + cost /\ eds[p.buyer] = db.ed[p.buyer] - cost
      /\ \A v \in Units \ {p.seller, p.buyer} : eds[v] = db.ed[v]
  BY <1>0, <1>1
<1>5. /\ helds \in [Units -> [Items -> Int]]
      /\ helds[p.seller] = less /\ helds[p.buyer] = more
      /\ \A v \in Units \ {p.seller, p.buyer} : helds[v] = db.held[v]
  BY <1>0, <1>1, <1>3
<1> HIDE DEF eds, helds
<1>6. DbIsSound'
  BY <1>2, <1>4, <1>5 DEF DbIsSound
<1>7. ASSUME NEW v \in Units
      PROVE  IF Concerns(v, p)
             THEN /\ db'.ed[v] = db.ed[v] + Share(v, p).ed
                  /\ \A i \in Items : db'.held[v][i] = db.held[v][i] + Share(v, p).held[i]
             ELSE db'.ed[v] = db.ed[v] /\ db'.held[v] = db.held[v]
  <2>1. db'.ed = eds /\ db'.held = helds
    BY <1>2
  <2>2. db.ed[v] \in Int /\ \A i \in Items : db.held[v][i] \in Int
    BY <1>1
  <2>3. CASE v = p.seller
    <3>1. Share(v, p).ed = cost /\ \A i \in Items : Share(v, p).held[i]
                                                      = IF i # p.item THEN 0 ELSE -p.quantity
      BY <2>3, ShareIs DEF cost
    <3>2. ASSUME NEW i \in Items PROVE db'.held[v][i] = db.held[v][i] + Share(v, p).held[i]
      BY <1>0, <1>3, <1>5, <2>1, <2>2, <2>3, <3>1
    <3> QED
      BY <1>4, <2>1, <2>3, <3>1, <3>2 DEF Concerns
  <2>4. CASE v = p.buyer
    <3>1. Share(v, p).ed = -cost /\ \A i \in Items : Share(v, p).held[i]
                                                       = IF i # p.item THEN 0 ELSE p.quantity
      BY <1>0, <2>4, ShareIs DEF cost
    <3>2. ASSUME NEW i \in Items PROVE db'.held[v][i] = db.held[v][i] + Share(v, p).held[i]
      BY <1>0, <1>3, <1>5, <2>1, <2>2, <2>4, <3>1
    <3>3. db'.ed[v] = db.ed[v] + Share(v, p).ed
      BY <1>0, <1>4, <2>1, <2>2, <2>4, <3>1
    <3> QED
      BY <2>4, <3>2, <3>3 DEF Concerns
  <2>5. CASE v \notin {p.seller, p.buyer}
    BY <1>4, <1>5, <2>1, <2>5 DEF Concerns
  <2> QED
    BY <2>3, <2>4, <2>5
<1> QED
  BY <1>6, <1>7

\* What a unit takes with it when it goes.
LEMMA OutstandingIs ==
  ASSUME ServersAreSound, NEW u \in Units
  PROVE  IsEntry(GS!Outstanding(u))
<1>1. user[u] \in GS!User
  BY DEF ServersAreSound, UsersAreSound
<1>2. GS!Change(user[u], FALSE) \in GS!Write /\ user[u].writes \in Seq(GS!Write)
  BY <1>1, WriteTypes DEF GS!User
<1>3. ASSUME NEW s \in Seq(GS!Write), NEW c \in GS!Write PROVE Append(s, c) \in Seq(GS!Write)
  OBVIOUS
<1>4. Append(user[u].writes, GS!Change(user[u], FALSE)) \in Seq(GS!Write)
  BY <1>2, <1>3
<1> QED
  BY <1>4, WritesAreBook, AllIsEntry DEF GS!Outstanding

-----------------------------------------------------------------------------
(* The steps outside the room.                                             *)

\* The steps of a game server keep the types of the whole: a request,
LEMMA AskTypes ==
  ASSUME SystemIsSound, NEW u \in Units, Ask(u)
  PROVE  SystemIsSound'
<1>1. UNCHANGED <<db, drifted, lacking>> /\ Elsewhere
  BY DEF Ask
<1>2. ServersAreSound'
  BY <1>1, RequestTypes DEF Ask, SystemIsSound
<1> QED
  BY <1>1, <1>2, ElsewhereTypes DEF SystemIsSound, DbIsSound

\* a request to buy,
LEMMA BuyerTypes ==
  ASSUME SystemIsSound, NEW u \in Units, Buy(u)
  PROVE  SystemIsSound'
<1>1. UNCHANGED <<db, drifted, lacking>> /\ Elsewhere /\ u \in Buyers
  BY DEF Buy, Buyers
<1>2. ServersAreSound'
  BY <1>1, BuyTypes DEF Buy, SystemIsSound
<1> QED
  BY <1>1, <1>2, ElsewhereTypes DEF SystemIsSound, DbIsSound

\* the DB's answer to a write,
LEMMA WriteIsDone ==
  ASSUME SystemIsSound, NEW u \in Units, Written(u)
  PROVE  SystemIsSound'
<1> DEFINE w == Head(user[u].writes)
<1>1. UNCHANGED lacking /\ Elsewhere /\ drifted' \subseteq drifted \cup {u}
  BY DEF Written
<1>2. w \in GS!Write /\ w.ed \in Int
  <2>1. user[u] \in GS!User /\ user[u].writes # <<>>
    BY DEF Written, SystemIsSound, ServersAreSound, UsersAreSound
  <2>2. w \in GS!Write
    BY <2>1 DEF GS!User
  <2> QED
    BY <2>2 DEF GS!Write
<1>3. PICK ed \in {0, w.ed}, some \in SUBSET {i \in Items : w.held[i] # 0} :
        LET arrived == GS!Part(w, w.ed - ed, Items \ some)
        IN GS!UnitInfoWritten(u, ed, some) /\ db' = Credit(u, arrived.ed, arrived.held)
  BY DEF Written
<1> DEFINE arrived == GS!Part(w, w.ed - ed, Items \ some)
<1> HIDE DEF w
<1>4. ed \in Int /\ some \in SUBSET Items
  BY <1>2
<1>5. ServersAreSound'
  BY <1>1, <1>3, <1>4, WrittenTypes DEF SystemIsSound
<1>6. arrived \in GS!Write
  BY <1>2, <1>4, PartsAre
<1> HIDE DEF arrived
<1>7. arrived.ed \in Int /\ arrived.held \in [Items -> Int]
  BY <1>6 DEF GS!Write
<1>8. DbIsSound'
  BY <1>3, <1>7, CreditIs DEF SystemIsSound, arrived
<1> QED
  BY <1>1, <1>5, <1>8, ElsewhereTypes DEF SystemIsSound

\* a use of a piece,
LEMMA UserUses ==
  ASSUME SystemIsSound, NEW u \in Units, Use(u)
  PROVE  SystemIsSound'
<1>1. UNCHANGED <<db, drifted, lacking>> /\ Elsewhere
  BY DEF Use
<1>2. ServersAreSound'
  BY <1>1, UseTypes, SystemAssumption DEF Use, SystemIsSound
<1> QED
  BY <1>1, <1>2, ElsewhereTypes DEF SystemIsSound, DbIsSound

\* a packet of the room,
LEMMA PacketTypes ==
  ASSUME SystemIsSound, NEW u \in Units, Receive(u)
  PROVE  SystemIsSound'
<1>1. UNCHANGED <<db, lacking>> /\ Elsewhere /\ drifted' \subseteq drifted \cup {u}
  BY DEF Receive
<1>2. ServersAreSound'
  BY <1>1, ReceiveTypes DEF Receive, SystemIsSound
<1> QED
  BY <1>1, <1>2, ElsewhereTypes DEF SystemIsSound, DbIsSound

\* a login and a logout.
LEMMA ComeAndGoTypes ==
  ASSUME SystemIsSound, NEW u \in Units, ComeAndGo(u)
  PROVE  SystemIsSound'
<1>1. /\ Elsewhere
      /\ drifted' \subseteq drifted \cup {u} /\ lacking' \subseteq lacking \cup {u}
  BY DEF ComeAndGo
<1>2. ServersAreSound' /\ DbIsSound'
  <2>1. CASE GS!Logout(u) /\ UNCHANGED lacking
             /\ db' = Credit(u, GS!Outstanding(u).ed, GS!Outstanding(u).held)
    <3>1. ServersAreSound'
      BY <2>1, LogoutTypes DEF SystemIsSound
    <3>2. DbIsSound'
      BY <2>1, OutstandingIs, CreditIs DEF SystemIsSound, IsEntry
    <3> QED
      BY <3>1, <3>2
  <2>2. CASE GS!Login(u, db.ed[u], db.held[u]) /\ UNCHANGED db
             /\ lacking' = IF Lacking(u) THEN lacking \cup {u} ELSE lacking \ {u}
    BY <2>2, LoginTypes DEF SystemIsSound, DbIsSound
  <2> QED
    BY <2>1, <2>2 DEF ComeAndGo
<1> QED
  BY <1>1, <1>2, ElsewhereTypes DEF SystemIsSound

\* The DB's attempt at a sale moves two records and the order.
LEMMA CarryTypes ==
  ASSUME SystemIsSound, NEW n \in DOMAIN orders, Carry(n)
  PROVE  SystemIsSound'
<1>1. Ignore /\ UNCHANGED <<user, up, down, drifted, lacking>>
  BY DEF Carry, gsVars
<1>2. RoomIsSound'
  BY <1>1, IgnoreSends DEF SystemIsSound
<1>3. orders[n] \in Order /\ orders[n].purchase \in Sale
  <2>1. orders \in Seq(Order) /\ n \in DOMAIN orders
    BY DEF SystemIsSound
  <2>2. orders[n] \in Order
    BY <2>1
  <2> QED
    BY <2>2 DEF Order
<1>4. orders' \in Seq(Order)
  <2>1. PICK status \in {"done", "refused", "error"} :
          orders' = [orders EXCEPT ![n].status = status]
    BY DEF Carry
  <2>2. [orders[n] EXCEPT !.status = status] \in Order
    BY <1>3 DEF Order
  <2> QED
    BY <2>1, <2>2 DEF SystemIsSound
<1>5. DbIsSound'
  <2>1. CASE UNCHANGED db
    BY <2>1 DEF SystemIsSound, DbIsSound
  <2>2. CASE db' = CarriedOut(orders[n].purchase)
    BY <1>3, <2>2, CarriedIs DEF SystemIsSound
  <2> QED
    BY <2>1, <2>2 DEF Carry
<1> QED
  BY <1>1, <1>2, <1>4, <1>5
     DEF SystemIsSound, ServersAreSound, UsersAreSound, WishIsSound, UpIsSound, DownIsSound

-----------------------------------------------------------------------------
(* The DB's answers.                                                       *)

\* t goes on from s with members of S, and ends with m.
EndsWith(s, t, S, m) ==
  /\ Len(s) < Len(t) /\ t[Len(t)] = m
  /\ \A k \in 1..(Len(t) - 1) : IF k <= Len(s) THEN t[k] = s[k] ELSE t[k] \in S

\* A channel that is added to with m last goes on and ends with m.
LEMMA ConcatEndsWith ==
  ASSUME NEW S, NEW T, NEW s \in Seq(S), NEW t \in Seq(T), T \subseteq S, NEW m \in S
  PROVE  s \o (t \o <<m>>) \in Seq(S) /\ EndsWith(s, s \o (t \o <<m>>), T, m)
<1> DEFINE r == t \o <<m>>
<1>1. t \in Seq(S) /\ <<m>> \in Seq(S)
  OBVIOUS
<1>2. r \in Seq(S) /\ Len(r) = Len(t) + 1 /\ r[Len(t) + 1] = m
      /\ \A k \in 1..Len(t) : r[k] = t[k]
  BY <1>1
<1> HIDE DEF r
<1>3. s \o r \in Seq(S) /\ Len(s \o r) = Len(s) + Len(t) + 1
  BY <1>2
<1>4. \A k \in 1..Len(s \o r) : (s \o r)[k] = IF k <= Len(s) THEN s[k] ELSE r[k - Len(s)]
  BY <1>2
<1>5. (s \o r)[Len(s \o r)] = m
  <2>1. /\ Len(s \o r) \in 1..Len(s \o r) /\ ~(Len(s \o r) <= Len(s))
        /\ Len(s \o r) - Len(s) = Len(t) + 1
    BY <1>3
  <2> QED
    BY <1>2, <1>4, <2>1
<1>6. ASSUME NEW k \in 1..(Len(s \o r) - 1), ~(k <= Len(s)) PROVE (s \o r)[k] \in T
  <2>1. k - Len(s) \in 1..Len(t) /\ k \in 1..Len(s \o r)
    BY <1>3, <1>6
  <2>2. (s \o r)[k] = t[k - Len(s)]
    BY <1>2, <1>4, <1>6, <2>1
  <2> QED
    BY <2>1, <2>2
<1>7. \A k \in 1..(Len(s \o r) - 1) : k <= Len(s) => (s \o r)[k] = s[k]
  <2>1. \A k \in 1..(Len(s \o r) - 1) : k \in 1..Len(s \o r)
    BY <1>3
  <2> QED
    BY <1>4, <2>1
<1>8. Len(s) < Len(s \o r)
  BY <1>3
<1>9. EndsWith(s, s \o r, T, m)
  BY <1>5, <1>6, <1>7, <1>8 DEF EndsWith
<1> QED
  BY <1>3, <1>9 DEF r

\* A channel nothing is added to stays.
LEMMA NothingMore ==
  ASSUME NEW S, NEW s \in Seq(S)
  PROVE  s \o <<>> = s
BY ConcatEmptySeq

\* An answer of the DB leaves the members alone and at most shortens the list;
\* what is told of it may come after a notice that the shop has closed.
LEMMA SettleSends ==
  ASSUME RoomIsSound, Safe', NEW i, NEW S, NEW told \in [Units -> Seq(S)], Settle(i, told)
  PROVE  /\ RoomIsSound'
         /\ \E before \in [Units -> Seq(Notice)] :
              \A v \in Units : sent'[v] = before[v] \o told[v]
<1>1. CASE sent' = told
  <2>1. \A v \in Units : Silence[v] = <<>> /\ told[v] \in Seq(S)
    BY DEF Silence
  <2>2. \A v \in Units : sent'[v] = Silence[v] \o told[v]
    BY <1>1, <2>1
  <2>3. UNCHANGED users /\ DOMAIN goods' \subseteq DOMAIN goods
    BY DEF Settle, Reply, Nothing
  <2> QED
    BY <2>2, <2>3, NoticeTypes DEF RoomIsSound, HostsOf
<1>2. CASE sent' = Then(Broadcast(users, BreakNot), told)
  <2>1. Broadcast(users, BreakNot) \in [Units -> Seq(Notice)]
    BY NoticeTypes
  <2>2. \A v \in Units : sent'[v] = Broadcast(users, BreakNot)[v] \o told[v]
    BY <1>2 DEF Then
  <2>3. UNCHANGED users /\ DOMAIN goods' \subseteq DOMAIN goods
    BY DEF Settle, Reply, Nothing
  <2> QED
    BY <2>1, <2>2, <2>3 DEF RoomIsSound, HostsOf
<1> QED
  BY <1>1, <1>2 DEF Settle, Reply

\* How an order and the channels change with the DB's answer: the two parties
\* of a sale that was done are told of it, and nobody of anything else.
LEMMA AnswerTypes ==
  ASSUME SystemIsSound, NEW n \in DOMAIN orders, Answer(n)
  PROVE  /\ SystemIsSound'
         /\ \A v \in Units :
              IF orders[n].status = "done" /\ Concerns(v, orders[n].purchase)
              THEN EndsWith(down[v], down'[v], Notice, CompleteNot(orders[n].purchase))
              ELSE GoesOn(down[v], down'[v], Notice)
<1> DEFINE p == orders[n].purchase
           m == CompleteNot(p)
<1>1. orders \in Seq(Order) /\ orders[n] \in Order
  <2>1. orders \in Seq(Order) /\ n \in DOMAIN orders
    BY DEF SystemIsSound
  <2> QED
    BY <2>1
<1>2. p \in Sale /\ p \in Purchase
  <2>1. p \in Sale
    BY <1>1 DEF Order
  <2> QED
    BY <2>1, SystemAssumption DEF Sale, Buyers, Purchase
<1>3. orders' \in Seq(Order)
  <2>1. PICK status \in {"sold", "lost"} : orders' = [orders EXCEPT ![n].status = status]
    BY DEF Answer
  <2>2. [orders[n] EXCEPT !.status = status] \in Order
    BY <1>1 DEF Order
  <2> QED
    BY <1>1, <2>1, <2>2
<1>4. /\ UNCHANGED <<user, up, db, drifted, lacking>>
      /\ DOMAIN down' = Units /\ \A v \in Units : down'[v] = down[v] \o sent'[v]
  BY DEF Answer, sysGhosts
<1>5. m \in DownMessage /\ Notice \subseteq DownMessage /\ m \in SaleNotice
  BY <1>2 DEF CompleteNot, DownMessage, SaleNotice
<1>6. p.seller \in Units /\ p.buyer \in Units /\ p.seller # p.buyer
  BY <1>2, CostType
<1>7. Safe'
  BY <1>2, DBStep DEF Answer, DBAnswer, SystemIsSound, RoomIsSound
<1>8. ASSUME RoomIsSound', \A v \in Units : down'[v] \in Seq(DownMessage)
      PROVE  SystemIsSound'
  <2>1. UsersAreSound' /\ UpIsSound' /\ DbIsSound'
    BY <1>4 DEF SystemIsSound, ServersAreSound, UsersAreSound, WishIsSound, UpIsSound, DbIsSound
  <2>2. down' \in [Units -> Seq(DownMessage)]
    <3>1. down' = [v \in Units |-> down[v] \o sent'[v]]
      BY DEF Answer
    <3>2. \A v \in Units : down'[v] \in Seq(DownMessage)
      BY <1>8
    <3> QED
      BY <3>1, <3>2
  <2> QED
    BY <1>3, <1>4, <1>8, <2>1, <2>2 DEF SystemIsSound, ServersAreSound, DownIsSound
<1>9. \A v \in Units : down[v] \in Seq(DownMessage)
  BY DEF SystemIsSound, ServersAreSound, DownIsSound
<1> HIDE DEF p, m
<1>10. ASSUME RoomIsSound', NEW before \in [Units -> Seq(Notice)],
              orders[n].status # "done",
              \A v \in Units : sent'[v] = before[v]
       PROVE  /\ SystemIsSound'
              /\ \A v \in Units : GoesOn(down[v], down'[v], Notice)
  <2>1. \A v \in Units : down'[v] \in Seq(DownMessage) /\ GoesOn(down[v], down'[v], Notice)
    BY ZenonT(60), <1>4, <1>5, <1>9, <1>10, ConcatGoesOn
  <2> QED
    BY <1>8, <1>10, <2>1
<1>11. CASE orders[n].status = "done"
  <2> DEFINE told == Then(To(p.seller, m), To(p.buyer, m))
  <2>1. told \in [Units -> Seq(SaleNotice)]
    BY <1>5, <1>6, MailOf
  <2>2. \A v \in Units : told[v] = IF Concerns(v, p) THEN <<m>> ELSE <<>>
    <3> SUFFICES ASSUME NEW v \in Units
                 PROVE  told[v] = IF Concerns(v, p) THEN <<m>> ELSE <<>>
      OBVIOUS
    <3>1. told[v] = To(p.seller, m)[v] \o To(p.buyer, m)[v]
      BY DEF Then
    <3>2. CASE v = p.seller
      <4>1. To(p.seller, m)[v] = <<m>> /\ To(p.buyer, m)[v] = <<>>
        BY <1>6, <3>2 DEF To
      <4> QED
        BY <3>1, <3>2, <4>1 DEF Concerns
    <3>3. CASE v = p.buyer
      <4>1. To(p.seller, m)[v] = <<>> /\ To(p.buyer, m)[v] = <<m>>
        BY <1>6, <3>3 DEF To
      <4> QED
        BY <3>1, <3>3, <4>1 DEF Concerns
    <3>4. CASE v \notin {p.seller, p.buyer}
      <4>1. To(p.seller, m)[v] = <<>> /\ To(p.buyer, m)[v] = <<>>
        BY <3>4 DEF To
      <4> QED
        BY <3>1, <3>4, <4>1 DEF Concerns
    <3> QED
      BY <3>2, <3>3, <3>4
  <2>3. Settle(p.item, told)
    BY <1>11 DEF Answer, DBDone, p, m
  <2> HIDE DEF told
  <2>4. /\ RoomIsSound'
        /\ \E before \in [Units -> Seq(Notice)] :
             \A v \in Units : sent'[v] = before[v] \o told[v]
    BY <1>7, <2>1, <2>3, SettleSends DEF SystemIsSound
  <2>5. PICK before \in [Units -> Seq(Notice)] :
          \A v \in Units : sent'[v] = before[v] \o told[v]
    BY <2>4
  <2>6. ASSUME NEW v \in Units
        PROVE  /\ down'[v] \in Seq(DownMessage)
               /\ IF Concerns(v, p) THEN EndsWith(down[v], down'[v], Notice, m)
                  ELSE GoesOn(down[v], down'[v], Notice)
    <3>1. down'[v] = down[v] \o (before[v] \o told[v]) /\ before[v] \in Seq(Notice)
      BY <1>4, <2>5
    <3>2. CASE Concerns(v, p)
      <4>1. down'[v] = down[v] \o (before[v] \o <<m>>)
        BY <2>2, <3>1, <3>2
      <4> QED
        BY ZenonT(60), <1>5, <1>9, <3>1, <3>2, <4>1, ConcatEndsWith
    <3>3. CASE ~Concerns(v, p)
      <4>1. down'[v] = down[v] \o before[v]
        BY <2>2, <3>1, <3>3, NothingMore
      <4> QED
        BY <1>5, <1>9, <3>1, <3>3, <4>1, ConcatGoesOn
    <3> QED
      BY <3>2, <3>3
  <2>7. SystemIsSound'
    BY <1>8, <2>4, <2>6
  <2> QED
    BY <1>11, <2>6, <2>7 DEF m, p
<1>12. CASE orders[n].status # "done" /\ \E r \in Unfilled : DBUnfilled(r)
  <2>1. PICK r \in Unfilled : DBUnfilled(r)
    BY <1>12
  <2>2. Silence \in [Units -> Seq(Notice)] /\ Settle(r.item, Silence)
    BY <2>1, NoticeTypes DEF DBUnfilled
  <2>3. /\ RoomIsSound'
        /\ \E before \in [Units -> Seq(Notice)] :
             \A v \in Units : sent'[v] = before[v] \o Silence[v]
    BY <1>7, <2>2, SettleSends DEF SystemIsSound
  <2>4. PICK before \in [Units -> Seq(Notice)] :
          \A v \in Units : sent'[v] = before[v] \o Silence[v]
    BY <2>3
  <2>5. \A v \in Units : sent'[v] = before[v]
    <3>1. \A v \in Units : Silence[v] = <<>> /\ before[v] \in Seq(Notice)
      BY DEF Silence
    <3> QED
      BY <2>4, <3>1, NothingMore
  <2> QED
    BY <1>10, <1>12, <2>3, <2>5
<1>13. CASE orders[n].status # "done" /\ \E r \in Unfilled : DBRefused(r)
  <2>1. PICK r \in Unfilled : DBRefused(r)
    BY <1>13
  <2>2. sent' = Silence /\ UNCHANGED users /\ DOMAIN goods' = DOMAIN goods
    BY <2>1 DEF DBRefused
  <2>3. RoomIsSound'
    BY <1>7, <2>2 DEF SystemIsSound, RoomIsSound, HostsOf
  <2> QED
    BY <1>10, <1>13, <2>2, <2>3, NoticeTypes
<1> QED
  BY <1>11, <1>12, <1>13 DEF Answer

-----------------------------------------------------------------------------
(* The system keeps its types.                                             *)

\* The invariant of types holds at first,
LEMMA SoundInit == SysInit => SystemIsSound
<1> SUFFICES ASSUME SysInit PROVE SystemIsSound
  OBVIOUS
<1>1. RoomIsSound
  BY SafeInit, HostsAre DEF SysInit, Init, RoomIsSound, Nothing
<1>2. ASSUME NEW u \in Units
      PROVE  /\ user[u] = GS!LoggedIn(Wealth[u], Stock[u])
             /\ user[u] \in GS!User /\ WishIsSound(u, user[u])
             /\ \A i \in Items : user[u].held[i] >= 0
  <2>1. Wealth[u] \in Nat /\ Stock[u] \in [Items -> Nat]
    BY SystemAssumption
  <2>2. Wealth[u] \in Int /\ Stock[u] \in [Items -> Int] /\ \A i \in Items : Stock[u][i] >= 0
    BY <2>1
  <2>3. user[u] = GS!LoggedIn(Wealth[u], Stock[u])
    BY DEF SysInit
  <2>4. user[u] \in GS!User /\ user[u].wish = {} /\ user[u].held = Stock[u]
    BY <2>2, <2>3, LoggedInTypes
  <2> QED
    BY <2>2, <2>3, <2>4 DEF WishIsSound
<1>3. UsersAreSound
  BY <1>2 DEF SysInit, UsersAreSound
<1>4. UpIsSound /\ DownIsSound /\ orders \in Seq(Order)
      /\ drifted \subseteq Units /\ lacking \subseteq Units
  BY DEF SysInit, UpIsSound, DownIsSound
<1>5. DbIsSound
  <2>1. Wealth \in [Units -> Int] /\ Stock \in [Units -> [Items -> Int]]
    BY SystemAssumption
  <2> QED
    BY <2>1 DEF SysInit, DbIsSound
<1> QED
  BY <1>1, <1>3, <1>4, <1>5 DEF SystemIsSound, ServersAreSound

\* when nothing happens,
LEMMA SoundStutter == SystemIsSound /\ UNCHANGED sysVars => SystemIsSound'
BY DEF sysVars, vars, ghosts, gsVars, sysGhosts, SystemIsSound, RoomIsSound, Safe,
       SellsWhileListed, HostsOf, ServersAreSound, UsersAreSound, WishIsSound, UpIsSound,
       DownIsSound, DbIsSound

\* and after each step,
LEMMA SoundStep == SystemIsSound /\ [SysNext]_sysVars => SystemIsSound'
BY DeliverTypes, AskTypes, BuyerTypes, WriteIsDone, UserUses, PacketTypes, ComeAndGoTypes,
   RoomTickTypes, CarryTypes, AnswerTypes, SoundStutter DEF SysNext

\* so always.
LEMMA Sound == SysSpec => []SystemIsSound
BY SoundInit, SoundStep, PTL DEF SysSpec

-----------------------------------------------------------------------------
(* The parts of the books.                                                 *)

\* c is the sum of a and b; c is a.
Adds(c, a, b) == c.ed = a.ed + b.ed /\ \A i \in Items : c.held[i] = a.held[i] + b.held[i]
Same(c, a) == c.ed = a.ed /\ \A i \in Items : c.held[i] = a.held[i]

\* What an order, and a packet, hold for v; and all of them.
DueIn(v, o) ==
  IF o.status = "done" /\ Concerns(v, o.purchase) THEN Share(v, o.purchase) ELSE NoChange
ToldIn(v, m) == IF m.type = "COMPLETE_NOT" THEN Share(v, m.purchase) ELSE NoChange
AllDue(v, os) == GS!AllOf([n \in DOMAIN os |-> DueIn(v, os[n])])
AllTold(v, box) == GS!AllOf([n \in DOMAIN box |-> ToldIn(v, box[n])])

\* What a total gains and loses when one entry takes another's place.
LEMMA Arithmetic ==
  ASSUME NEW x, NEW y, NEW new, NEW old,
         IsEntry(x), IsEntry(y), IsEntry(new), IsEntry(old),
         x.ed = y.ed + new.ed - old.ed,
         \A i \in Items : x.held[i] = y.held[i] + new.held[i] - old.held[i]
  PROVE  /\ old = NoChange => Adds(x, y, new)
         /\ new = NoChange => Adds(y, x, old)
         /\ new = old => Same(x, y)
<1>0. /\ x.ed \in Int /\ y.ed \in Int /\ new.ed \in Int /\ old.ed \in Int
      /\ \A i \in Items : /\ x.held[i] \in Int /\ y.held[i] \in Int
                          /\ new.held[i] \in Int /\ old.held[i] \in Int
  BY DEF IsEntry
<1>1. ASSUME old = NoChange PROVE Adds(x, y, new)
  <2>1. old.ed = 0 /\ \A i \in Items : old.held[i] = 0
    BY <1>1 DEF NoChange
  <2> QED
    BY <1>0, <2>1 DEF Adds
<1>2. ASSUME new = NoChange PROVE Adds(y, x, old)
  <2>1. new.ed = 0 /\ \A i \in Items : new.held[i] = 0
    BY <1>2 DEF NoChange
  <2> QED
    BY <1>0, <2>1 DEF Adds
<1>3. ASSUME new = old PROVE Same(x, y)
  BY <1>0, <1>3 DEF Same
<1> QED
  BY <1>1, <1>2, <1>3

\* What an order is due and what a packet tells are entries; an order just
\* asked for is due nothing, and a notice tells of nothing.
LEMMA EntriesAre ==
  ASSUME NEW v
  PROVE  /\ \A o \in Order : IsEntry(DueIn(v, o))
         /\ \A o \in Asked : DueIn(v, o) = NoChange
         /\ \A m \in DownMessage : IsEntry(ToldIn(v, m))
         /\ \A m \in Notice : ToldIn(v, m) = NoChange
         /\ \A p \in Sale : ToldIn(v, CompleteNot(p)) = Share(v, p)
<1>1. ASSUME NEW o \in Order PROVE IsEntry(DueIn(v, o))
  <2>1. o.purchase \in Sale
    BY DEF Order
  <2> QED
    BY <2>1, ShareIs, NoChangeIs DEF DueIn
<1>2. ASSUME NEW o \in Asked PROVE DueIn(v, o) = NoChange
  BY DEF Asked, DueIn
<1>3. ASSUME NEW m \in Notice PROVE ToldIn(v, m) = NoChange
  BY DEF Notice, ToldIn
<1>4. ASSUME NEW m \in SaleNotice PROVE IsEntry(ToldIn(v, m))
  <2>1. m.purchase \in Sale
    BY DEF SaleNotice
  <2> QED
    BY <2>1, ShareIs, NoChangeIs DEF ToldIn
<1>5. ASSUME NEW p \in Sale PROVE ToldIn(v, CompleteNot(p)) = Share(v, p)
  BY DEF CompleteNot, ToldIn
<1> QED
  BY <1>1, <1>2, <1>3, <1>4, <1>5, NoChangeIs DEF DownMessage

\* The orders are a book of what is due to v,
LEMMA DueIsBook ==
  ASSUME NEW v, NEW os \in Seq(Order)
  PROVE  LET b == [n \in DOMAIN os |-> DueIn(v, os[n])]
         IN /\ IsBook(b) /\ Len(b) = Len(os) /\ \A n \in 1..Len(os) : b[n] = DueIn(v, os[n])
            /\ IsEntry(AllDue(v, os)) /\ AllDue(v, os) = GS!AllOf(b)
<1> DEFINE b == [n \in DOMAIN os |-> DueIn(v, os[n])]
<1>1. Len(os) \in Nat /\ DOMAIN os = 1..Len(os) /\ \A n \in 1..Len(os) : os[n] \in Order
  OBVIOUS
<1>2. \A n \in 1..Len(os) : DueIn(v, os[n]) \in {c \in {DueIn(v, o) : o \in Order} : IsEntry(c)}
  BY <1>1, EntriesAre
<1>3. b \in [1..Len(os) -> {c \in {DueIn(v, o) : o \in Order} : IsEntry(c)}]
  BY <1>1, <1>2
<1>4. Len(b) = Len(os)
  BY <1>1, <1>3, FunctionIsSeq
<1>5. \A n \in 1..Len(os) : b[n] = DueIn(v, os[n])
  BY <1>1
<1>6. DOMAIN b = 1..Len(b)
  BY <1>1, <1>4
<1>7. AllDue(v, os) = GS!AllOf(b)
  BY DEF AllDue
<1> HIDE DEF b
<1>8. IsBook(b)
  BY <1>1, <1>2, <1>4, <1>5, <1>6 DEF IsBook
<1> QED
  BY <1>4, <1>5, <1>7, <1>8, AllIsEntry DEF b

\* and the packets of a channel one of what v is told.
LEMMA ToldIsBook ==
  ASSUME NEW v, NEW box \in Seq(DownMessage)
  PROVE  LET b == [n \in DOMAIN box |-> ToldIn(v, box[n])]
         IN /\ IsBook(b) /\ Len(b) = Len(box) /\ \A n \in 1..Len(box) : b[n] = ToldIn(v, box[n])
            /\ IsEntry(AllTold(v, box)) /\ AllTold(v, box) = GS!AllOf(b)
<1> DEFINE b == [n \in DOMAIN box |-> ToldIn(v, box[n])]
<1>1. Len(box) \in Nat /\ DOMAIN box = 1..Len(box) /\ \A n \in 1..Len(box) : box[n] \in DownMessage
  OBVIOUS
<1>2. \A n \in 1..Len(box) :
         ToldIn(v, box[n]) \in {c \in {ToldIn(v, m) : m \in DownMessage} : IsEntry(c)}
  BY <1>1, EntriesAre
<1>3. b \in [1..Len(box) -> {c \in {ToldIn(v, m) : m \in DownMessage} : IsEntry(c)}]
  BY <1>1, <1>2
<1>4. Len(b) = Len(box)
  BY <1>1, <1>3, FunctionIsSeq
<1>5. \A n \in 1..Len(box) : b[n] = ToldIn(v, box[n])
  BY <1>1
<1>6. DOMAIN b = 1..Len(b)
  BY <1>1, <1>4
<1>7. AllTold(v, box) = GS!AllOf(b)
  BY DEF AllTold
<1> HIDE DEF b
<1>8. IsBook(b)
  BY <1>1, <1>2, <1>4, <1>5, <1>6 DEF IsBook
<1> QED
  BY <1>4, <1>5, <1>7, <1>8, AllIsEntry DEF b

\* New orders owe nobody anything, and notices tell of no sale.
LEMMA SameDue ==
  ASSUME NEW v, NEW s \in Seq(Order), NEW t \in Seq(Order), GoesOn(s, t, Asked)
  PROVE  Same(AllDue(v, t), AllDue(v, s))
<1> DEFINE a == [n \in DOMAIN s |-> DueIn(v, s[n])]
           b == [n \in DOMAIN t |-> DueIn(v, t[n])]
<1>1. /\ IsBook(a) /\ Len(a) = Len(s) /\ \A n \in 1..Len(s) : a[n] = DueIn(v, s[n])
      /\ AllDue(v, s) = GS!AllOf(a)
  BY DueIsBook
<1>2. /\ IsBook(b) /\ Len(b) = Len(t) /\ \A n \in 1..Len(t) : b[n] = DueIn(v, t[n])
      /\ AllDue(v, t) = GS!AllOf(b)
  BY DueIsBook
<1> HIDE DEF a, b
<1>3. ASSUME NEW k \in 1..Len(b) PROVE b[k] = IF k <= Len(a) THEN a[k] ELSE NoChange
  <2>1. k \in 1..Len(t) /\ (k <= Len(s) => k \in 1..Len(s))
    BY <1>2
  <2>2. IF k <= Len(s) THEN t[k] = s[k] ELSE t[k] \in Asked
    BY <2>1 DEF GoesOn
  <2> QED
    BY <1>1, <1>2, <2>1, <2>2, EntriesAre
<1>4. SameSum(a, b)
  BY <1>1, <1>2, <1>3, NoEntryDiffers DEF GoesOn
<1> QED
  BY <1>1, <1>2, <1>4 DEF SameSum, Same

\* Notices tell of no sale: what is on its way to v stays the same.
LEMMA SameTold ==
  ASSUME NEW v, NEW s \in Seq(DownMessage), NEW t \in Seq(DownMessage), GoesOn(s, t, Notice)
  PROVE  Same(AllTold(v, t), AllTold(v, s))
<1> DEFINE a == [n \in DOMAIN s |-> ToldIn(v, s[n])]
           b == [n \in DOMAIN t |-> ToldIn(v, t[n])]
<1>1. /\ IsBook(a) /\ Len(a) = Len(s) /\ \A n \in 1..Len(s) : a[n] = ToldIn(v, s[n])
      /\ AllTold(v, s) = GS!AllOf(a)
  BY ToldIsBook
<1>2. /\ IsBook(b) /\ Len(b) = Len(t) /\ \A n \in 1..Len(t) : b[n] = ToldIn(v, t[n])
      /\ AllTold(v, t) = GS!AllOf(b)
  BY ToldIsBook
<1> HIDE DEF a, b
<1>3. ASSUME NEW k \in 1..Len(b) PROVE b[k] = IF k <= Len(a) THEN a[k] ELSE NoChange
  <2>1. k \in 1..Len(t) /\ (k <= Len(s) => k \in 1..Len(s))
    BY <1>2
  <2>2. IF k <= Len(s) THEN t[k] = s[k] ELSE t[k] \in Notice
    BY <2>1 DEF GoesOn
  <2> QED
    BY <1>1, <1>2, <2>1, <2>2, EntriesAre
<1>4. SameSum(a, b)
  BY <1>1, <1>2, <1>3, NoEntryDiffers DEF GoesOn
<1> QED
  BY <1>1, <1>2, <1>4 DEF SameSum, Same

\* The notice of a sale tells of that sale and nothing else.
LEMMA MoreTold ==
  ASSUME NEW v, NEW s \in Seq(DownMessage), NEW t \in Seq(DownMessage), NEW p \in Sale,
         EndsWith(s, t, Notice, CompleteNot(p))
  PROVE  Adds(AllTold(v, t), AllTold(v, s), Share(v, p))
<1> DEFINE a == [n \in DOMAIN s |-> ToldIn(v, s[n])]
           b == [n \in DOMAIN t |-> ToldIn(v, t[n])]
<1>1. /\ IsBook(a) /\ Len(a) = Len(s) /\ \A n \in 1..Len(s) : a[n] = ToldIn(v, s[n])
      /\ AllTold(v, s) = GS!AllOf(a) /\ IsEntry(AllTold(v, s))
  BY ToldIsBook
<1>2. /\ IsBook(b) /\ Len(b) = Len(t) /\ \A n \in 1..Len(t) : b[n] = ToldIn(v, t[n])
      /\ AllTold(v, t) = GS!AllOf(b)
  BY ToldIsBook
<1>3. Len(s) \in Nat /\ Len(t) \in Nat /\ Len(s) < Len(t) /\ t[Len(t)] = CompleteNot(p)
  BY DEF EndsWith
<1> HIDE DEF a, b
<1>4. ASSUME NEW k \in 1..Len(b) \ {Len(t)} PROVE b[k] = IF k <= Len(a) THEN a[k] ELSE NoChange
  <2>1. k \in 1..(Len(t) - 1) /\ k \in 1..Len(t) /\ (k <= Len(s) => k \in 1..Len(s))
    BY <1>2, <1>3
  <2>2. IF k <= Len(s) THEN t[k] = s[k] ELSE t[k] \in Notice
    BY <2>1 DEF EndsWith
  <2> QED
    BY <1>1, <1>2, <2>1, <2>2, EntriesAre
<1>5. Len(t) \in 1..Len(b) /\ ~(Len(t) <= Len(a)) /\ Len(a) <= Len(b)
  BY <1>1, <1>2, <1>3
<1>6. b[Len(t)] = Share(v, p)
  <2>1. b[Len(t)] = ToldIn(v, t[Len(t)])
    BY <1>2, <1>5
  <2> QED
    BY <1>3, <2>1, EntriesAre
<1>7. /\ GS!AllOf(b).ed = GS!AllOf(a).ed + b[Len(t)].ed - NoChange.ed
      /\ \A i \in Items :
           GS!AllOf(b).held[i] = GS!AllOf(a).held[i] + b[Len(t)].held[i] - NoChange.held[i]
  BY ONLY <1>1, <1>2, <1>4, <1>5, OneEntryDiffers
<1>8. IsEntry(Share(v, p)) /\ IsEntry(GS!AllOf(a)) /\ IsEntry(GS!AllOf(b)) /\ IsEntry(NoChange)
  BY <1>1, <1>2, ShareIs, NoChangeIs, AllIsEntry
<1>9. Adds(GS!AllOf(b), GS!AllOf(a), b[Len(t)])
  BY <1>6, <1>7, <1>8, Arithmetic
<1> QED
  BY <1>1, <1>2, <1>6, <1>9

\* The first packet and the others.
LEMMA FirstTold ==
  ASSUME NEW v, NEW s \in Seq(DownMessage), s # <<>>
  PROVE  Adds(AllTold(v, s), ToldIn(v, Head(s)), AllTold(v, Tail(s)))
<1> DEFINE t == Tail(s)
           a == [n \in DOMAIN s |-> ToldIn(v, s[n])]
           b == [n \in DOMAIN t |-> ToldIn(v, t[n])]
<1>0. /\ t \in Seq(DownMessage) /\ Len(s) = Len(t) + 1 /\ Head(s) = s[1]
      /\ \A k \in 1..Len(t) : t[k] = s[k + 1]
      /\ Len(t) \in Nat
  OBVIOUS
<1> HIDE DEF t
<1>1. /\ IsBook(a) /\ Len(a) = Len(s) /\ \A n \in 1..Len(s) : a[n] = ToldIn(v, s[n])
      /\ AllTold(v, s) = GS!AllOf(a)
  BY ToldIsBook
<1>2. /\ IsBook(b) /\ Len(b) = Len(t) /\ \A n \in 1..Len(t) : b[n] = ToldIn(v, t[n])
      /\ AllTold(v, t) = GS!AllOf(b)
  BY <1>0, ToldIsBook
<1> HIDE DEF a, b
<1>3. \A k \in 1..Len(b) : b[k] = a[k + 1]
  <2> SUFFICES ASSUME NEW k \in 1..Len(b) PROVE b[k] = a[k + 1]
    OBVIOUS
  <2>1. k \in 1..Len(t) /\ k + 1 \in 1..Len(s)
    BY <1>0, <1>2
  <2> QED
    BY <1>0, <1>1, <1>2, <2>1
<1>4. /\ GS!AllOf(a).ed = a[1].ed + GS!AllOf(b).ed
      /\ \A i \in Items : GS!AllOf(a).held[i] = a[1].held[i] + GS!AllOf(b).held[i]
  BY <1>0, <1>1, <1>2, <1>3, FirstEntryApart
<1>5. a[1] = ToldIn(v, Head(s))
  BY <1>0, <1>1
<1> QED
  BY <1>1, <1>2, <1>4, <1>5 DEF Adds, t

\* One order comes further.
LEMMA OrderMoves ==
  ASSUME NEW v, NEW s \in Seq(Order), NEW t \in Seq(Order), NEW n \in DOMAIN s, NEW status,
         t = [s EXCEPT ![n].status = status]
  PROVE  LET p == s[n].purchase
         IN /\ s[n].status # "done" /\ status = "done" /\ Concerns(v, p)
                 => Adds(AllDue(v, t), AllDue(v, s), Share(v, p))
            /\ s[n].status = "done" /\ status # "done" /\ Concerns(v, p)
                 => Adds(AllDue(v, s), AllDue(v, t), Share(v, p))
            /\ ~Concerns(v, p) \/ (s[n].status # "done" /\ status # "done")
                 => Same(AllDue(v, t), AllDue(v, s))
<1> DEFINE a == [k \in DOMAIN s |-> DueIn(v, s[k])]
           b == [k \in DOMAIN t |-> DueIn(v, t[k])]
           p == s[n].purchase
<1>0. /\ n \in 1..Len(s) /\ s[n] \in Order /\ Len(t) = Len(s) /\ Len(s) \in Nat
      /\ \A k \in 1..Len(s) \ {n} : t[k] = s[k]
  OBVIOUS
<1>1. t[n].status = status /\ t[n].purchase = p /\ p \in Sale
  BY <1>0 DEF Order
<1>2. /\ IsBook(a) /\ Len(a) = Len(s) /\ \A k \in 1..Len(s) : a[k] = DueIn(v, s[k])
      /\ AllDue(v, s) = GS!AllOf(a) /\ IsEntry(AllDue(v, s))
  BY DueIsBook
<1>a. t \in Seq(Order)
  OBVIOUS
<1>3. /\ IsBook(b) /\ Len(b) = Len(t) /\ \A k \in 1..Len(t) : b[k] = DueIn(v, t[k])
      /\ AllDue(v, t) = GS!AllOf(b) /\ IsEntry(AllDue(v, t))
  BY ONLY <1>a, DueIsBook
<1>4. a[n] = DueIn(v, s[n]) /\ b[n] = DueIn(v, t[n])
  BY <1>0, <1>2, <1>3
<1> HIDE DEF a, b, p
<1>5. ASSUME NEW k \in 1..Len(b) \ {n} PROVE b[k] = IF k <= Len(a) THEN a[k] ELSE NoChange
  <2>1. k \in 1..Len(s) \ {n} /\ k <= Len(a)
    BY <1>0, <1>2, <1>3
  <2> QED
    BY <1>0, <1>2, <1>3, <2>1
<1>6. n \in 1..Len(b) /\ n <= Len(a) /\ Len(a) <= Len(b)
  BY <1>0, <1>2, <1>3
<1>7. /\ GS!AllOf(b).ed = GS!AllOf(a).ed + b[n].ed - a[n].ed
      /\ \A i \in Items : GS!AllOf(b).held[i] = GS!AllOf(a).held[i] + b[n].held[i] - a[n].held[i]
  <2> DEFINE old == IF n <= Len(a) THEN a[n] ELSE NoChange
  <2>0. /\ IsBook(a) /\ IsBook(b) /\ Len(a) <= Len(b) /\ n \in 1..Len(b)
        /\ \A k \in 1..Len(b) \ {n} : b[k] = IF k <= Len(a) THEN a[k] ELSE NoChange
    BY <1>2, <1>3, <1>5, <1>6
  <2>1. /\ GS!AllOf(b).ed = GS!AllOf(a).ed + b[n].ed - old.ed
        /\ \A i \in Items : GS!AllOf(b).held[i] = GS!AllOf(a).held[i] + b[n].held[i] - old.held[i]
    BY ONLY <2>0, OneEntryDiffers
  <2>2. old = a[n]
    BY <1>6
  <2> HIDE DEF old
  <2> QED
    BY <2>1, <2>2
<1>8. /\ IsEntry(a[n]) /\ IsEntry(b[n])
      /\ IsEntry(GS!AllOf(a)) /\ IsEntry(GS!AllOf(b))
  BY <1>0, <1>2, <1>3 DEF IsBook
<1>9. /\ a[n] = IF s[n].status = "done" /\ Concerns(v, p) THEN Share(v, p) ELSE NoChange
      /\ b[n] = IF status = "done" /\ Concerns(v, p) THEN Share(v, p) ELSE NoChange
  BY <1>1, <1>4 DEF DueIn, p
<1>10. /\ a[n] = NoChange => Adds(GS!AllOf(b), GS!AllOf(a), b[n])
       /\ b[n] = NoChange => Adds(GS!AllOf(a), GS!AllOf(b), a[n])
       /\ b[n] = a[n] => Same(GS!AllOf(b), GS!AllOf(a))
  BY ONLY <1>7, <1>8, Arithmetic
<1> QED
  BY <1>2, <1>3, <1>9, <1>10 DEF p

\* Writes: one more, and the first one.
LEMMA MoreWritten ==
  ASSUME NEW s \in Seq(GS!Write), NEW w \in GS!Write
  PROVE  Adds(GS!AllOf(Append(s, w)), GS!AllOf(s), w)
<1> DEFINE t == Append(s, w)
<1>1. t \in Seq(GS!Write) /\ Len(t) = Len(s) + 1 /\ t[Len(t)] = w
      /\ \A k \in 1..Len(s) : t[k] = s[k]
  OBVIOUS
<1>2. Len(s) \in Nat
  OBVIOUS
<1> HIDE DEF t
<1>3. IsBook(s) /\ IsBook(t) /\ IsEntry(GS!AllOf(s))
  BY <1>1, WritesAreBook, AllIsEntry
<1>4. \A k \in 1..Len(t) \ {Len(t)} : t[k] = IF k <= Len(s) THEN s[k] ELSE NoChange
  BY <1>1, <1>2
<1>5. Len(t) \in 1..Len(t) /\ ~(Len(t) <= Len(s)) /\ Len(s) <= Len(t)
  BY <1>1, <1>2
<1>6. /\ GS!AllOf(t).ed = GS!AllOf(s).ed + t[Len(t)].ed - NoChange.ed
      /\ \A i \in Items :
           GS!AllOf(t).held[i] = GS!AllOf(s).held[i] + t[Len(t)].held[i] - NoChange.held[i]
  BY <1>3, <1>4, <1>5, OneEntryDiffers
<1>7. IsEntry(w) /\ IsEntry(GS!AllOf(t)) /\ IsEntry(NoChange)
  BY <1>3, AllIsEntry, NoChangeIs DEF GS!Write, IsEntry
<1>8. Adds(GS!AllOf(t), GS!AllOf(s), t[Len(t)])
  BY <1>1, <1>3, <1>6, <1>7, Arithmetic
<1> QED
  BY <1>1, <1>8 DEF t

\* The first write apart, the rest are a book of their own.
LEMMA FirstWritten ==
  ASSUME NEW s \in Seq(GS!Write), s # <<>>
  PROVE  Adds(GS!AllOf(s), Head(s), GS!AllOf(Tail(s)))
<1> DEFINE t == Tail(s)
<1>1. /\ t \in Seq(GS!Write) /\ Len(s) = Len(t) + 1 /\ Head(s) = s[1]
      /\ \A k \in 1..Len(t) : t[k] = s[k + 1]
  OBVIOUS
<1> HIDE DEF t
<1>2. IsBook(s) /\ IsBook(t)
  BY <1>1, WritesAreBook
<1>3. /\ GS!AllOf(s).ed = s[1].ed + GS!AllOf(t).ed
      /\ \A i \in Items : GS!AllOf(s).held[i] = s[1].held[i] + GS!AllOf(t).held[i]
  BY <1>1, <1>2, FirstEntryApart
<1> QED
  BY <1>1, <1>3 DEF Adds, t

\* What a failed write leaves has the ED of the writes that follow it and, of an
\* item that one of these deletes, what has failed on top.
LEMMA LongerWrites ==
  ASSUME NEW x \in GS!User, NEW w \in GS!Write
  PROVE  LET y == GS!Unwritten(x, w)
         IN /\ GS!AllOf(y.writes).ed = GS!AllOf(x.writes).ed
            /\ \A i \in Items :
                 GS!AllOf(y.writes).held[i]
                   = GS!AllOf(x.writes).held[i] + IF i \in GS!Deleted(x, w) THEN w.held[i] ELSE 0
<1> DEFINE y == GS!Unwritten(x, w)
           deleted == GS!Deleted(x, w)
           s == x.writes
           t == y.writes
<1>1. /\ y \in GS!User /\ Len(t) = Len(s)
      /\ \A n \in 1..Len(s) : t[n].ed = s[n].ed
      /\ \A i \in Items \ deleted : \A n \in 1..Len(s) : t[n].held[i] = s[n].held[i]
      /\ \A i \in deleted : \E m \in 1..Len(s) :
           /\ t[m].held[i] = s[m].held[i] + w.held[i]
           /\ \A n \in 1..Len(s) \ {m} : t[n].held[i] = s[n].held[i]
  BY UnwrittenIs
<1>2. s \in Seq(GS!Write) /\ t \in Seq(GS!Write)
  BY <1>1 DEF GS!User
<1>3. IsBook(s) /\ IsBook(t) /\ Len(s) \in Nat
  BY <1>2, WritesAreBook
<1>4. IsEntry(GS!AllOf(s)) /\ IsEntry(w)
  BY <1>3, AllIsEntry DEF GS!Write, IsEntry
<1> HIDE DEF y, s, t, deleted
<1>5. GS!AllOf(t).ed = GS!AllOf(s).ed
  <2> DEFINE a == EdOf(s)
             b == EdOf(t)
  <2>1. /\ a \in Seq(Int) /\ Len(a) = Len(s) /\ \A k \in 1..Len(s) : a[k] = s[k].ed
        /\ b \in Seq(Int) /\ Len(b) = Len(t) /\ \A k \in 1..Len(t) : b[k] = t[k].ed
        /\ GS!AllOf(s).ed = GS!Total(a) /\ GS!AllOf(t).ed = GS!Total(b)
    BY <1>3, Columns
  <2> HIDE DEF a, b
  <2>2. Len(a) <= Len(b) /\ \A k \in 1..Len(b) : b[k] = IF k <= Len(a) THEN a[k] ELSE 0
    BY <1>1, <1>3, <2>1
  <2>3. GS!Total(b) = GS!Total(a)
    BY ONLY <2>1, <2>2, NoneDiffers
  <2> QED
    BY <2>1, <2>3
<1>6. ASSUME NEW i \in Items
      PROVE  GS!AllOf(t).held[i]
               = GS!AllOf(s).held[i] + IF i \in deleted THEN w.held[i] ELSE 0
  <2> DEFINE a == HeldOf(s, i)
             b == HeldOf(t, i)
  <2>1. /\ a \in Seq(Int) /\ Len(a) = Len(s) /\ \A k \in 1..Len(s) : a[k] = s[k].held[i]
        /\ b \in Seq(Int) /\ Len(b) = Len(t) /\ \A k \in 1..Len(t) : b[k] = t[k].held[i]
        /\ GS!AllOf(s).held[i] = GS!Total(a) /\ GS!AllOf(t).held[i] = GS!Total(b)
    BY <1>3, Columns
  <2> HIDE DEF a, b
  <2>2. GS!AllOf(s).held[i] \in Int /\ w.held[i] \in Int /\ Len(a) <= Len(b)
    BY <1>1, <1>3, <1>4, <2>1 DEF IsEntry
  <2>3. CASE i \notin deleted
    <3>1. \A k \in 1..Len(b) : b[k] = IF k <= Len(a) THEN a[k] ELSE 0
      BY <1>1, <1>3, <2>1, <2>3
    <3>2. GS!Total(b) = GS!Total(a)
      BY ONLY <2>1, <2>2, <3>1, NoneDiffers
    <3> QED
      BY <2>1, <2>2, <2>3, <3>2
  <2>4. CASE i \in deleted
    <3>1. PICK m \in 1..Len(s) :
            /\ t[m].held[i] = s[m].held[i] + w.held[i]
            /\ \A n \in 1..Len(s) \ {m} : t[n].held[i] = s[n].held[i]
      BY <1>1, <2>4
    <3>2. /\ m \in 1..Len(b) /\ m <= Len(a) /\ b[m] = a[m] + w.held[i]
          /\ \A k \in 1..Len(b) \ {m} : b[k] = IF k <= Len(a) THEN a[k] ELSE 0
      BY <1>1, <1>3, <2>1, <3>1
    <3>3. GS!Total(b) = GS!Total(a) + b[m] - (IF m <= Len(a) THEN a[m] ELSE 0)
      BY ONLY <2>1, <2>2, <3>2, OneDiffers
    <3>4. a[m] \in Int
      BY <1>1, <2>1, <3>2
    <3> QED
      BY <2>1, <2>2, <2>4, <3>2, <3>3, <3>4
  <2> QED
    BY <2>3, <2>4
<1> QED
  BY <1>5, <1>6 DEF y, s, t, deleted

-----------------------------------------------------------------------------
(* The books of a unit, and what a step may do to them.                    *)

\* What is believed, recorded, written, due and told fits together.
Balances(believed, recorded, written, due, told) ==
  /\ believed.ed = recorded.ed + written.ed - due.ed - told.ed
  /\ \A i \in Items :
       believed.held[i] = recorded.held[i] + written.held[i] - due.held[i] - told.held[i]

Believed(x) == [ed |-> x.init, held |-> x.heldInit]
Record(d, v) == [ed |-> d.ed[v], held |-> d.held[v]]
Book(v, x, d, os, box) ==
  x.online => Balances(Believed(x), Record(d, v), GS!AllOf(x.writes), AllDue(v, os), AllTold(v, box))
Balanced(v) == Book(v, user[v], db, orders, down[v])
Books == \A v \in Units \ drifted : Balanced(v)

\* Everything in them is a number.
LEMMA NumbersAre ==
  ASSUME NEW v \in Units, NEW x \in GS!User, NEW os \in Seq(Order), NEW box \in Seq(DownMessage),
         NEW d \in [ed : [Units -> Int], held : [Units -> [Items -> Int]]]
  PROVE  /\ IsEntry(Believed(x)) /\ IsEntry(Record(d, v)) /\ IsEntry(GS!AllOf(x.writes))
         /\ IsEntry(AllDue(v, os)) /\ IsEntry(AllTold(v, box)) /\ x.writes \in Seq(GS!Write)
<1>1. IsEntry(Believed(x)) /\ x.writes \in Seq(GS!Write)
  BY DEF Believed, GS!User, IsEntry
<1>2. IsEntry(Record(d, v))
  BY DEF Record, IsEntry
<1>3. IsEntry(GS!AllOf(x.writes))
  BY <1>1, WritesAreBook, AllIsEntry
<1> QED
  BY <1>1, <1>2, <1>3, DueIsBook, ToldIsBook

\* The ways in which books go on balancing.  Nothing moves, though what is due
\* and what is on its way may be kept in other orders and packets.
LEMMA StillBalances ==
  ASSUME NEW a, NEW r, NEW w, NEW d, NEW t, NEW d2, NEW t2,
         Balances(a, r, w, d, t), Same(d2, d), Same(t2, t)
  PROVE  Balances(a, r, w, d2, t2)
BY DEF Balances, Same

\* What has changed counts as written and is on its way.
LEMMA WriteStarts ==
  ASSUME NEW a, NEW r, NEW w, NEW d, NEW t, NEW a2, NEW w2, NEW t2, NEW c,
         IsEntry(a), IsEntry(r), IsEntry(w), IsEntry(d), IsEntry(t), IsEntry(a2),
         IsEntry(w2), IsEntry(t2), IsEntry(c),
         Balances(a, r, w, d, t), Adds(a2, a, c), Adds(w2, w, c), Same(t2, t)
  PROVE  Balances(a2, r, w2, d, t2)
<1>1. a2.ed = r.ed + w2.ed - d.ed - t2.ed
  BY DEF IsEntry, Balances, Adds, Same
<1>2. ASSUME NEW i \in Items
      PROVE  a2.held[i] = r.held[i] + w2.held[i] - d.held[i] - t2.held[i]
  BY DEF IsEntry, Balances, Adds, Same
<1> QED
  BY <1>1, <1>2 DEF Balances

\* A write ends: part of it, c, is in the record, and the rest, f, has failed.
\* Of that a later write takes k with it; the image moves back by the others.
Ends(a, r, w, a2, r2, w2, w1, c, f, k) ==
  /\ w.ed = (c.ed + f.ed) + w1.ed /\ w2.ed = w1.ed + k.ed
  /\ r2.ed = r.ed + c.ed /\ a2.ed = a.ed - (f.ed - k.ed)
  /\ \A i \in Items :
       /\ w.held[i] = (c.held[i] + f.held[i]) + w1.held[i]
       /\ w2.held[i] = w1.held[i] + k.held[i]
       /\ r2.held[i] = r.held[i] + c.held[i]
       /\ a2.held[i] = a.held[i] - (f.held[i] - k.held[i])

LEMMA WriteEnds ==
  ASSUME NEW a, NEW r, NEW w, NEW d, NEW t, NEW a2, NEW r2, NEW w2, NEW w1, NEW c, NEW f, NEW k,
         IsEntry(a), IsEntry(r), IsEntry(w), IsEntry(d), IsEntry(t), IsEntry(a2), IsEntry(r2),
         IsEntry(w2), IsEntry(w1), IsEntry(c), IsEntry(f), IsEntry(k),
         Balances(a, r, w, d, t), Ends(a, r, w, a2, r2, w2, w1, c, f, k)
  PROVE  Balances(a2, r2, w2, d, t)
<1>1. a2.ed = r2.ed + w2.ed - d.ed - t.ed
  <2>1. /\ a.ed \in Int /\ r.ed \in Int /\ d.ed \in Int /\ t.ed \in Int /\ w1.ed \in Int
        /\ c.ed \in Int /\ f.ed \in Int /\ k.ed \in Int
    BY DEF IsEntry
  <2>2. a.ed = r.ed + w.ed - d.ed - t.ed
    BY DEF Balances
  <2>3. /\ w.ed = (c.ed + f.ed) + w1.ed /\ w2.ed = w1.ed + k.ed
        /\ r2.ed = r.ed + c.ed /\ a2.ed = a.ed - (f.ed - k.ed)
    BY DEF Ends
  <2> QED
    BY ONLY <2>1, <2>2, <2>3
<1>2. ASSUME NEW i \in Items
      PROVE  a2.held[i] = r2.held[i] + w2.held[i] - d.held[i] - t.held[i]
  <2>1. /\ a.held[i] \in Int /\ r.held[i] \in Int /\ d.held[i] \in Int /\ t.held[i] \in Int
        /\ w1.held[i] \in Int /\ c.held[i] \in Int /\ f.held[i] \in Int /\ k.held[i] \in Int
    BY DEF IsEntry
  <2>2. a.held[i] = r.held[i] + w.held[i] - d.held[i] - t.held[i]
    BY DEF Balances
  <2>3. /\ w.held[i] = (c.held[i] + f.held[i]) + w1.held[i]
        /\ w2.held[i] = w1.held[i] + k.held[i] /\ r2.held[i] = r.held[i] + c.held[i]
        /\ a2.held[i] = a.held[i] - (f.held[i] - k.held[i])
    BY DEF Ends
  <2> QED
    BY ONLY <2>1, <2>2, <2>3
<1> QED
  BY <1>1, <1>2 DEF Balances

\* A game server is told of a sale.
LEMMA SaleArrives ==
  ASSUME NEW a, NEW r, NEW w, NEW d, NEW t, NEW a2, NEW t2, NEW c,
         IsEntry(a), IsEntry(r), IsEntry(w), IsEntry(d), IsEntry(t), IsEntry(a2),
         IsEntry(t2), IsEntry(c),
         Balances(a, r, w, d, t), Adds(a2, a, c), Adds(t, c, t2)
  PROVE  Balances(a2, r, w, d, t2)
<1>1. a2.ed = r.ed + w.ed - d.ed - t2.ed
  BY DEF IsEntry, Balances, Adds, Same
<1>2. ASSUME NEW i \in Items
      PROVE  a2.held[i] = r.held[i] + w.held[i] - d.held[i] - t2.held[i]
  BY DEF IsEntry, Balances, Adds, Same
<1> QED
  BY <1>1, <1>2 DEF Balances

\* The DB carries a sale out.
LEMMA SaleIsDone ==
  ASSUME NEW a, NEW r, NEW w, NEW d, NEW t, NEW r2, NEW d2, NEW c,
         IsEntry(a), IsEntry(r), IsEntry(w), IsEntry(d), IsEntry(t), IsEntry(r2),
         IsEntry(d2), IsEntry(c),
         Balances(a, r, w, d, t), Adds(r2, r, c), Adds(d2, d, c)
  PROVE  Balances(a, r2, w, d2, t)
<1>1. a.ed = r2.ed + w.ed - d2.ed - t.ed
  BY DEF IsEntry, Balances, Adds, Same
<1>2. ASSUME NEW i \in Items
      PROVE  a.held[i] = r2.held[i] + w.held[i] - d2.held[i] - t.held[i]
  BY DEF IsEntry, Balances, Adds, Same
<1> QED
  BY <1>1, <1>2 DEF Balances

\* The room passes on that a sale is done.
LEMMA SaleIsTold ==
  ASSUME NEW a, NEW r, NEW w, NEW d, NEW t, NEW d2, NEW t2, NEW c,
         IsEntry(a), IsEntry(r), IsEntry(w), IsEntry(d), IsEntry(t), IsEntry(d2),
         IsEntry(t2), IsEntry(c),
         Balances(a, r, w, d, t), Adds(d, d2, c), Adds(t2, t, c)
  PROVE  Balances(a, r, w, d2, t2)
<1>1. a.ed = r.ed + w.ed - d2.ed - t2.ed
  BY DEF IsEntry, Balances, Adds, Same
<1>2. ASSUME NEW i \in Items
      PROVE  a.held[i] = r.held[i] + w.held[i] - d2.held[i] - t2.held[i]
  BY DEF IsEntry, Balances, Adds, Same
<1> QED
  BY <1>1, <1>2 DEF Balances

\* What stays is the same, and goes on from itself.
LEMMA SameIsSame ==
  /\ \A a : Same(a, a)
  /\ \A s, S : GoesOn(s, s, S)
<1>1. ASSUME NEW s, NEW S PROVE GoesOn(s, s, S)
  BY DEF GoesOn
<1> QED
  BY <1>1 DEF Same

\* The types of one unit's books, before and after a step.
SoundBook(v, x, d, os, box) ==
  /\ x \in GS!User /\ d \in [ed : [Units -> Int], held : [Units -> [Items -> Int]]]
  /\ os \in Seq(Order) /\ box \in Seq(DownMessage)

\* The parts of v's books have their types.
LEMMA BookIsSound ==
  ASSUME SystemIsSound, NEW v \in Units
  PROVE  SoundBook(v, user[v], db, orders, down[v])
BY DEF SystemIsSound, ServersAreSound, UsersAreSound, DownIsSound, DbIsSound, SoundBook

\* A step that leaves a unit's data and record alone, orders nothing that was
\* done and sends no notice of a sale.
LEMMA BookStays ==
  ASSUME NEW v \in Units, NEW x, NEW d, NEW os, NEW box, NEW x2, NEW d2, NEW os2, NEW box2,
         SoundBook(v, x, d, os, box), SoundBook(v, x2, d2, os2, box2),
         Book(v, x, d, os, box), x2.online => x.online,
         x2.init = x.init, x2.heldInit = x.heldInit, x2.writes = x.writes,
         d2.ed[v] = d.ed[v], d2.held[v] = d.held[v],
         GoesOn(os, os2, Asked), GoesOn(box, box2, Notice)
  PROVE  Book(v, x2, d2, os2, box2)
<1> SUFFICES ASSUME x2.online
             PROVE  Balances(Believed(x2), Record(d2, v), GS!AllOf(x2.writes), AllDue(v, os2),
                             AllTold(v, box2))
  BY DEF Book
<1>1. Balances(Believed(x), Record(d, v), GS!AllOf(x.writes), AllDue(v, os), AllTold(v, box))
  BY DEF Book
<1>2. Believed(x2) = Believed(x) /\ Record(d2, v) = Record(d, v)
      /\ GS!AllOf(x2.writes) = GS!AllOf(x.writes)
  BY DEF Believed, Record
<1>3. Same(AllDue(v, os2), AllDue(v, os)) /\ Same(AllTold(v, box2), AllTold(v, box))
  BY SameDue, SameTold DEF SoundBook
<1> QED
  BY <1>1, <1>2, <1>3, StillBalances

-----------------------------------------------------------------------------
(* What the steps do to a unit's data.                                     *)

\* Requests, acknowledgements and the use of pieces leave alone what the game
\* server believes to be in the DB.
SameMind(y, x) ==
  /\ y.online => x.online
  /\ y.init = x.init /\ y.heldInit = x.heldInit /\ y.writes = x.writes

\* Books that balance keep balancing.
Keep(us) == \A v \in us : Balanced(v) => Balanced(v)'

\* Units whose data and records are left alone, and that are told of no sale.
LEMMA TheyStay ==
  ASSUME SystemIsSound, SystemIsSound', NEW us \in SUBSET Units,
         \A v \in us : /\ SameMind(user'[v], user[v])
                       /\ db'.ed[v] = db.ed[v] /\ db'.held[v] = db.held[v]
                       /\ GoesOn(down[v], down'[v], Notice),
         GoesOn(orders, orders', Asked)
  PROVE  Keep(us)
<1> SUFFICES ASSUME NEW v \in us, Balanced(v) PROVE Balanced(v)'
  BY DEF Keep
<1>1. /\ SoundBook(v, user[v], db, orders, down[v])
      /\ SoundBook(v, user'[v], db', orders', down'[v])
  BY BookIsSound DEF SystemIsSound, ServersAreSound, UsersAreSound, DownIsSound, DbIsSound, SoundBook
<1>2. Book(v, user[v], db, orders, down[v])
  BY DEF Balanced
<1>3. Book(v, user'[v], db', orders', down'[v])
  BY <1>1, <1>2, BookStays DEF SameMind
<1> QED
  BY <1>3 DEF Balanced

\* A game server is told of a sale while its own data are in step with the DB
\* and all the pieces are there: it learns what the DB has done.
LEMMA LearntIs ==
  ASSUME NEW x \in GS!User, NEW p \in Sale, x.ed = x.init, x.held = x.heldInit
  PROVE  /\ x.held[p.item] >= p.quantity =>
              LET y == GS!Sold(x, p)
              IN /\ Adds(Believed(y), Believed(x), Share(p.seller, p))
                 /\ y.writes = x.writes /\ y.online = x.online
         /\ \A u : u # p.seller =>
              LET y == GS!Bought(x, p)
              IN /\ Adds(Believed(y), Believed(x), Share(u, p))
                 /\ y.writes = x.writes /\ y.online = x.online
<1> DEFINE cost == GS!Cost(p)
           fewer == [x.held EXCEPT ![p.item] = GS!Fewer(@, p.quantity)]
           more == [x.held EXCEPT ![p.item] = @ + p.quantity]
           sold == [x EXCEPT !.ed = @ + cost, !.held = fewer]
           bought == [x EXCEPT !.ed = @ - cost, !.held = more]
<1>1. cost \in Int /\ p.quantity \in Nat /\ p.item \in Items
  BY CostType
<1>2. x.ed \in Int /\ x.held \in [Items -> Int] /\ x.init = x.ed /\ x.heldInit = x.held
  BY DEF GS!User
<1> HIDE DEF cost
<1>3. x.held[p.item] >= p.quantity
        => GS!Fewer(x.held[p.item], p.quantity) = x.held[p.item] - p.quantity
  BY <1>1, <1>2 DEF GS!Fewer
<1>4. /\ GS!Fewer(x.held[p.item], p.quantity) \in Int
      /\ fewer \in [Items -> Int]
      /\ \A i \in Items : fewer[i] = IF i = p.item THEN GS!Fewer(x.held[i], p.quantity) ELSE x.held[i]
      /\ more \in [Items -> Int]
      /\ \A i \in Items : more[i] = IF i = p.item THEN x.held[i] + p.quantity ELSE x.held[i]
  <2>1. GS!Fewer(x.held[p.item], p.quantity) \in Int
    BY <1>1, <1>2 DEF GS!Fewer
  <2> QED
    BY <1>1, <1>2, <2>1
<1>5. GS!Sold(x, p) = GS!Flushed(sold) /\ GS!Bought(x, p) = GS!Flushed(bought)
  BY DEF GS!Sold, GS!Bought, cost
<1> HIDE DEF fewer, more
<1>6. ASSUME NEW ed \in Int, NEW held \in [Items -> Int]
      PROVE  LET y == [x EXCEPT !.ed = ed, !.held = held]
             IN y \in GS!User /\ y.ed = ed /\ y.held = held /\ y.writes = x.writes
                /\ y.online = x.online
  BY DEF GS!User
<1>7. x.ed + cost \in Int /\ x.ed - cost \in Int
  BY <1>1, <1>2
<1>8. /\ sold \in GS!User /\ sold.ed = x.ed + cost /\ sold.held = fewer
      /\ sold.writes = x.writes /\ sold.online = x.online
      /\ bought \in GS!User /\ bought.ed = x.ed - cost /\ bought.held = more
      /\ bought.writes = x.writes /\ bought.online = x.online
  <2> DEFINE richer == x.ed + cost
             poorer == x.ed - cost
  <2>1. richer \in Int /\ poorer \in Int /\ fewer \in [Items -> Int] /\ more \in [Items -> Int]
    BY <1>4, <1>7
  <2>2. sold = [x EXCEPT !.ed = richer, !.held = fewer]
        /\ bought = [x EXCEPT !.ed = poorer, !.held = more]
    OBVIOUS
  <2> HIDE DEF sold, bought, richer, poorer
  <2>3. /\ sold \in GS!User /\ sold.ed = richer /\ sold.held = fewer
        /\ sold.writes = x.writes /\ sold.online = x.online
    BY ONLY ZenonT(60), <1>6, <2>1, <2>2
  <2>4. /\ bought \in GS!User /\ bought.ed = poorer /\ bought.held = more
        /\ bought.writes = x.writes /\ bought.online = x.online
    BY ONLY ZenonT(60), <1>6, <2>1, <2>2
  <2> QED
    BY <2>3, <2>4 DEF richer, poorer
<1> HIDE DEF sold, bought
<1>9. /\ Believed(GS!Sold(x, p)) = [ed |-> x.ed + cost, held |-> fewer]
      /\ GS!Sold(x, p).writes = x.writes /\ GS!Sold(x, p).online = x.online
      /\ Believed(GS!Bought(x, p)) = [ed |-> x.ed - cost, held |-> more]
      /\ GS!Bought(x, p).writes = x.writes /\ GS!Bought(x, p).online = x.online
  BY <1>5, <1>8, FlushTypes DEF Believed
<1>10. Believed(x) = [ed |-> x.ed, held |-> x.held]
  BY <1>2 DEF Believed
<1>11. ASSUME x.held[p.item] >= p.quantity
       PROVE  Adds(Believed(GS!Sold(x, p)), Believed(x), Share(p.seller, p))
  <2>1. /\ Share(p.seller, p).ed = cost
        /\ \A i \in Items : Share(p.seller, p).held[i] = IF i # p.item THEN 0 ELSE -p.quantity
    BY ShareIs DEF cost
  <2>2. \A i \in Items : fewer[i] = x.held[i] + Share(p.seller, p).held[i]
    <3> SUFFICES ASSUME NEW i \in Items PROVE fewer[i] = x.held[i] + Share(p.seller, p).held[i]
      OBVIOUS
    <3>1. x.held[i] \in Int
      BY <1>2
    <3>2. CASE i = p.item
      BY <1>1, <1>3, <1>4, <1>11, <2>1, <3>1, <3>2
    <3>3. CASE i # p.item
      BY <1>4, <2>1, <3>1, <3>3
    <3> QED
      BY <3>2, <3>3
  <2> QED
    BY <1>9, <1>10, <2>1, <2>2 DEF Adds
<1>12. ASSUME NEW u, u # p.seller
       PROVE  Adds(Believed(GS!Bought(x, p)), Believed(x), Share(u, p))
  <2>1. /\ Share(u, p).ed = -cost
        /\ \A i \in Items : Share(u, p).held[i] = IF i # p.item THEN 0 ELSE p.quantity
    BY <1>12, ShareIs DEF cost
  <2>2. \A i \in Items : more[i] = x.held[i] + Share(u, p).held[i]
    <3> SUFFICES ASSUME NEW i \in Items PROVE more[i] = x.held[i] + Share(u, p).held[i]
      OBVIOUS
    <3>1. x.held[i] \in Int
      BY <1>2
    <3> QED
      BY <1>1, <1>4, <2>1, <3>1
  <2>3. x.ed - cost = x.ed + Share(u, p).ed
    BY <1>1, <1>2, <2>1
  <2> QED
    BY <1>9, <1>10, <2>2, <2>3 DEF Adds
<1> QED
  BY <1>9, <1>11, <1>12

\* A write of all that has changed: it counts as written, and is on its way.
LEMMA FlushBalances ==
  ASSUME NEW v \in Units, NEW x, NEW d, NEW os, NEW box, NEW x2, NEW box2, NEW buy \in BOOLEAN,
         SoundBook(v, x, d, os, box), SoundBook(v, x2, d, os, box2), Book(v, x, d, os, box),
         x2.online => x.online, Believed(x2) = [ed |-> x.ed, held |-> x.held],
         x2.writes = Append(x.writes, GS!Change(x, buy)), Same(AllTold(v, box2), AllTold(v, box))
  PROVE  Book(v, x2, d, os, box2)
<1> SUFFICES ASSUME x2.online
             PROVE  Balances(Believed(x2), Record(d, v), GS!AllOf(x2.writes), AllDue(v, os),
                             AllTold(v, box2))
  BY DEF Book
<1> DEFINE c == GS!Change(x, buy)
<1>1. Balances(Believed(x), Record(d, v), GS!AllOf(x.writes), AllDue(v, os), AllTold(v, box))
  BY DEF Book
<1>2. x \in GS!User /\ c \in GS!Write /\ x.writes \in Seq(GS!Write)
  BY WriteTypes DEF SoundBook, GS!User
<1>3. Adds(Believed(x2), Believed(x), c)
  <2>1. /\ x.ed \in Int /\ x.init \in Int
        /\ \A i \in Items : x.held[i] \in Int /\ x.heldInit[i] \in Int
    BY <1>2 DEF GS!User
  <2>2. Believed(x).ed = x.init /\ Believed(x).held = x.heldInit
    BY DEF Believed
  <2>3. c.ed = x.ed - x.init /\ \A i \in Items : c.held[i] = x.held[i] - x.heldInit[i]
    BY DEF GS!Change
  <2> HIDE DEF c
  <2> QED
    BY <2>1, <2>2, <2>3 DEF Adds
<1>4. IsEntry(c)
  BY <1>2 DEF GS!Write, IsEntry
<1> HIDE DEF c
<1>5. Adds(GS!AllOf(x2.writes), GS!AllOf(x.writes), c)
  BY <1>2, MoreWritten DEF c
<1>6. /\ IsEntry(Believed(x)) /\ IsEntry(Record(d, v)) /\ IsEntry(GS!AllOf(x.writes))
      /\ IsEntry(AllDue(v, os)) /\ IsEntry(AllTold(v, box))
      /\ IsEntry(Believed(x2)) /\ IsEntry(GS!AllOf(x2.writes)) /\ IsEntry(AllTold(v, box2))
  BY NumbersAre DEF SoundBook
<1> QED
  BY ONLY <1>1, <1>3, <1>4, <1>5, <1>6, WriteStarts,
     Same(AllTold(v, box2), AllTold(v, box))

-----------------------------------------------------------------------------
(* Every step keeps the books.                                             *)

\* What the room does short of an answer moves nobody's books.
LEMMA RoomBooks ==
  ASSUME SystemIsSound, Books, (\E u \in Units : Deliver(u)) \/ RoomTick
  PROVE  Books'
<1>1. SystemIsSound' /\ (\A v \in Units : GoesOn(down[v], down'[v], Notice))
      /\ GoesOn(orders, orders', Asked)
  BY DeliverTypes, RoomTickTypes
<1>2. UNCHANGED <<user, db, drifted>>
  BY DEF Deliver, RoomTick, sysGhosts
<1>3. Keep(Units)
  BY <1>1, <1>2, TheyStay DEF SameMind
<1> QED
  BY <1>2, <1>3 DEF Books, Keep

\* A game server's step: its own unit's books, and the others'.
LEMMA OneActs ==
  ASSUME SystemIsSound, SystemIsSound', Books, NEW u \in Units, Elsewhere,
         \A v \in Units \ {u} : /\ user'[v] = user[v] /\ down'[v] = down[v]
                                /\ db'.ed[v] = db.ed[v] /\ db'.held[v] = db.held[v],
         drifted' \in {drifted, drifted \cup {u}, drifted \ {u}},
         u \notin drifted' => Balanced(u)'
  PROVE  Books'
<1>1. orders' = orders
  BY DEF Elsewhere
<1>2. Keep(Units \ {u})
  BY <1>1, TheyStay, SameIsSame DEF SameMind
<1> QED
  BY <1>2 DEF Books, Keep

\* Nor do a request or the use of a piece: the piece leaves the memory, which is
\* not what the books are about until it is written.
LEMMA AskBooks ==
  ASSUME SystemIsSound, Books, NEW u \in Units, Ask(u) \/ Use(u)
  PROVE  Books'
<1>1. SystemIsSound'
  BY AskTypes, UserUses
<1>2. UNCHANGED <<db, drifted, orders, down>>
  BY DEF Ask, Use, Elsewhere, GS!OpenShop, GS!RegItems, GS!BreakShop, GS!JoinShop, GS!LeaveShop,
         GS!Relay, GS!UseItem
<1>3. \A v \in Units : user[v] \in GS!User
  BY DEF SystemIsSound, ServersAreSound, UsersAreSound
<1>4. ASSUME NEW v \in Units PROVE SameMind(user'[v], user[v])
  <2>1. CASE UNCHANGED user
    BY <2>1 DEF SameMind
  <2>2. CASE user' = [user EXCEPT ![u].shopping = TRUE]
    BY <1>3, <2>2 DEF SameMind, GS!User, SystemIsSound, ServersAreSound, UsersAreSound
  <2>3. ASSUME NEW i, user' = [user EXCEPT ![u].held[i] = @ - 1]
        PROVE  SameMind(user'[v], user[v])
    BY <1>3, <2>3 DEF SameMind, GS!User, SystemIsSound, ServersAreSound, UsersAreSound
  <2> QED
    BY <2>1, <2>2, <2>3
       DEF Ask, Use, GS!OpenShop, GS!RegItems, GS!BreakShop, GS!JoinShop, GS!LeaveShop,
           GS!Relay, GS!UseItem
<1>5. Keep(Units)
  BY <1>1, <1>2, <1>4, TheyStay, SameIsSame
<1> QED
  BY <1>2, <1>5 DEF Books, Keep

\* A request to buy writes: the image moves and the write carries the rest.
LEMMA BuyBooks ==
  ASSUME SystemIsSound, Books, NEW u \in Units, Buy(u)
  PROVE  Books'
<1> DEFINE y == GS!WriteUnitInfo(user[u], TRUE)
<1>1. SystemIsSound' /\ Elsewhere /\ UNCHANGED <<db, drifted>>
  BY BuyerTypes DEF Buy
<1>2. PICK i \in Items, quantity \in Quantities : GS!BuyItem(u, i, quantity)
  BY DEF Buy
<1> DEFINE w == [item |-> i, quantity |-> quantity, ed |-> user[u].ed]
           x == [y EXCEPT !.filter = TRUE, !.wish = {w}]
<1>3. user' = [user EXCEPT ![u] = x] /\ UNCHANGED <<up, down>> /\ user[u].online
  BY <1>2 DEF GS!BuyItem, GS!Client
<1>4. user \in [Units -> GS!User] /\ UNCHANGED orders
  BY <1>1 DEF SystemIsSound, ServersAreSound, UsersAreSound, Elsewhere
<1>5. /\ y \in GS!User /\ y.init = user[u].ed /\ y.heldInit = user[u].held
      /\ y.writes = Append(user[u].writes, GS!Change(user[u], TRUE))
  BY <1>4, WriteTypes
<1> HIDE DEF w, y
<1>6. x.init = y.init /\ x.heldInit = y.heldInit /\ x.writes = y.writes
  BY <1>5 DEF GS!User
<1> HIDE DEF x
<1>7. user'[u] = x /\ \A v \in Units \ {u} : user'[v] = user[v]
  BY <1>3, <1>4
<1>8. ASSUME u \notin drifted PROVE Balanced(u)'
  <2>1. SoundBook(u, user[u], db, orders, down[u]) /\ SoundBook(u, x, db, orders, down[u])
    <3>1. user'[u] \in GS!User
      BY <1>1 DEF SystemIsSound, ServersAreSound, UsersAreSound
    <3> QED
      BY <1>7, <3>1, BookIsSound DEF SoundBook
  <2>2. Book(u, user[u], db, orders, down[u])
    BY <1>8 DEF Books, Balanced
  <2>3. Believed(x) = [ed |-> user[u].ed, held |-> user[u].held]
    BY <1>5, <1>6 DEF Believed
  <2>4. x.writes = Append(user[u].writes, GS!Change(user[u], TRUE))
    BY <1>5, <1>6
  <2>5. Book(u, x, db, orders, down[u])
    BY <1>3, <2>1, <2>2, <2>3, <2>4, FlushBalances, SameIsSame
  <2> QED
    BY <1>1, <1>3, <1>4, <1>7, <2>5 DEF Balanced
<1> QED
  BY <1>1, <1>3, <1>7, <1>8, OneActs

\* A write ends: the record takes what of it has arrived.  What has failed is
\* taken back from the image, or added to the write that deletes the item; if
\* neither, the unit has drifted.
LEMMA WriteBooks ==
  ASSUME SystemIsSound, Books, NEW u \in Units, Written(u)
  PROVE  Books'
<1> DEFINE w == Head(user[u].writes)
           rest == [user[u] EXCEPT !.writes = Tail(@)]
<1>1. SystemIsSound' /\ Elsewhere /\ UNCHANGED <<down, orders>>
  BY WriteIsDone DEF Written, Elsewhere, GS!UnitInfoWritten
<1>2. user \in [Units -> GS!User] /\ user[u] \in GS!User /\ user[u].writes # <<>>
      /\ user[u].writes \in Seq(GS!Write) /\ user[u].online
  BY DEF Written, GS!UnitInfoWritten, SystemIsSound, ServersAreSound, UsersAreSound, GS!User
<1>3. w \in GS!Write /\ IsEntry(w) /\ Tail(user[u].writes) \in Seq(GS!Write)
  <2>1. w \in GS!Write /\ Tail(user[u].writes) \in Seq(GS!Write)
    BY <1>2
  <2> QED
    BY <2>1 DEF GS!Write, IsEntry
<1>4. /\ rest \in GS!User
      /\ rest.init = user[u].init /\ rest.heldInit = user[u].heldInit
      /\ rest.writes = Tail(user[u].writes) /\ rest.online = user[u].online
  <2>1. ASSUME NEW z \in GS!User, NEW q \in Seq(GS!Write)
        PROVE  LET y == [z EXCEPT !.writes = q]
               IN /\ y \in GS!User /\ y.init = z.init /\ y.heldInit = z.heldInit
                  /\ y.writes = q /\ y.online = z.online
    BY DEF GS!User
  <2> QED
    BY <1>2, <1>3, <2>1
<1>5. Adds(GS!AllOf(user[u].writes), w, GS!AllOf(Tail(user[u].writes)))
  BY <1>2, FirstWritten
<1>6. PICK ed \in {0, w.ed}, some \in SUBSET {i \in Items : w.held[i] # 0} :
        LET arrived == GS!Part(w, w.ed - ed, Items \ some)
            lost == GS!Lost(rest, GS!Part(w, ed, some))
        IN /\ GS!UnitInfoWritten(u, ed, some) /\ db' = Credit(u, arrived.ed, arrived.held)
           /\ drifted' = IF lost # {} THEN drifted \cup {u} ELSE drifted
  BY DEF Written
<1> DEFINE f == GS!Part(w, ed, some)
           c == GS!Part(w, w.ed - ed, Items \ some)
           x == GS!Unwritten(rest, f)
           deleted == GS!Deleted(rest, f)
           k == [ed |-> 0, held |-> [i \in Items |-> IF i \in deleted THEN f.held[i] ELSE 0]]
<1>7. user' = [user EXCEPT ![u] = x]
  BY <1>6 DEF GS!UnitInfoWritten
<1> HIDE DEF rest, w
<1>8. ed \in Int /\ some \in SUBSET Items
  BY <1>3 DEF IsEntry
<1>9. /\ f \in GS!Write /\ c \in GS!Write /\ w.ed = c.ed + f.ed
      /\ \A i \in Items : w.held[i] = c.held[i] + f.held[i]
  BY <1>3, <1>8, PartsAre
<1> HIDE DEF f, c
<1>10. IsEntry(f) /\ IsEntry(c)
  BY <1>9 DEF GS!Write, IsEntry
<1>11. IsEntry(k)
  BY <1>10 DEF IsEntry
<1>12. /\ x \in GS!User /\ x.online = rest.online /\ x.init = rest.init - f.ed
       /\ \A i \in Items :
            x.heldInit[i] = IF i \in deleted \cup GS!Lost(rest, f) THEN rest.heldInit[i]
                            ELSE rest.heldInit[i] - f.held[i]
  BY <1>4, <1>9, UnwrittenIs
<1>13. /\ GS!AllOf(x.writes).ed = GS!AllOf(rest.writes).ed
       /\ \A i \in Items :
            GS!AllOf(x.writes).held[i]
              = GS!AllOf(rest.writes).held[i] + IF i \in deleted THEN f.held[i] ELSE 0
  BY <1>4, <1>9, LongerWrites
<1> HIDE DEF x, deleted
<1>14. user'[u] = x /\ \A v \in Units \ {u} : user'[v] = user[v]
  BY <1>2, <1>7
<1>15. /\ \A v \in Units \ {u} : db'.ed[v] = db.ed[v] /\ db'.held[v] = db.held[v]
       /\ db'.ed[u] = db.ed[u] + c.ed
       /\ \A i \in Items : db'.held[u][i] = db.held[u][i] + c.held[i]
  <2>1. db' = Credit(u, c.ed, c.held)
    BY <1>6 DEF c
  <2> QED
    BY <1>10, <2>1, CreditIs DEF SystemIsSound, IsEntry
<1>16. /\ SoundBook(u, user[u], db, orders, down[u])
       /\ SoundBook(u, x, db', orders, down[u])
  BY <1>1, <1>12, BookIsSound
     DEF SystemIsSound, ServersAreSound, UsersAreSound, DownIsSound, DbIsSound, SoundBook
<1>17. /\ IsEntry(Believed(user[u])) /\ IsEntry(Record(db, u)) /\ IsEntry(GS!AllOf(user[u].writes))
       /\ IsEntry(AllDue(u, orders)) /\ IsEntry(AllTold(u, down[u]))
       /\ IsEntry(Believed(x)) /\ IsEntry(Record(db', u)) /\ IsEntry(GS!AllOf(x.writes))
  BY <1>16, NumbersAre DEF SoundBook
<1>18. IsEntry(GS!AllOf(rest.writes))
  BY <1>3, <1>4, WritesAreBook, AllIsEntry
<1>19. ASSUME u \notin drifted' PROVE Book(u, x, db', orders, down[u])
  <2>1. GS!Lost(rest, f) = {} /\ u \notin drifted
    BY <1>6, <1>19 DEF f
  <2>2. Balances(Believed(user[u]), Record(db, u), GS!AllOf(user[u].writes),
                 AllDue(u, orders), AllTold(u, down[u]))
    BY <1>2, <2>1 DEF Books, Balanced, Book
  <2>3. /\ GS!AllOf(user[u].writes).ed = (c.ed + f.ed) + GS!AllOf(rest.writes).ed
        /\ GS!AllOf(x.writes).ed = GS!AllOf(rest.writes).ed + k.ed
        /\ Record(db', u).ed = Record(db, u).ed + c.ed
        /\ Believed(x).ed = Believed(user[u]).ed - (f.ed - k.ed)
    <3>1. /\ f.ed \in Int /\ GS!AllOf(rest.writes).ed \in Int /\ k.ed = 0
      BY <1>10, <1>18 DEF IsEntry
    <3>2. /\ Believed(x).ed = Believed(user[u]).ed - f.ed
          /\ Record(db', u).ed = Record(db, u).ed + c.ed
      BY <1>4, <1>12, <1>15 DEF Believed, Record
    <3>3. GS!AllOf(user[u].writes).ed = (c.ed + f.ed) + GS!AllOf(rest.writes).ed
      BY <1>4, <1>5, <1>9 DEF Adds
    <3> HIDE DEF k
    <3> QED
      BY <1>13, <3>1, <3>2, <3>3
  <2>4. ASSUME NEW i \in Items
        PROVE  /\ GS!AllOf(user[u].writes).held[i]
                    = (c.held[i] + f.held[i]) + GS!AllOf(rest.writes).held[i]
               /\ GS!AllOf(x.writes).held[i] = GS!AllOf(rest.writes).held[i] + k.held[i]
               /\ Record(db', u).held[i] = Record(db, u).held[i] + c.held[i]
               /\ Believed(x).held[i] = Believed(user[u]).held[i] - (f.held[i] - k.held[i])
    <3>1. /\ Believed(user[u]).held[i] \in Int /\ f.held[i] \in Int
          /\ k.held[i] = IF i \in deleted THEN f.held[i] ELSE 0
      BY <1>10, <1>17 DEF IsEntry
    <3>2. /\ Believed(x).held[i] = IF i \in deleted THEN Believed(user[u]).held[i]
                                   ELSE Believed(user[u]).held[i] - f.held[i]
          /\ Record(db', u).held[i] = Record(db, u).held[i] + c.held[i]
      BY <1>4, <1>12, <1>15, <2>1 DEF Believed, Record
    <3>3. GS!AllOf(user[u].writes).held[i]
            = (c.held[i] + f.held[i]) + GS!AllOf(rest.writes).held[i]
      BY <1>4, <1>5, <1>9 DEF Adds
    <3>4. GS!AllOf(x.writes).held[i] = GS!AllOf(rest.writes).held[i] + k.held[i]
      BY <1>13, <3>1
    <3> HIDE DEF k
    <3>5. Believed(x).held[i] = Believed(user[u]).held[i] - (f.held[i] - k.held[i])
      BY <3>1, <3>2
    <3> QED
      BY <3>2, <3>3, <3>4, <3>5
  <2> HIDE DEF k
  <2>5. Ends(Believed(user[u]), Record(db, u), GS!AllOf(user[u].writes), Believed(x),
             Record(db', u), GS!AllOf(x.writes), GS!AllOf(rest.writes), c, f, k)
    BY <2>3, <2>4 DEF Ends
  <2>6. Balances(Believed(x), Record(db', u), GS!AllOf(x.writes), AllDue(u, orders),
                 AllTold(u, down[u]))
    BY ONLY <1>10, <1>11, <1>17, <1>18, <2>2, <2>5, WriteEnds
  <2> QED
    BY <2>6 DEF Book
<1>20. drifted' \in {drifted, drifted \cup {u}, drifted \ {u}}
  BY <1>6
<1> QED
  BY <1>1, <1>14, <1>15, <1>19, <1>20, OneActs DEF Balanced

\* A packet arrives: a notice of a sale moves the image by what it told.
LEMMA PacketBooks ==
  ASSUME SystemIsSound, Books, NEW u \in Units, Receive(u)
  PROVE  Books'
<1> DEFINE m == Head(down[u])
<1>1. SystemIsSound' /\ Elsewhere /\ UNCHANGED <<db, orders>>
  BY PacketTypes DEF Receive, Elsewhere
<1>2. user \in [Units -> GS!User] /\ user[u] \in GS!User /\ DownIsSound
  BY DEF SystemIsSound, ServersAreSound, UsersAreSound
<1>3. down[u] # <<>> /\ down' = [down EXCEPT ![u] = Tail(@)]
  BY DEF Receive, GS!Receive, GS!Undelivered, GS!Opened, GS!Registered, GS!Joined, GS!Left,
         GS!BuyAck, GS!ConfirmReq, GS!CompleteNot, GS!Take
<1>4. /\ m \in DownMessage /\ down[u] \in Seq(DownMessage) /\ Tail(down[u]) \in Seq(DownMessage)
      /\ down'[u] = Tail(down[u]) /\ \A v \in Units \ {u} : down'[v] = down[v]
  <2>1. down[u] \in Seq(DownMessage)
    BY <1>2 DEF DownIsSound
  <2> QED
    BY <1>2, <1>3, <2>1 DEF DownIsSound
<1>5. Adds(AllTold(u, down[u]), ToldIn(u, m), AllTold(u, Tail(down[u])))
  BY <1>3, <1>4, FirstTold
<1>6. /\ SoundBook(u, user[u], db, orders, down[u])
      /\ user'[u] \in GS!User /\ SoundBook(u, user'[u], db, orders, Tail(down[u]))
  BY <1>1, <1>4, BookIsSound DEF SystemIsSound, ServersAreSound, UsersAreSound, SoundBook
<1>7. /\ IsEntry(Believed(user[u])) /\ IsEntry(Record(db, u)) /\ IsEntry(GS!AllOf(user[u].writes))
      /\ IsEntry(AllDue(u, orders)) /\ IsEntry(AllTold(u, down[u]))
      /\ IsEntry(AllTold(u, Tail(down[u])))
      /\ IsEntry(Believed(user'[u])) /\ IsEntry(GS!AllOf(user'[u].writes))
  BY <1>6, NumbersAre DEF SoundBook
<1>8. ASSUME u \notin drifted PROVE Book(u, user[u], db, orders, down[u])
  BY <1>8 DEF Books, Balanced
<1>9. drifted' \in {drifted, drifted \cup {u}} /\ (u \notin drifted' => u \notin drifted)
  BY DEF Receive
<1>10. ASSUME NEW x, user' = [user EXCEPT ![u] = x] \/ (UNCHANGED user /\ x = user[u]),
              u \notin drifted' => Book(u, x, db, orders, Tail(down[u]))
       PROVE  Books'
  <2>1. user'[u] = x /\ \A v \in Units \ {u} : user'[v] = user[v]
    BY <1>2, <1>10
  <2>2. u \notin drifted' => Balanced(u)'
    BY <1>1, <1>4, <1>10, <2>1 DEF Balanced
  <2> QED
    BY <1>1, <1>4, <1>9, <2>1, <2>2, OneActs
<1>11. ASSUME NEW p \in {"OPEN_ACK", "REG_ACK", "JOIN_ACK", "BREAK_ACK", "LEAVE_ACK", "BUY_ACK",
                         "BREAK_NOT", "CONFIRM_REQ"}, m.type = p
       PROVE  Same(AllTold(u, Tail(down[u])), AllTold(u, down[u]))
  <2>1. ToldIn(u, m) = NoChange
    BY <1>11 DEF ToldIn
  <2>2. NoChange.ed = 0 /\ \A i \in Items : NoChange.held[i] = 0
    BY DEF NoChange
  <2>3. /\ AllTold(u, down[u]).ed = 0 + AllTold(u, Tail(down[u])).ed
        /\ AllTold(u, Tail(down[u])).ed \in Int
        /\ \A i \in Items : /\ AllTold(u, down[u]).held[i] = 0 + AllTold(u, Tail(down[u])).held[i]
                            /\ AllTold(u, Tail(down[u])).held[i] \in Int
    BY <1>5, <1>7, <2>1, <2>2 DEF Adds, IsEntry
  <2> QED
    BY <2>3 DEF Same
<1>12. ASSUME NEW p \in {"OPEN_ACK", "REG_ACK", "JOIN_ACK", "BREAK_ACK", "LEAVE_ACK", "BUY_ACK",
                         "BREAK_NOT", "CONFIRM_REQ"}, m.type = p,
              NEW x \in GS!User, SameMind(x, user[u]),
              user' = [user EXCEPT ![u] = x] \/ (UNCHANGED user /\ x = user[u])
       PROVE  Books'
  <2>1. ASSUME u \notin drifted, x.online PROVE Book(u, x, db, orders, Tail(down[u]))
    <3>1. Balances(Believed(user[u]), Record(db, u), GS!AllOf(user[u].writes),
                   AllDue(u, orders), AllTold(u, down[u]))
      BY <1>8, <1>12, <2>1 DEF Book, SameMind
    <3>2. Believed(x) = Believed(user[u]) /\ GS!AllOf(x.writes) = GS!AllOf(user[u].writes)
      BY <1>12 DEF Believed, SameMind
    <3>3. Same(AllTold(u, Tail(down[u])), AllTold(u, down[u]))
      BY <1>11, <1>12
    <3>4. Balances(Believed(user[u]), Record(db, u), GS!AllOf(user[u].writes),
                   AllDue(u, orders), AllTold(u, Tail(down[u])))
      BY ONLY <3>1, <3>3, SameIsSame, StillBalances
    <3> QED
      BY <3>2, <3>4 DEF Book
  <2>2. u \notin drifted' => Book(u, x, db, orders, Tail(down[u]))
    BY <1>9, <2>1 DEF Book
  <2> QED
    BY <1>10, <1>12, <2>2
<1>13. CASE GS!Undelivered(u)
  <2>1. UNCHANGED user /\ ~user[u].online
    BY <1>13 DEF GS!Undelivered
  <2>2. Book(u, user[u], db, orders, Tail(down[u]))
    BY <2>1 DEF Book
  <2> QED
    BY <1>10, <2>1, <2>2
<1>14. ASSUME NEW b \in BOOLEAN
       PROVE  LET x == [user[u] EXCEPT !.shopping = b]
              IN x \in GS!User /\ SameMind(x, user[u])
  BY <1>2 DEF GS!User, SameMind
<1>15. CASE GS!Opened(u)
  <2>1. m.type = "OPEN_ACK" /\ m.ok \in BOOLEAN /\ user[u].shopping \in BOOLEAN
    BY <1>2, <1>4, <1>15 DEF GS!Opened, GS!Next, DownMessage, Notice, SaleNotice, GS!User
  <2> DEFINE b == user[u].shopping \/ m.ok
             x == [user[u] EXCEPT !.shopping = b]
  <2>2. user' = [user EXCEPT ![u] = x]
    BY <1>15 DEF GS!Opened, GS!Next
  <2>3. b \in BOOLEAN
    OBVIOUS
  <2> HIDE DEF b
  <2>4. x \in GS!User /\ SameMind(x, user[u])
    BY <1>14, <2>3
  <2> HIDE DEF x
  <2> QED
    BY <1>12, <2>1, <2>2, <2>4
<1>16. CASE GS!Joined(u)
  <2>1. m.type = "JOIN_ACK" /\ m.ok \in BOOLEAN
    BY <1>4, <1>16 DEF GS!Joined, GS!Next, DownMessage, Notice, SaleNotice
  <2> DEFINE x == [user[u] EXCEPT !.shopping = m.ok]
  <2>2. user' = [user EXCEPT ![u] = x]
    BY <1>16 DEF GS!Joined, GS!Next
  <2>3. x \in GS!User /\ SameMind(x, user[u])
    BY <1>14, <2>1
  <2> HIDE DEF x
  <2> QED
    BY <1>12, <2>1, <2>2, <2>3
<1>17. CASE GS!Left(u)
  <2>1. m.type \in {"BREAK_ACK", "LEAVE_ACK", "BREAK_NOT"}
    BY <1>17 DEF GS!Left, GS!Next
  <2> DEFINE b == user[u].shopping /\ m.type # "BREAK_NOT" /\ ~m.ok
             x == [user[u] EXCEPT !.shopping = b]
  <2>2. user' = [user EXCEPT ![u] = x]
    BY <1>17 DEF GS!Left, GS!Next
  <2>3. b \in BOOLEAN
    OBVIOUS
  <2> HIDE DEF b
  <2>4. x \in GS!User /\ SameMind(x, user[u])
    BY <1>14, <2>3
  <2> HIDE DEF x
  <2> QED
    BY <1>12, <2>1, <2>2, <2>4
<1>18. CASE GS!BuyAck(u)
  <2> DEFINE x == [user[u] EXCEPT !.filter = FALSE]
  <2>1. m.type = "BUY_ACK" /\ user' = [user EXCEPT ![u] = x]
    BY <1>18 DEF GS!BuyAck, GS!Next
  <2>2. x \in GS!User /\ SameMind(x, user[u])
    BY <1>2 DEF GS!User, SameMind
  <2> HIDE DEF x
  <2> QED
    BY <1>12, <2>1, <2>2
<1>19. CASE GS!ConfirmReq(u)
  <2>1. m.type = "CONFIRM_REQ" /\ UNCHANGED user /\ SameMind(user[u], user[u])
    BY <1>19 DEF GS!ConfirmReq, GS!Next, SameMind
  <2> QED
    BY <1>2, <1>12, <2>1
<1>20. CASE GS!Registered(u)
  <2>1. m.type = "REG_ACK" /\ user[u].online
        /\ user' = [user EXCEPT ![u] = IF m.ok THEN GS!WriteUnitInfo(@, FALSE) ELSE @]
    BY <1>20 DEF GS!Registered, GS!Next, GS!Take
  <2>2. CASE ~m.ok
    <3>1. user' = [user EXCEPT ![u] = user[u]] /\ SameMind(user[u], user[u])
      BY <2>1, <2>2 DEF SameMind
    <3> QED
      BY <1>2, <1>12, <2>1, <3>1
  <2>3. CASE m.ok
    <3> DEFINE x == GS!WriteUnitInfo(user[u], FALSE)
    <3>1. user' = [user EXCEPT ![u] = x]
      BY <2>1, <2>3
    <3>2. /\ x \in GS!User /\ Believed(x) = [ed |-> user[u].ed, held |-> user[u].held]
          /\ x.writes = Append(user[u].writes, GS!Change(user[u], FALSE))
      BY <1>2, WriteTypes DEF Believed
    <3> HIDE DEF x
    <3>3. SoundBook(u, x, db, orders, Tail(down[u]))
      BY <1>6, <3>2 DEF SoundBook
    <3>4. Same(AllTold(u, Tail(down[u])), AllTold(u, down[u]))
      BY <1>11, <2>1
    <3>5. u \notin drifted => Book(u, x, db, orders, Tail(down[u]))
      BY <1>6, <1>8, <2>1, <3>2, <3>3, <3>4, FlushBalances
    <3> QED
      BY <1>9, <1>10, <3>1, <3>5
  <2> QED
    BY <2>2, <2>3
<1>21. CASE GS!CompleteNot(u)
  <2> DEFINE p == m.purchase
             x == IF u = p.seller THEN GS!Sold(user[u], p) ELSE GS!Bought(user[u], p)
  <2>1. m.type = "COMPLETE_NOT" /\ user[u].online /\ user' = [user EXCEPT ![u] = x]
    BY <1>21 DEF GS!CompleteNot, GS!Next, GS!Take
  <2>2. p \in Sale
    BY <1>4, <2>1 DEF DownMessage, Notice, SaleNotice
  <2>3. ToldIn(u, m) = Share(u, p)
    BY <2>1 DEF ToldIn
  <2>4. ASSUME u \notin drifted'
        PROVE  u \notin drifted /\ InStep(u) /\ ~Short(u, p)
    BY <2>1, <2>4 DEF Receive, GS!Next
  <2>5. x \in GS!User
    BY <1>2, <2>2, SaleTypes
  <2> HIDE DEF p
  <2>6. ASSUME u \notin drifted'
        PROVE  /\ Adds(Believed(x), Believed(user[u]), Share(u, p))
               /\ x.writes = user[u].writes
    <3>1. user[u].ed = user[u].init /\ user[u].held = user[u].heldInit
      BY <2>4, <2>6 DEF InStep
    <3>2. CASE u = p.seller
      <4>1. user[u].held[p.item] \in Int /\ p.quantity \in Nat
        BY <1>2, <2>2, CostType DEF GS!User
      <4>2. user[u].held[p.item] >= p.quantity
        BY <2>4, <2>6, <3>2, <4>1 DEF Short
      <4> QED
        BY <1>2, <2>2, <3>1, <3>2, <4>2, LearntIs
    <3>3. CASE u # p.seller
      BY <1>2, <2>2, <3>1, <3>3, LearntIs
    <3> QED
      BY <3>2, <3>3
  <2> HIDE DEF x
  <2>7. user'[u] = x
    BY <1>2, <2>1
  <2>8. ASSUME u \notin drifted' PROVE Book(u, x, db, orders, Tail(down[u]))
    <3>1. Balances(Believed(user[u]), Record(db, u), GS!AllOf(user[u].writes),
                   AllDue(u, orders), AllTold(u, down[u]))
      BY <1>8, <2>1, <2>4, <2>8 DEF Book
    <3>2. Adds(AllTold(u, down[u]), Share(u, p), AllTold(u, Tail(down[u])))
      BY <1>5, <2>3
    <3>3. IsEntry(Share(u, p))
      BY <2>2, ShareIs
    <3>4. /\ Adds(Believed(x), Believed(user[u]), Share(u, p))
          /\ GS!AllOf(x.writes) = GS!AllOf(user[u].writes)
      BY <2>6, <2>8
    <3>5. IsEntry(Believed(x))
      BY <1>7, <2>7
    <3>6. Balances(Believed(x), Record(db, u), GS!AllOf(user[u].writes),
                   AllDue(u, orders), AllTold(u, Tail(down[u])))
      BY ONLY <1>7, <3>1, <3>2, <3>3, <3>4, <3>5, SaleArrives
    <3> QED
      BY <3>4, <3>6 DEF Book
  <2> QED
    BY <1>10, <2>1, <2>8
<1> QED
  BY <1>13, <1>15, <1>16, <1>17, <1>18, <1>19, <1>20, <1>21 DEF Receive, GS!Receive

\* A logout ends a unit's books; a login opens them anew, and if no sale of the
\* unit was on its way it knows all there is.
LEMMA ComeAndGoBooks ==
  ASSUME SystemIsSound, Books, NEW u \in Units, ComeAndGo(u)
  PROVE  Books'
<1>1. SystemIsSound' /\ Elsewhere /\ UNCHANGED <<orders, down>>
  BY ComeAndGoTypes DEF ComeAndGo, Elsewhere, GS!Logout, GS!Login
<1>2. user \in [Units -> GS!User] /\ user' \in [Units -> GS!User]
  BY <1>1 DEF SystemIsSound, ServersAreSound, UsersAreSound
<1>3. CASE GS!Logout(u) /\ UNCHANGED drifted
           /\ db' = Credit(u, GS!Outstanding(u).ed, GS!Outstanding(u).held)
  <2>1. ~user'[u].online
    BY <1>2, <1>3 DEF GS!Logout
  <2>2. \A v \in Units \ {u} : user'[v] = user[v]
    BY <1>2, <1>3 DEF GS!Logout
  <2>3. \A v \in Units \ {u} : db'.ed[v] = db.ed[v] /\ db'.held[v] = db.held[v]
    BY <1>3, OutstandingIs, CreditIs DEF SystemIsSound, IsEntry
  <2>4. Balanced(u)'
    BY <2>1 DEF Balanced, Book
  <2> QED
    BY <1>1, <1>3, <2>2, <2>3, <2>4, OneActs
<1>4. CASE GS!Login(u, db.ed[u], db.held[u]) /\ UNCHANGED db
           /\ drifted' = IF Carried(u) \cup Told(u) # {} THEN drifted \cup {u} ELSE drifted \ {u}
  <2> DEFINE x == GS!LoggedIn(db.ed[u], db.held[u])
  <2>1. db.ed[u] \in Int /\ db.held[u] \in [Items -> Int]
    BY DEF SystemIsSound, DbIsSound
  <2>2. /\ x \in GS!User /\ Believed(x) = [ed |-> db.ed[u], held |-> db.held[u]]
        /\ x.writes = <<>>
    BY <2>1, LoggedInTypes DEF Believed
  <2>3. user' = [user EXCEPT ![u] = x]
    BY <1>4 DEF GS!Login
  <2> HIDE DEF x
  <2>4. user'[u] = x /\ \A v \in Units \ {u} : user'[v] = user[v]
    BY <1>2, <2>3
  <2>5. ASSUME Carried(u) = {}
        PROVE  AllDue(u, orders).ed = 0 /\ \A i \in Items : AllDue(u, orders).held[i] = 0
    <3> DEFINE b == [n \in DOMAIN orders |-> DueIn(u, orders[n])]
    <3>1. orders \in Seq(Order)
      BY DEF SystemIsSound
    <3>2. /\ IsBook(b) /\ Len(b) = Len(orders) /\ AllDue(u, orders) = GS!AllOf(b)
          /\ \A n \in 1..Len(orders) : b[n] = DueIn(u, orders[n])
      BY <3>1, DueIsBook
    <3> HIDE DEF b
    <3>3. \A n \in 1..Len(b) : b[n] = NoChange
      BY <2>5, <3>1, <3>2 DEF Carried, DueIn
    <3> QED
      BY <3>2, <3>3, NothingInAll
  <2>6. ASSUME Told(u) = {}
        PROVE  AllTold(u, down[u]).ed = 0 /\ \A i \in Items : AllTold(u, down[u]).held[i] = 0
    <3> DEFINE b == [n \in DOMAIN down[u] |-> ToldIn(u, down[u][n])]
    <3>1. down[u] \in Seq(DownMessage)
      BY DEF SystemIsSound, ServersAreSound, DownIsSound
    <3>2. /\ IsBook(b) /\ Len(b) = Len(down[u]) /\ AllTold(u, down[u]) = GS!AllOf(b)
          /\ \A n \in 1..Len(down[u]) : b[n] = ToldIn(u, down[u][n])
      BY <3>1, ToldIsBook
    <3> HIDE DEF b
    <3>3. \A n \in 1..Len(b) : b[n] = NoChange
      BY <2>6, <3>1, <3>2 DEF Told, ToldIn
    <3> QED
      BY <3>2, <3>3, NothingInAll
  <2>7. GS!AllOf(x.writes).ed = 0 /\ \A i \in Items : GS!AllOf(x.writes).held[i] = 0
    <3>1. IsBook(x.writes) /\ Len(x.writes) = 0
      BY <2>2 DEF IsBook
    <3> QED
      BY <3>1, NothingInAll
  <2>8. ASSUME u \notin drifted' PROVE Book(u, x, db, orders, down[u])
    <3>1. Carried(u) = {} /\ Told(u) = {}
      BY <1>4, <2>8
    <3>2. Balances(Believed(x), Record(db, u), GS!AllOf(x.writes), AllDue(u, orders),
                   AllTold(u, down[u]))
      BY <2>1, <2>2, <2>5, <2>6, <2>7, <3>1 DEF Balances, Record
    <3> QED
      BY <3>2 DEF Book
  <2>9. u \notin drifted' => Balanced(u)'
    BY <1>1, <1>4, <2>4, <2>8 DEF Balanced
  <2> QED
    BY <1>1, <1>4, <2>4, <2>9, OneActs
<1> QED
  BY <1>3, <1>4 DEF ComeAndGo

\* The DB carries a sale out: the records of both parties change, and each is
\* due the news.
LEMMA CarryBooks ==
  ASSUME SystemIsSound, Books, NEW n \in DOMAIN orders, Carry(n)
  PROVE  Books'
<1> DEFINE p == orders[n].purchase
<1>1. SystemIsSound' /\ UNCHANGED <<user, down, drifted>>
  BY CarryTypes DEF Carry, gsVars
<1>2. orders \in Seq(Order) /\ orders' \in Seq(Order) /\ orders[n].status = "asked"
  BY <1>1 DEF Carry, SystemIsSound
<1>3. p \in Sale
  <2>1. orders[n] \in Order
    BY <1>2
  <2> QED
    BY <2>1 DEF Order
<1>4. PICK status \in {"done", "refused", "error"} :
        /\ orders' = [orders EXCEPT ![n].status = status]
        /\ IF status = "done" THEN db' = CarriedOut(p) ELSE UNCHANGED db
  BY DEF Carry
<1> HIDE DEF p
<1> SUFFICES ASSUME NEW v \in Units \ drifted, user[v].online
             PROVE  Book(v, user[v], db', orders', down[v])
  BY <1>1 DEF Books, Balanced, Book
<1>5. /\ status = "done" /\ Concerns(v, p) => Adds(AllDue(v, orders'), AllDue(v, orders), Share(v, p))
      /\ ~Concerns(v, p) \/ status # "done" => Same(AllDue(v, orders'), AllDue(v, orders))
  BY <1>2, <1>4, OrderMoves DEF p
<1>6. Balances(Believed(user[v]), Record(db, v), GS!AllOf(user[v].writes), AllDue(v, orders),
               AllTold(v, down[v]))
  BY DEF Books, Balanced, Book
<1>7. /\ SoundBook(v, user[v], db, orders, down[v])
      /\ SoundBook(v, user[v], db', orders', down[v])
  BY <1>1, BookIsSound DEF SystemIsSound, DbIsSound, SoundBook
<1>8. /\ IsEntry(Believed(user[v])) /\ IsEntry(Record(db, v)) /\ IsEntry(GS!AllOf(user[v].writes))
      /\ IsEntry(AllDue(v, orders)) /\ IsEntry(AllTold(v, down[v]))
      /\ IsEntry(Record(db', v)) /\ IsEntry(AllDue(v, orders')) /\ IsEntry(Share(v, p))
  BY <1>3, <1>7, NumbersAre, ShareIs DEF SoundBook
<1>9. CASE status = "done" /\ Concerns(v, p)
  <2>1. Adds(Record(db', v), Record(db, v), Share(v, p))
    <3>1. /\ db'.ed[v] = db.ed[v] + Share(v, p).ed
          /\ \A i \in Items : db'.held[v][i] = db.held[v][i] + Share(v, p).held[i]
      BY <1>3, <1>4, <1>9, CarriedIs DEF SystemIsSound
    <3> QED
      BY <3>1 DEF Record, Adds
  <2>2. Adds(AllDue(v, orders'), AllDue(v, orders), Share(v, p))
    BY <1>5, <1>9
  <2>3. Balances(Believed(user[v]), Record(db', v), GS!AllOf(user[v].writes), AllDue(v, orders'),
                 AllTold(v, down[v]))
    BY ONLY <1>6, <1>8, <2>1, <2>2, SaleIsDone
  <2> QED
    BY <2>3 DEF Book
<1>10. CASE ~(status = "done" /\ Concerns(v, p))
  <2>1. Record(db', v) = Record(db, v)
    <3>1. db'.ed[v] = db.ed[v] /\ db'.held[v] = db.held[v]
      BY <1>3, <1>4, <1>10, CarriedIs DEF SystemIsSound
    <3> QED
      BY <3>1 DEF Record
  <2>2. Same(AllDue(v, orders'), AllDue(v, orders))
    BY <1>5, <1>10
  <2>3. Balances(Believed(user[v]), Record(db, v), GS!AllOf(user[v].writes), AllDue(v, orders'),
                 AllTold(v, down[v]))
    BY ONLY <1>6, <2>2, SameIsSame, StillBalances
  <2> QED
    BY <2>1, <2>3 DEF Book
<1> QED
  BY <1>9, <1>10

\* The room learns of it: what was due is on its way.
LEMMA AnswerBooks ==
  ASSUME SystemIsSound, Books, NEW n \in DOMAIN orders, Answer(n)
  PROVE  Books'
<1> DEFINE p == orders[n].purchase
           done == orders[n].status = "done"
<1>1. /\ SystemIsSound' /\ UNCHANGED <<user, db, drifted>>
      /\ \A v \in Units : IF done /\ Concerns(v, p)
                          THEN EndsWith(down[v], down'[v], Notice, CompleteNot(p))
                          ELSE GoesOn(down[v], down'[v], Notice)
  BY AnswerTypes DEF Answer, sysGhosts
<1>2. orders \in Seq(Order) /\ orders' \in Seq(Order)
  BY <1>1 DEF SystemIsSound
<1>3. p \in Sale
  <2>1. orders[n] \in Order
    BY <1>2
  <2> QED
    BY <2>1 DEF Order
<1>4. PICK status \in {"sold", "lost"} : orders' = [orders EXCEPT ![n].status = status]
  BY DEF Answer
<1> SUFFICES ASSUME NEW v \in Units \ drifted, user[v].online
             PROVE  Book(v, user[v], db, orders', down'[v])
  BY <1>1 DEF Books, Balanced, Book
<1>5. /\ done /\ Concerns(v, p) => Adds(AllDue(v, orders), AllDue(v, orders'), Share(v, p))
      /\ ~Concerns(v, p) \/ ~done => Same(AllDue(v, orders'), AllDue(v, orders))
  BY <1>2, <1>4, OrderMoves
<1> HIDE DEF p, done
<1>6. Balances(Believed(user[v]), Record(db, v), GS!AllOf(user[v].writes), AllDue(v, orders),
               AllTold(v, down[v]))
  BY DEF Books, Balanced, Book
<1>7. /\ SoundBook(v, user[v], db, orders, down[v])
      /\ SoundBook(v, user[v], db, orders', down'[v])
  BY <1>1, BookIsSound DEF SystemIsSound, ServersAreSound, DownIsSound, SoundBook
<1>8. /\ IsEntry(Believed(user[v])) /\ IsEntry(Record(db, v)) /\ IsEntry(GS!AllOf(user[v].writes))
      /\ IsEntry(AllDue(v, orders)) /\ IsEntry(AllTold(v, down[v]))
      /\ IsEntry(AllDue(v, orders')) /\ IsEntry(AllTold(v, down'[v])) /\ IsEntry(Share(v, p))
  BY <1>3, <1>7, NumbersAre, ShareIs DEF SoundBook
<1>9. CASE done /\ Concerns(v, p)
  <2>1. Adds(AllTold(v, down'[v]), AllTold(v, down[v]), Share(v, p))
    BY <1>1, <1>3, <1>7, <1>9, MoreTold DEF SoundBook
  <2>2. Adds(AllDue(v, orders), AllDue(v, orders'), Share(v, p))
    BY <1>5, <1>9
  <2>3. Balances(Believed(user[v]), Record(db, v), GS!AllOf(user[v].writes), AllDue(v, orders'),
                 AllTold(v, down'[v]))
    BY ONLY <1>6, <1>8, <2>1, <2>2, SaleIsTold
  <2> QED
    BY <2>3 DEF Book
<1>10. CASE ~(done /\ Concerns(v, p))
  <2>1. Same(AllTold(v, down'[v]), AllTold(v, down[v]))
    BY <1>1, <1>7, <1>10, SameTold DEF SoundBook
  <2>2. Same(AllDue(v, orders'), AllDue(v, orders))
    BY <1>5, <1>10
  <2>3. Balances(Believed(user[v]), Record(db, v), GS!AllOf(user[v].writes), AllDue(v, orders'),
                 AllTold(v, down'[v]))
    BY ONLY <1>6, <2>1, <2>2, StillBalances
  <2> QED
    BY <2>3 DEF Book
<1> QED
  BY <1>9, <1>10

\* The books balance at first, with nothing under way,
LEMMA BooksInit == SysInit => Books
<1> SUFFICES ASSUME SysInit, NEW v \in Units PROVE Balanced(v)
  BY DEF Books
<1>1. SystemIsSound
  BY SoundInit
<1>2. /\ user[v] = GS!LoggedIn(Wealth[v], Stock[v]) /\ down[v] = <<>> /\ orders = <<>>
      /\ db.ed[v] = Wealth[v] /\ db.held[v] = Stock[v]
  BY DEF SysInit
<1>3. Wealth[v] \in Int /\ Stock[v] \in [Items -> Int]
  <2>1. Wealth[v] \in Nat /\ Stock[v] \in [Items -> Nat]
    BY SystemAssumption
  <2> QED
    BY <2>1
<1>4. Believed(user[v]) = [ed |-> Wealth[v], held |-> Stock[v]] /\ user[v].writes = <<>>
  BY <1>2, <1>3, LoggedInTypes DEF Believed
<1>5. Record(db, v) = [ed |-> Wealth[v], held |-> Stock[v]]
  BY <1>2 DEF Record
<1>6. ASSUME NEW s, IsBook(s), Len(s) = 0
      PROVE  GS!AllOf(s).ed = 0 /\ \A i \in Items : GS!AllOf(s).held[i] = 0
  BY <1>6, NothingInAll
<1>7. IsBook(user[v].writes) /\ Len(user[v].writes) = 0
  BY <1>4 DEF IsBook
<1>8. /\ AllDue(v, orders).ed = 0 /\ \A i \in Items : AllDue(v, orders).held[i] = 0
      /\ AllTold(v, down[v]).ed = 0 /\ \A i \in Items : AllTold(v, down[v]).held[i] = 0
  <2>1. orders \in Seq(Order) /\ Len(orders) = 0 /\ down[v] \in Seq(DownMessage) /\ Len(down[v]) = 0
    BY <1>2
  <2> QED
    BY <1>6, <2>1, DueIsBook, ToldIsBook
<1> QED
  BY <1>3, <1>4, <1>5, <1>6, <1>7, <1>8 DEF Balanced, Book, Balances

\* when nothing happens,
LEMMA BooksStutter == SystemIsSound /\ Books /\ UNCHANGED sysVars => Books'
<1>1. UNCHANGED sysVars => UNCHANGED <<user, db, orders, down, drifted>>
  BY DEF sysVars, gsVars, sysGhosts
<1> QED
  BY <1>1 DEF Books, Balanced

\* and after each step.
LEMMA BooksStep == SystemIsSound /\ Books /\ [SysNext]_sysVars => Books'
BY RoomBooks, AskBooks, BuyBooks, WriteBooks, PacketBooks, ComeAndGoBooks, CarryBooks, AnswerBooks,
   BooksStutter DEF SysNext

-----------------------------------------------------------------------------
(* The theorems.                                                           *)

\* The variables keep their types: what KGSUser knows of each unit, the game
\* DB's records and the packets of the room; and no inventory ever has less
\* than nothing of an item, unless it was read from a record that has.
THEOREM ShopSystemTypes == SysSpec => []SysTypeOK
<1>1. SystemIsSound => SysTypeOK
  <2> SUFFICES ASSUME SystemIsSound PROVE SysTypeOK
    OBVIOUS
  <2>1. DownMessage \subseteq Message
    <3>1. Notice \subseteq Message
      BY DEF Notice, Message, Buyers
    <3>2. SaleNotice \subseteq Message
      <4>1. Sale \subseteq Purchase
        BY SystemAssumption DEF Sale, Purchase, Buyers
      <4> QED
        BY <4>1 DEF SaleNotice, Message
    <3> QED
      BY <3>1, <3>2 DEF DownMessage
  <2>2. ASSUME NEW u \in Units, NEW m \in Range(down[u]) PROVE m \in Message
    <3>1. down[u] \in Seq(DownMessage)
      BY DEF SystemIsSound, ServersAreSound, DownIsSound
    <3>2. m \in DownMessage
      BY <3>1 DEF Range
    <3> QED
      BY <2>1, <3>2
  <2> QED
    BY <2>2 DEF SystemIsSound, ServersAreSound, UsersAreSound, DbIsSound, SysTypeOK
<1> QED
  BY <1>1, Sound, PTL

\* The shop's room, in the system it works in, keeps its invariants: one
\* seller, a list while it sells, and the types of all it holds and sends.
THEOREM RoomInSystem == SysSpec => [](TypeOK /\ OneSeller /\ SellsWhileListed)
<1>1. SystemIsSound => TypeOK /\ OneSeller /\ SellsWhileListed
  BY DEF SystemIsSound, RoomIsSound, Safe, TypeOK, Room, Listing, Mail, Orders, Members,
         OneSeller, OneHost, Hosts
<1> QED
  BY <1>1, Sound, PTL

\* What a game server believes to be in the DB is what is there, but for its
\* own writes on their way and the sales it is still to be told of, whatever
\* else happens in whatever order (KGSUser's m_iED and inventory against the
\* game DB); the exceptions are those drifted names.
THEOREM BooksAlwaysBalance == SysSpec => []BooksBalance
<1>1. Books => BooksBalance
  <2> SUFFICES ASSUME Books, NEW u \in Units \ drifted, user[u].online
               PROVE  LET written == GS!AllOf(user[u].writes)
                          due == GS!AllOf(Due(u))
                          told == GS!AllOf(OnItsWay(u))
                      IN /\ user[u].init = db.ed[u] + written.ed - due.ed - told.ed
                         /\ \A i \in Items :
                              user[u].heldInit[i]
                                = db.held[u][i] + written.held[i] - due.held[i] - told.held[i]
    BY DEF BooksBalance
  <2>1. Due(u) = [n \in DOMAIN orders |-> DueIn(u, orders[n])]
    BY DEF Due, Carried, DueIn
  <2>2. OnItsWay(u) = [n \in DOMAIN down[u] |-> ToldIn(u, down[u][n])]
    BY DEF OnItsWay, Told, ToldIn
  <2>3. GS!AllOf(Due(u)) = AllDue(u, orders) /\ GS!AllOf(OnItsWay(u)) = AllTold(u, down[u])
    BY <2>1, <2>2 DEF AllDue, AllTold
  <2>4. Balances(Believed(user[u]), Record(db, u), GS!AllOf(user[u].writes), AllDue(u, orders),
                 AllTold(u, down[u]))
    BY DEF Books, Balanced, Book
  <2> QED
    BY <2>3, <2>4 DEF Balances, Believed, Record
<1> QED
  BY <1>1, Sound, BooksInit, BooksStep, PTL DEF SysSpec

=============================================================================
