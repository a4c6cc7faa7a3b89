--------------------------- MODULE HubContentProofs ---------------------------
(***************************************************************************)
(* What the commits of a vault make: the content that was accepted         *)
(* (EffectiveContent), over what the authors had seen (RespectsPreHash),   *)
(* with caches that follow (CachesMatchHead).  ContentInv is the inductive *)
(* invariant.  Left, HEAD and the accepted tree change in two steps only:  *)
(* an op is appended, which changes what is left and the accepted tree, or *)
(* a stage is committed, which changes what is left and HEAD.              *)
(***************************************************************************)
EXTENDS HubSafetyProofs, Recursion

\* Nothing fails but the idem snapshot, and commits are of stages.
Calm == FaultKinds \subseteq {"persist"} /\ MaxCrashes = 0 /\ ~TierThree /\ Desired = {}
-----------------------------------------------------------------------------
(***************************************************************************)
(* Trees under sequences of ops                                            *)
(***************************************************************************)

\* The function that Through is.
Unfolds(f, ops, t) ==
  f = [n \in 0 .. Len(ops) |-> IF n = 0 THEN t ELSE Effect(ops[n], f[n - 1])]

LEMMA UnfoldsExists ==
  ASSUME NEW ops \in Seq(Ops), NEW t \in Trees
  PROVE  \E f : Unfolds(f, ops, t) /\ f \in [0 .. Len(ops) -> Trees]
<1> DEFINE N == Len(ops)
    next == [n \in 1 .. N |-> [u \in Trees |-> Effect(ops[n], u)]]
<1>1. N \in Nat /\ DOMAIN ops = 1 .. N /\ \A i \in 1 .. N : ops[i] \in Ops
  OBVIOUS
<1>2. next \in [1 .. N -> [Trees -> Trees]]
  <2>1. \A n \in 1 .. N : \A u \in Trees : Effect(ops[n], u) \in Trees
    BY <1>1, EffectType
  <2> QED BY <2>1
<1>3. PICK f : Recurses(f, N, Trees, t, next)
  <2> HIDE DEF N, next
  <2> QED BY <1>1, <1>2, RecursionExists
<1>4. ASSUME NEW n \in 1 .. N PROVE f[n] = Effect(ops[n], f[n - 1])
  <2>1. f[n - 1] \in Trees
    BY <1>1, <1>3 DEF Recurses
  <2> QED BY <1>3, <2>1 DEF Recurses
<1>5. Unfolds(f, ops, t)
  <2> HIDE DEF next
  <2>1. \A n \in 0 .. N : n = 0 \/ n \in 1 .. N
    BY <1>1
  <2>2. ASSUME NEW n \in 0 .. N
        PROVE  f[n] = IF n = 0 THEN t ELSE Effect(ops[n], f[n - 1])
    BY <1>1, <1>3, <1>4, <2>1 DEF Recurses
  <2> QED BY <1>3, <2>2 DEF Unfolds, Recurses
<1> QED BY <1>3, <1>5 DEF Recurses

\* Through starts with the tree and goes on, op by op.
LEMMA ThroughSteps ==
  ASSUME NEW ops \in Seq(Ops), NEW t \in Trees
  PROVE  /\ Through(ops, t) \in [0 .. Len(ops) -> Trees]
         /\ Through(ops, t)[0] = t
         /\ \A n \in 1 .. Len(ops) :
              Through(ops, t)[n] = Effect(ops[n], Through(ops, t)[n - 1])
<1> DEFINE f == CHOOSE g : Unfolds(g, ops, t)
<1>1. Through(ops, t) = f
  BY DEF Through, Unfolds
<1>2. Unfolds(f, ops, t)
  BY UnfoldsExists, Zenon
<1> HIDE DEF f
<1>3. PICK g : Unfolds(g, ops, t) /\ g \in [0 .. Len(ops) -> Trees]
  BY UnfoldsExists, Zenon
<1>4. Len(ops) \in Nat
  OBVIOUS
<1>5. f[0] = t /\ \A n \in 1 .. Len(ops) : f[n] = Effect(ops[n], f[n - 1])
  BY <1>2, <1>4 DEF Unfolds
<1>6. g[0] = t /\ \A n \in 1 .. Len(ops) : g[n] = Effect(ops[n], g[n - 1])
  BY <1>3, <1>4 DEF Unfolds
<1> DEFINE S == {n \in 0 .. Len(ops) : f[n] = g[n]}
<1>7. 0 \in S
  BY <1>4, <1>5, <1>6
<1>8. ASSUME NEW n \in Nat, n < Len(ops), n \in S PROVE n + 1 \in S
  <2>1. n + 1 \in 1 .. Len(ops) /\ (n + 1) - 1 = n /\ n + 1 \in 0 .. Len(ops)
    BY <1>4, <1>8
  <2> QED BY <1>5, <1>6, <1>8, <2>1
<1>9. \A n \in 0 .. Len(ops) : n \in S
  <2> HIDE DEF S
  <2> QED BY <1>4, <1>7, <1>8, UpTo, Zenon
<1>10. f = g
  <2>1. DOMAIN f = 0 .. Len(ops) /\ f = [n \in DOMAIN f |-> f[n]]
    BY <1>2 DEF Unfolds
  <2> QED BY <1>3, <1>9, <2>1
<1> QED BY <1>1, <1>3, <1>5, <1>10

LEMMA OverlayType ==
  ASSUME NEW ops \in Seq(Ops), NEW t \in Trees
  PROVE  Overlay(ops, t) \in Trees
<1>1. Len(ops) \in 0 .. Len(ops)
  OBVIOUS
<1> QED BY <1>1, ThroughSteps DEF Overlay

\* No op leaves the tree as it is.
LEMMA OverlayEmpty ==
  ASSUME NEW t \in Trees
  PROVE  Through(<< >>, t)[0] = t /\ Overlay(<< >>, t) = t
<1>1. << >> \in Seq(Ops) /\ Len(<< >>) = 0
  OBVIOUS
<1> QED BY <1>1, ThroughSteps DEF Overlay

\* What an op more comes to.
LEMMA ThroughAppend ==
  ASSUME NEW s \in Seq(Ops), NEW x \in Ops, NEW t \in Trees
  PROVE  /\ \A n \in 0 .. Len(s) : Through(Append(s, x), t)[n] = Through(s, t)[n]
         /\ Overlay(Append(s, x), t) = Effect(x, Overlay(s, t))
<1> DEFINE r == Append(s, x)
           f == Through(s, t)
           g == Through(r, t)
<1>1. /\ r \in Seq(Ops) /\ Len(r) = Len(s) + 1 /\ r[Len(s) + 1] = x
      /\ \A i \in 1..Len(s) : r[i] = s[i]
      /\ Len(s) \in Nat
  BY AppendProperties, LenProperties
<1> HIDE DEF r
<1>2. f[0] = t /\ \A n \in 1 .. Len(s) : f[n] = Effect(s[n], f[n - 1])
  BY ThroughSteps
<1>3. g[0] = t /\ \A n \in 1 .. Len(s) + 1 : g[n] = Effect(r[n], g[n - 1])
  BY <1>1, ThroughSteps
<1> DEFINE S == {n \in 0 .. Len(s) : g[n] = f[n]}
<1> HIDE DEF f, g
<1>4. 0 \in S
  BY <1>1, <1>2, <1>3
<1>5. ASSUME NEW n \in Nat, n < Len(s), n \in S PROVE n + 1 \in S
  <2>1. /\ n + 1 \in 1 .. Len(s) /\ (n + 1) - 1 = n /\ n + 1 \in 0 .. Len(s)
        /\ n + 1 \in 1 .. Len(s) + 1
    BY <1>1, <1>5
  <2> QED BY <1>1, <1>2, <1>3, <1>5, <2>1
<1>6. \A n \in 0 .. Len(s) : n \in S
  <2> HIDE DEF S
  <2> QED BY <1>1, <1>4, <1>5, UpTo, Zenon
<1>7. g[Len(r)] = Effect(x, f[Len(s)])
  <2>1. Len(s) + 1 \in 1 .. Len(s) + 1 /\ (Len(s) + 1) - 1 = Len(s) /\ Len(s) \in 0 .. Len(s)
    BY <1>1
  <2> QED BY <1>1, <1>3, <1>6, <2>1
<1> QED BY <1>6, <1>7 DEF Overlay, f, g, r

\* An op leaves the other paths alone.
LEMMA EffectFrame ==
  ASSUME NEW x \in Ops, NEW t \in Trees, NEW p \in Paths, p \notin Touched(x)
  PROVE  Effect(x, t)[p] = t[p]
<1>1. x.path # p /\ x.to # p /\ x.type \in {"write", "delete", "rename"}
  BY DEF Touched, Ops, OpTypes
<1> QED BY <1>1 DEF Effect, Trees

\* What an op makes of its paths depends on them alone.
LEMMA EffectLocal ==
  ASSUME NEW x \in Ops, NEW t \in Trees, NEW u \in Trees, NEW S \in SUBSET Paths,
         Touched(x) \subseteq S, \A p \in S : t[p] = u[p]
  PROVE  \A p \in S : Effect(x, t)[p] = Effect(x, u)[p]
<1>1. x.path \in S /\ x.to \in S /\ x.type \in {"write", "delete", "rename"}
  BY DEF Touched, Ops, OpTypes
<1>2. CASE x.type = "write"
  BY <1>1, <1>2 DEF Effect, Trees
<1>3. CASE x.type = "delete"
  BY <1>1, <1>3 DEF Effect, Trees
<1>4. CASE x.type = "rename"
  BY <1>1, <1>4 DEF Effect, Trees
<1> QED BY <1>1, <1>2, <1>3, <1>4

\* So with the ops of a stage.
LEMMA ThroughFrame ==
  ASSUME NEW s \in Seq(Ops), NEW t \in Trees, NEW p \in Paths, p \notin TouchedBy(s)
  PROVE  \A n \in 0 .. Len(s) : Through(s, t)[n][p] = t[p]
<1> DEFINE f == Through(s, t)
           S == {n \in 0 .. Len(s) : f[n][p] = t[p]}
<1>1. /\ f \in [0 .. Len(s) -> Trees] /\ f[0] = t
      /\ \A n \in 1 .. Len(s) : f[n] = Effect(s[n], f[n - 1])
  BY ThroughSteps
<1> HIDE DEF f
<1>2. Len(s) \in Nat /\ DOMAIN s = 1 .. Len(s) /\ \A n \in 1 .. Len(s) : s[n] \in Ops
  OBVIOUS
<1>3. 0 \in S
  BY <1>1, <1>2
<1>4. ASSUME NEW n \in Nat, n < Len(s), n \in S PROVE n + 1 \in S
  <2>1. n + 1 \in 1 .. Len(s) /\ (n + 1) - 1 = n /\ n + 1 \in 0 .. Len(s) /\ n \in 0 .. Len(s)
    BY <1>2, <1>4
  <2>2. p \notin Touched(s[n + 1])
    BY <1>2, <2>1, TouchedMember
  <2>3. f[n] \in Trees /\ s[n + 1] \in Ops
    BY <1>1, <1>2, <2>1
  <2>4. Effect(s[n + 1], f[n])[p] = f[n][p]
    BY <2>2, <2>3, EffectFrame
  <2> QED BY <1>1, <1>4, <2>1, <2>4
<1>5. \A n \in 0 .. Len(s) : n \in S
  <2> HIDE DEF S
  <2> QED BY <1>2, <1>3, <1>4, UpTo, Zenon
<1> QED BY <1>5 DEF f

LEMMA ThroughLocal ==
  ASSUME NEW s \in Seq(Ops), NEW t \in Trees, NEW u \in Trees,
         NEW S \in SUBSET Paths, TouchedBy(s) \subseteq S, \A p \in S : t[p] = u[p]
  PROVE  \A n \in 0 .. Len(s) : \A p \in S : Through(s, t)[n][p] = Through(s, u)[n][p]
<1> DEFINE f == Through(s, t)
           g == Through(s, u)
           T == {n \in 0 .. Len(s) : \A p \in S : f[n][p] = g[n][p]}
<1>1. /\ f \in [0 .. Len(s) -> Trees] /\ f[0] = t
      /\ \A n \in 1 .. Len(s) : f[n] = Effect(s[n], f[n - 1])
  BY ThroughSteps
<1>2. /\ g \in [0 .. Len(s) -> Trees] /\ g[0] = u
      /\ \A n \in 1 .. Len(s) : g[n] = Effect(s[n], g[n - 1])
  BY ThroughSteps
<1> HIDE DEF f, g
<1>3. Len(s) \in Nat /\ DOMAIN s = 1 .. Len(s) /\ \A n \in 1 .. Len(s) : s[n] \in Ops
  OBVIOUS
<1>4. 0 \in T
  BY <1>1, <1>2, <1>3
<1>5. ASSUME NEW n \in Nat, n < Len(s), n \in T PROVE n + 1 \in T
  <2>1. n + 1 \in 1 .. Len(s) /\ (n + 1) - 1 = n /\ n + 1 \in 0 .. Len(s) /\ n \in 0 .. Len(s)
    BY <1>3, <1>5
  <2>2. Touched(s[n + 1]) \subseteq S
    BY <1>3, <2>1, TouchedMember
  <2>3. f[n] \in Trees /\ g[n] \in Trees /\ s[n + 1] \in Ops
    BY <1>1, <1>2, <1>3, <2>1
  <2>4. \A p \in S : f[n][p] = g[n][p]
    BY <1>5
  <2>5. \A p \in S : Effect(s[n + 1], f[n])[p] = Effect(s[n + 1], g[n])[p]
    BY <2>2, <2>3, <2>4, EffectLocal
  <2> QED BY <1>1, <1>2, <2>1, <2>5
<1>6. \A n \in 0 .. Len(s) : n \in T
  <2> HIDE DEF T
  <2> QED BY <1>3, <1>4, <1>5, UpTo, Zenon
<1> QED BY <1>6 DEF f, g

LEMMA OverlayFrame ==
  ASSUME NEW s \in Seq(Ops), NEW t \in Trees, NEW p \in Paths, p \notin TouchedBy(s)
  PROVE  Overlay(s, t)[p] = t[p]
<1>1. Len(s) \in 0 .. Len(s)
  OBVIOUS
<1> QED BY <1>1, ThroughFrame DEF Overlay

LEMMA OverlayLocal ==
  ASSUME NEW s \in Seq(Ops), NEW t \in Trees, NEW u \in Trees,
         NEW S \in SUBSET Paths, TouchedBy(s) \subseteq S, \A p \in S : t[p] = u[p]
  PROVE  \A p \in S : Overlay(s, t)[p] = Overlay(s, u)[p]
<1>1. Len(s) \in 0 .. Len(s)
  OBVIOUS
<1> QED BY <1>1, ThroughLocal DEF Overlay
-----------------------------------------------------------------------------
(***************************************************************************)
(* The files of a tree                                                     *)
(***************************************************************************)

\* Of an op that can be applied, TrackOp knows what it does.
LEMMA FilesEffect ==
  ASSUME NEW x \in Ops, NEW t \in Trees, WellFormed(x), Applicable(x, t)
  PROVE  Files(Effect(x, t)) = TrackOp(Files(t), x)
<1>1. x.path \in Paths /\ x.to \in Paths /\ x.type \in {"write", "delete", "rename"}
  BY DEF Ops, OpTypes
<1>2. CASE x.type = "write"
  <2>1. Effect(x, t) = [t EXCEPT ![x.path] = x.data] /\ x.data # Absent
    BY <1>2 DEF Effect, WellFormed
  <2> QED BY <1>1, <1>2, <2>1 DEF Files, TrackOp, Trees
<1>3. CASE x.type = "delete"
  <2>1. Effect(x, t) = [t EXCEPT ![x.path] = Absent]
    BY <1>3 DEF Effect
  <2> QED BY <1>1, <1>3, <2>1 DEF Files, TrackOp, Trees
<1>4. CASE x.type = "rename"
  <2>1. Effect(x, t) = [t EXCEPT ![x.path] = Absent, ![x.to] = t[x.path]]
    BY <1>4 DEF Effect
  <2>2. t[x.path] # Absent
    BY <1>4 DEF Applicable
  <2>3. TrackOp(Files(t), x) = (Files(t) \ {x.path}) \cup {x.to}
    BY <1>1, <1>4, <2>2 DEF Files, TrackOp
  <2>4. \A p \in Paths : Effect(x, t)[p] # Absent
                           <=> p = x.to \/ (p # x.path /\ t[p] # Absent)
    BY <1>1, <2>1, <2>2 DEF Trees
  <2> QED BY <1>1, <2>3, <2>4 DEF Files
<1> QED BY <1>1, <1>2, <1>3, <1>4

\* The function that Track is made of.
Tracks(f, ops, fs) ==
  f = [n \in 0 .. Len(ops) |-> IF n = 0 THEN fs ELSE TrackOp(f[n - 1], ops[n])]

\* Accounting for the ops is as good as counting the files.
LEMMA TrackFiles ==
  ASSUME NEW ops \in Seq(Ops), NEW t \in Trees,
         \A n \in DOMAIN ops : /\ WellFormed(ops[n])
                               /\ Applicable(ops[n], Through(ops, t)[n - 1])
  PROVE  Track(ops, Files(t)) = Files(Overlay(ops, t))
<1> DEFINE N == Len(ops)
           f == CHOOSE g : Tracks(g, ops, Files(t))
           u == Through(ops, t)
           h == [n \in 0 .. N |-> Files(u[n])]
<1>1. N \in Nat /\ DOMAIN ops = 1 .. N /\ \A n \in 1 .. N : ops[n] \in Ops
  OBVIOUS
<1>2. /\ u \in [0 .. N -> Trees] /\ u[0] = t
      /\ \A n \in 1 .. N : u[n] = Effect(ops[n], u[n - 1])
  BY ThroughSteps
<1>3. \A n \in 1 .. N : Applicable(ops[n], u[n - 1]) /\ WellFormed(ops[n])
  BY <1>1
<1> HIDE DEF u
<1>4. ASSUME NEW n \in 1 .. N PROVE h[n] = TrackOp(h[n - 1], ops[n])
  <2>1. n \in 0 .. N /\ n - 1 \in 0 .. N
    BY <1>1
  <2>2. u[n - 1] \in Trees /\ u[n] = Effect(ops[n], u[n - 1]) /\ ops[n] \in Ops
    BY <1>1, <1>2, <2>1
  <2>3. Files(u[n]) = TrackOp(Files(u[n - 1]), ops[n])
    BY <1>3, <2>2, FilesEffect
  <2> QED BY <2>1, <2>3
<1>5. Tracks(h, ops, Files(t))
  <2>1. h[0] = Files(t)
    BY <1>1, <1>2
  <2>2. ASSUME NEW n \in 0 .. N
        PROVE  h[n] = IF n = 0 THEN Files(t) ELSE TrackOp(h[n - 1], ops[n])
    <3>1. n = 0 \/ n \in 1 .. N
      BY <1>1
    <3> HIDE DEF h
    <3> QED BY <1>1, <1>4, <2>1, <3>1
  <2>3. DOMAIN h = 0 .. N /\ h = [n \in 0 .. N |-> h[n]]
    OBVIOUS
  <2> HIDE DEF h
  <2> QED BY <2>2, <2>3 DEF Tracks
<1>6. Tracks(f, ops, Files(t))
  <2> HIDE DEF h
  <2>1. \E g : Tracks(g, ops, Files(t))
    BY <1>5, Zenon
  <2> QED BY <2>1, Zenon
<1>7. Track(ops, Files(t)) = {p \in Paths : p \in f[N]}
  BY DEF Track, Tracks
<1> HIDE DEF f
<1>8. f[0] = h[0] /\ \A n \in 1 .. N : f[n] = TrackOp(f[n - 1], ops[n])
  <2>1. h[0] = Files(t)
    BY <1>1, <1>2
  <2> QED BY <1>1, <1>6, <2>1 DEF Tracks
<1> HIDE DEF h
<1> DEFINE S == {n \in 0 .. N : f[n] = h[n]}
<1>9. 0 \in S
  BY <1>1, <1>8
<1>10. ASSUME NEW n \in Nat, n < N, n \in S PROVE n + 1 \in S
  <2>1. n + 1 \in 1 .. N /\ (n + 1) - 1 = n /\ n + 1 \in 0 .. N
    BY <1>1, <1>10
  <2> QED BY <1>4, <1>8, <1>10, <2>1
<1>11. \A n \in 0 .. N : n \in S
  <2> HIDE DEF S, N
  <2> QED BY <1>1, <1>9, <1>10, UpTo, Zenon
<1>12. f[N] = Files(u[N])
  <2>1. N \in 0 .. N
    BY <1>1
  <2> QED BY <1>11, <2>1 DEF h
<1>13. Files(u[N]) \subseteq Paths
  BY DEF Files
<1> QED BY <1>7, <1>12, <1>13 DEF u, Overlay
-----------------------------------------------------------------------------
(***************************************************************************)
(* What is left to commit, HEAD and the accepted tree                      *)
(***************************************************************************)

\* The ops left[c] and HEAD t make the accepted tree u.
Makes(left, t, u) ==
  /\ \A c \in Clients : \A p \in TouchedBy(left[c]) : Overlay(left[c], t)[p] = u[p]
  /\ \A p \in Paths : (\A c \in Clients : p \notin TouchedBy(left[c])) => t[p] = u[p]

\* Each of the ops left[c] finds what it has to.
Finds(left, t) ==
  \A c \in Clients : \A k \in DOMAIN left[c] :
    Due(left[c][k], Through(left[c], t)[k - 1])

\* No path is in the ops of two clients.
Apart(left) ==
  \A c, d \in Clients : c # d => TouchedBy(left[c]) \cap TouchedBy(left[d]) = {}

LEMMA TouchedType ==
  ASSUME NEW s \in Seq(Ops)
  PROVE  TouchedBy(s) \subseteq Paths
<1>1. \A i \in DOMAIN s : s[i] \in Ops
  OBVIOUS
<1> QED BY <1>1 DEF TouchedBy, Touched, Ops

\* An op is accepted, of paths that no other client has left.
LEMMA AppendMakes ==
  ASSUME NEW left \in [Clients -> Seq(Ops)], NEW t \in Trees, NEW u \in Trees,
         NEW c \in Clients, NEW x \in Ops, Makes(left, t, u),
         \A d \in Clients : d # c => Touched(x) \cap TouchedBy(left[d]) = {}
  PROVE  Makes([left EXCEPT ![c] = Append(@, x)], t, Effect(x, u))
<1> DEFINE new == [left EXCEPT ![c] = Append(@, x)]
           v == Effect(x, u)
           s == left[c]
<1>1. /\ s \in Seq(Ops) /\ new[c] = Append(s, x)
      /\ \A d \in Clients : d # c => new[d] = left[d]
  OBVIOUS
<1>2. TouchedBy(new[c]) = TouchedBy(s) \cup Touched(x)
  BY <1>1, TouchedAppend
<1>3. TouchedBy(new[c]) \subseteq Paths
  <2>1. Append(s, x) \in Seq(Ops)
    BY <1>1
  <2> QED BY <1>1, <2>1, TouchedType
<1>4. \A p \in Paths : p \notin Touched(x) => v[p] = u[p]
  BY EffectFrame
<1> HIDE DEF new, v
<1>5. ASSUME NEW d \in Clients, NEW p \in TouchedBy(new[d])
      PROVE  Overlay(new[d], t)[p] = v[p]
  <2>1. CASE d # c
    <3>1. p \in TouchedBy(left[d]) /\ p \notin Touched(x) /\ p \in Paths
      <4>1. left[d] \in Seq(Ops)
        OBVIOUS
      <4> QED BY <1>1, <2>1, <4>1, TouchedType
    <3> QED BY <1>1, <1>4, <2>1, <3>1 DEF Makes
  <2>2. CASE d = c
    <3>1. Overlay(s, t) \in Trees /\ Overlay(new[c], t) = Effect(x, Overlay(s, t))
      BY <1>1, OverlayType, ThroughAppend
    <3>2. ASSUME NEW q \in TouchedBy(new[c]) PROVE Overlay(s, t)[q] = u[q]
      <4>1. CASE q \in TouchedBy(s)
        BY <4>1 DEF Makes
      <4>2. CASE q \notin TouchedBy(s)
        <5>1. q \in Touched(x) /\ q \in Paths
          BY <1>2, <1>3, <4>2
        <5>2. \A e \in Clients : q \notin TouchedBy(left[e])
          BY <4>2, <5>1
        <5>3. t[q] = u[q]
          BY <5>1, <5>2 DEF Makes
        <5> QED BY <1>1, <4>2, <5>1, <5>3, OverlayFrame
      <4> QED BY <4>1, <4>2
    <3>3. \A q \in TouchedBy(new[c]) : Effect(x, Overlay(s, t))[q] = Effect(x, u)[q]
      <4> DEFINE S == TouchedBy(new[c])
                 o == Overlay(s, t)
      <4>1. S \in SUBSET Paths /\ Touched(x) \subseteq S /\ o \in Trees
        BY <1>2, <1>3, <3>1
      <4>2. \A q \in S : o[q] = u[q]
        BY <3>2
      <4> HIDE DEF S, o
      <4>3. \A q \in S : Effect(x, o)[q] = Effect(x, u)[q]
        BY <4>1, <4>2, EffectLocal
      <4> QED BY <4>3 DEF S, o
    <3> QED BY <1>5, <2>2, <3>1, <3>3 DEF v
  <2> QED BY <2>1, <2>2
<1>6. ASSUME NEW p \in Paths, \A d \in Clients : p \notin TouchedBy(new[d])
      PROVE  t[p] = v[p]
  <2>1. p \notin Touched(x) /\ \A d \in Clients : p \notin TouchedBy(left[d])
    BY <1>1, <1>2, <1>6
  <2> QED BY <1>4, <2>1 DEF Makes
<1>7. Makes(new, t, v)
  BY <1>5, <1>6 DEF Makes
<1> QED BY <1>7 DEF new, v

LEMMA AppendFinds ==
  ASSUME NEW left \in [Clients -> Seq(Ops)], NEW t \in Trees, NEW c \in Clients, NEW x \in Ops,
         Finds(left, t), Due(x, Overlay(left[c], t))
  PROVE  Finds([left EXCEPT ![c] = Append(@, x)], t)
<1> DEFINE new == [left EXCEPT ![c] = Append(@, x)]
           s == left[c]
<1>1. /\ s \in Seq(Ops) /\ new[c] = Append(s, x)
      /\ \A d \in Clients : d # c => new[d] = left[d]
  OBVIOUS
<1>2. /\ Len(Append(s, x)) = Len(s) + 1 /\ Append(s, x)[Len(s) + 1] = x
      /\ \A i \in 1..Len(s) : Append(s, x)[i] = s[i]
      /\ DOMAIN Append(s, x) = 1..(Len(s) + 1) /\ DOMAIN s = 1..Len(s) /\ Len(s) \in Nat
  BY <1>1, AppendProperties, LenProperties
<1> HIDE DEF new
<1>3. ASSUME NEW d \in Clients, NEW k \in DOMAIN new[d]
      PROVE  Due(new[d][k], Through(new[d], t)[k - 1])
  <2>1. CASE d # c
    BY <1>1, <1>3, <2>1 DEF Finds
  <2>2. CASE d = c /\ k = Len(s) + 1
    <3>1. Len(s) \in 0 .. Len(s) /\ k - 1 = Len(s)
      BY <1>2, <2>2
    <3>2. Through(new[c], t)[k - 1] = Overlay(s, t)
      BY <1>1, <3>1, ThroughAppend DEF Overlay
    <3> QED BY <1>1, <1>2, <2>2, <3>2
  <2>3. CASE d = c /\ k # Len(s) + 1
    <3>1. k \in DOMAIN s /\ k - 1 \in 0 .. Len(s) /\ new[c][k] = s[k]
      BY <1>1, <1>2, <1>3, <2>3
    <3>2. Through(new[c], t)[k - 1] = Through(s, t)[k - 1]
      BY <1>1, <3>1, ThroughAppend
    <3> QED BY <2>3, <3>1, <3>2 DEF Finds
  <2> QED BY <2>1, <2>2, <2>3
<1>4. Finds(new, t)
  BY <1>3 DEF Finds
<1> QED BY <1>4 DEF new

\* A stage is committed.
LEMMA CommitMakes ==
  ASSUME NEW left \in [Clients -> Seq(Ops)], NEW t \in Trees, NEW u \in Trees,
         NEW c \in Clients, Makes(left, t, u), Apart(left)
  PROVE  Makes([left EXCEPT ![c] = << >>], Overlay(left[c], t), u)
<1> DEFINE new == [left EXCEPT ![c] = << >>]
           v == Overlay(left[c], t)
<1>1. left[c] \in Seq(Ops) /\ new[c] = << >> /\ \A d \in Clients : d # c => new[d] = left[d]
  OBVIOUS
<1>2. v \in Trees
  BY <1>1, OverlayType
<1>3. \A p \in Paths : p \notin TouchedBy(left[c]) => v[p] = t[p]
  BY <1>1, OverlayFrame
<1>4. \A p \in TouchedBy(left[c]) : v[p] = u[p]
  BY DEF Makes
<1> HIDE DEF new, v
<1>5. ASSUME NEW d \in Clients, NEW p \in TouchedBy(new[d])
      PROVE  Overlay(new[d], v)[p] = u[p]
  <2>1. d # c /\ new[d] = left[d]
    BY <1>1, <1>5, TouchedEmpty
  <2>2. left[d] \in Seq(Ops) /\ TouchedBy(left[d]) \subseteq Paths
    BY TouchedType
  <2>3. \A q \in TouchedBy(left[d]) : v[q] = t[q]
    BY <1>3, <2>1, <2>2 DEF Apart
  <2>4. \A q \in TouchedBy(left[d]) : Overlay(left[d], v)[q] = Overlay(left[d], t)[q]
    BY <1>2, <2>2, <2>3, OverlayLocal
  <2> QED BY <1>5, <2>1, <2>4 DEF Makes
<1>6. ASSUME NEW p \in Paths, \A d \in Clients : p \notin TouchedBy(new[d])
      PROVE  v[p] = u[p]
  <2>1. CASE p \in TouchedBy(left[c])
    BY <1>4, <2>1
  <2>2. CASE p \notin TouchedBy(left[c])
    <3>1. \A d \in Clients : p \notin TouchedBy(left[d])
      BY <1>1, <1>6, <2>2
    <3> QED BY <1>3, <2>2, <3>1 DEF Makes
  <2> QED BY <2>1, <2>2
<1>7. Makes(new, v, u)
  BY <1>5, <1>6 DEF Makes
<1> QED BY <1>7 DEF new, v

LEMMA CommitFinds ==
  ASSUME NEW left \in [Clients -> Seq(Ops)], NEW t \in Trees, NEW c \in Clients,
         Finds(left, t), Apart(left)
  PROVE  Finds([left EXCEPT ![c] = << >>], Overlay(left[c], t))
<1> DEFINE new == [left EXCEPT ![c] = << >>]
           v == Overlay(left[c], t)
<1>1. left[c] \in Seq(Ops) /\ new[c] = << >> /\ \A d \in Clients : d # c => new[d] = left[d]
  OBVIOUS
<1>2. v \in Trees
  BY <1>1, OverlayType
<1>3. \A p \in Paths : p \notin TouchedBy(left[c]) => v[p] = t[p]
  BY <1>1, OverlayFrame
<1> HIDE DEF new, v
<1>4. ASSUME NEW d \in Clients, NEW k \in DOMAIN new[d]
      PROVE  Due(new[d][k], Through(new[d], v)[k - 1])
  <2>1. d # c /\ new[d] = left[d]
    BY <1>1, <1>4
  <2>2. left[d] \in Seq(Ops) /\ TouchedBy(left[d]) \subseteq Paths
    BY TouchedType
  <2>3. \A q \in TouchedBy(left[d]) : v[q] = t[q]
    BY <1>3, <2>1, <2>2 DEF Apart
  <2>4. k \in DOMAIN left[d] /\ k - 1 \in 0 .. Len(left[d]) /\ left[d][k] \in Ops
    BY <1>4, <2>1, <2>2
  <2>5. left[d][k].path \in TouchedBy(left[d])
    BY <2>4, TouchedMember DEF Touched
  <2>6. \A q \in TouchedBy(left[d]) :
          Through(left[d], v)[k - 1][q] = Through(left[d], t)[k - 1][q]
    BY <1>2, <2>2, <2>3, <2>4, ThroughLocal
  <2>7. Due(left[d][k], Through(left[d], t)[k - 1])
    BY <2>4 DEF Finds
  <2> QED BY <2>1, <2>5, <2>6, <2>7 DEF Due, Applicable, PreHashMatches
<1>5. Finds(new, v)
  BY <1>4 DEF Finds
<1> QED BY <1>5 DEF new, v
-----------------------------------------------------------------------------
(***************************************************************************)
(* The steps of a calm vault                                               *)
(***************************************************************************)
LEMMA LeftType ==
  ASSUME TypeOK
  PROVE  Left \in [Clients -> Seq(Ops)] /\ HeadTree \in Trees /\ shadow \in Trees
<1>1. << >> \in Seq(Ops)
  OBVIOUS
<1> QED BY <1>1, HeadType DEF TypeOK, Left

LEMMA LeftApart ==
  ASSUME PathInv
  PROVE  Apart(Left)
<1> SUFFICES ASSUME NEW c \in Clients, NEW d \in Clients, c # d
             PROVE  TouchedBy(Left[c]) \cap TouchedBy(Left[d]) = {}
  BY DEF Apart
<1>1. TouchedBy(wal[c]) \cap TouchedBy(wal[d]) = {}
  BY DEF PathInv, LogsDisjoint, LoggedPaths
<1>2. Left[c] \in {<< >>, wal[c]} /\ Left[d] \in {<< >>, wal[d]}
  BY DEF Left
<1> QED BY <1>1, <1>2, TouchedEmpty

LEMMA ContentParts ==
  /\ LeftMakesContent <=> Makes(Left, HeadTree, shadow)
  /\ SeenInTurn <=> Finds(Left, HeadTree)
BY DEF LeftMakesContent, Makes, SeenInTurn, Finds

\* The op whose turn it is in the commit of a stage.
LEMMA TurnOf ==
  ASSUME TypeOK, ContentInv, Applying
  PROVE  /\ proc.who \in Clients /\ Left[proc.who] = stages[proc.who]
         /\ proc.i \in DOMAIN stages[proc.who] /\ stages[proc.who][proc.i] \in Ops
         /\ wtree = Through(Left[proc.who], HeadTree)[proc.i - 1]
         /\ WellFormed(stages[proc.who][proc.i])
         /\ Due(stages[proc.who][proc.i], wtree)
<1>1. proc.at = "apply" /\ proc.who \in Clients /\ up # "down"
  BY DEF Applying, ContentInv, LogIsStages, PathInv, HandlersUp
<1>2. Left[proc.who] = stages[proc.who]
  BY <1>1 DEF ContentInv, LogIsStages, Left
<1>3. proc.i \in 1 .. Len(stages[proc.who]) /\ stages[proc.who][proc.i] \in Ops
  BY ApplyingType
<1>4. stages[proc.who] \in Seq(Ops)
  BY <1>1 DEF TypeOK, Committers
<1>5. proc.i \in DOMAIN stages[proc.who]
  BY <1>3, <1>4
<1>6. wtree = Through(Left[proc.who], HeadTree)[proc.i - 1]
  BY <1>1 DEF ContentInv, WorktreeInStep
<1>7. WellFormed(stages[proc.who][proc.i])
  BY <1>1, <1>2, <1>5 DEF ContentInv, BatchesInOrder
<1>8. Due(stages[proc.who][proc.i], wtree)
  BY <1>1, <1>2, <1>5, <1>6 DEF ContentInv, SeenInTurn
<1> QED BY <1>1, <1>2, <1>3, <1>5, <1>6, <1>7, <1>8

\* What may happen.
CalmNext ==
  \/ \E c \in Clients : \/ ClientStep(c) \/ PushDuplicate(c) \/ PushRefused(c) \/ PushAccept(c)
                        \/ AppendOp(c) \/ PushAck(c) \/ BeginCommit(c)
  \/ ApplyOp \/ GitCommit \/ TruncateClient \/ FinishCommit
  \/ \E idlers \in SUBSET Clients : IdemTick(idlers)
  \/ Evict \/ Hydrate \/ HydrateDone
  \/ UNCHANGED vars

LEMMA CalmSteps ==
  ASSUME Calm, TypeOK, ContentInv, [Next]_vars
  PROVE  CalmNext
<1>1. walHandle = "linked"
  BY DEF ContentInv, LogIsStages
<1>2. ASSUME NEW k, k # "persist" PROVE ~Fault(k)
  BY <1>2 DEF Calm, Fault
<1>3. \A c \in Clients : ~AppendFails(c)
  BY <1>1, <1>2 DEF AppendFails
<1>4. ~ApplyFails
  BY <1>2, TurnOf DEF ApplyFails, Due
<1>5. ~TruncateFails
  BY <1>1, <1>2 DEF TruncateFails
<1>6. ~Restore /\ \A t \in Desired : ~Publish(t)
  BY DEF Calm, Restore
<1>7. ~Crash
  <2>1. crashes \in Nat
    BY DEF TypeOK
  <2> QED BY <2>1 DEF Calm, Crash
<1> QED BY <1>3, <1>4, <1>5, <1>6, <1>7 DEF Next, PushStep, CommitStep, CalmNext

\* What becomes of Left, HEAD and the accepted tree.
Unmoved == Left' = Left /\ HeadTree' = HeadTree /\ shadow' = shadow

Appends(c) ==
  /\ AppendOp(c) /\ HeadTree' = HeadTree
  /\ Left' = [Left EXCEPT ![c] = Append(@, sent[c][proc.i])]
  /\ shadow' = Effect(sent[c][proc.i], shadow)

Commits ==
  /\ GitCommit /\ proc.who \in Clients /\ shadow' = shadow
  /\ Left' = [Left EXCEPT ![proc.who] = << >>]
  /\ HeadTree' = Overlay(Left[proc.who], HeadTree)

LEMMA GitCommits ==
  ASSUME TypeOK, ContentInv, GitCommit
  PROVE  /\ Commits /\ wtree = HeadTree' /\ up # "down"
         /\ Left[proc.who] = stages[proc.who]
<1>1. /\ proc.at = "apply" /\ proc.who \in Clients /\ up # "down" /\ ~Applying
      /\ proc' = At("truncate", proc.who, 0) /\ wal' = wal /\ shadow' = shadow
      /\ commits' = IF wtree = HeadTree THEN commits ELSE Append(commits, wtree)
  BY DEF GitCommit, ContentInv, LogIsStages, PathInv, HandlersUp, walVars
<1>2. Left[proc.who] = stages[proc.who] /\ Left[proc.who] \in Seq(Ops) /\ proc.i \in Nat /\ proc.i >= 1
  BY <1>1, LeftType DEF ContentInv, LogIsStages, Left, TypeOK
<1>3. proc.i - 1 = Len(Left[proc.who])
  <2>1. proc.i <= Len(Left[proc.who]) + 1 /\ ~(proc.i <= Len(Left[proc.who]))
    BY <1>1, <1>2 DEF ContentInv, WorktreeInStep, Applying
  <2>2. Len(Left[proc.who]) \in Nat
    BY <1>2
  <2> QED BY <1>2, <2>1, <2>2
<1>4. wtree = Overlay(Left[proc.who], HeadTree)
  BY <1>1, <1>3 DEF ContentInv, WorktreeInStep, Overlay
<1>5. HeadTree' = wtree
  <2>1. CASE wtree = HeadTree
    BY <1>1, <2>1 DEF HeadTree
  <2>2. CASE wtree # HeadTree
    <3>1. commits' = Append(commits, wtree) /\ commits \in Seq(Trees) /\ wtree \in Trees
      BY <1>1, <2>2 DEF TypeOK
    <3>2. Len(commits') = Len(commits) + 1 /\ commits'[Len(commits) + 1] = wtree
      BY <3>1, AppendProperties
    <3> QED BY <3>2 DEF HeadTree
  <2> QED BY <2>1, <2>2
<1>6. Left' = [Left EXCEPT ![proc.who] = << >>]
  BY <1>1 DEF Left, At
<1> QED BY <1>1, <1>2, <1>4, <1>5, <1>6 DEF Commits

LEMMA AppendsOp ==
  ASSUME TypeOK, ContentInv, NEW c \in Clients, AppendOp(c)
  PROVE  /\ Appends(c) /\ up # "down" /\ Left[c] = wal[c] /\ stages[c] = wal[c]
         /\ proc.i \in DOMAIN sent[c] /\ sent[c][proc.i] \in Ops
         /\ proc.at = "append" /\ proc.who = c
<1>1. /\ proc.at = "append" /\ proc.who = c /\ commits' = commits
      /\ proc' = At("append", c, proc.i + 1) /\ shadow' = Effect(sent[c][proc.i], shadow)
      /\ WalAppend(c, sent[c][proc.i])
  BY DEF AppendOp, Appending, store
<1>2. up # "down" /\ ~torn /\ walHandle = "linked" /\ log = wal
  BY <1>1 DEF ContentInv, LogIsStages, PathInv, HandlersUp
<1>3. wal' = [wal EXCEPT ![c] = Append(@, sent[c][proc.i])]
  BY <1>1, <1>2 DEF WalAppend
<1>4. Left = wal /\ Left' = wal'
  <2>1. wal = [d \in Clients |-> wal[d]] /\ wal' = [d \in Clients |-> wal'[d]]
    BY <1>3 DEF TypeOK
  <2> QED BY <1>1, <2>1 DEF Left, At
<1>5. stages[c] = wal[c]
  BY <1>1, <1>2 DEF ContentInv, LogIsStages
<1>6. proc.i \in 1 .. Len(sent[c]) /\ sent[c][proc.i] \in Ops
  BY AppendingType DEF AppendOp
<1>7. proc.i \in DOMAIN sent[c]
  BY <1>6 DEF TypeOK
<1>8. HeadTree' = HeadTree
  BY <1>1 DEF HeadTree
<1> QED BY <1>1, <1>2, <1>3, <1>4, <1>5, <1>6, <1>7, <1>8 DEF Appends

LEMMA OthersUnmoved ==
  ASSUME TypeOK, ContentInv, CalmNext, ~GitCommit, \A c \in Clients : ~AppendOp(c)
  PROVE  Unmoved
<1> USE DEF store, walVars, cache, sessions, clients, history, bounds
<1>1. ASSUME NEW c \in Clients, ClientStep(c) \/ PushDuplicate(c) \/ PushRefused(c)
      PROVE  Unmoved
  BY <1>1 DEF ClientStep, NewBatch, Hello, Disconnect, PushDuplicate, PushRefused, Unmoved, Left,
              HeadTree
<1>2. ASSUME NEW c \in Clients, PushAccept(c) \/ PushAck(c) \/ BeginCommit(c)
      PROVE  Unmoved
  <2>1. /\ UNCHANGED <<wal, commits, shadow>>
        /\ proc.at \notin {"truncate", "persist"} /\ proc'.at \notin {"truncate", "persist"}
    BY <1>2 DEF PushAccept, PushAck, BeginCommit, PushPending, Free, Idle, At
  <2> QED BY <2>1 DEF Unmoved, Left, HeadTree
<1>3. CASE ApplyOp
  <2>1. /\ UNCHANGED <<wal, commits, shadow>>
        /\ proc.at \notin {"truncate", "persist"} /\ proc'.at \notin {"truncate", "persist"}
    BY <1>3 DEF ApplyOp, Applying, At
  <2> QED BY <2>1 DEF Unmoved, Left, HeadTree
<1>4. CASE TruncateClient
  <2>1. /\ proc.at = "truncate" /\ proc' = At("persist", proc.who, 0) /\ proc.who \in Clients
        /\ wal' = [log EXCEPT ![proc.who] = << >>] /\ log = wal
        /\ UNCHANGED <<commits, shadow>>
    BY <1>4 DEF TruncateClient, Kept, ContentInv, LogIsStages
  <2>2. wal \in [Clients -> Seq(Ops)]
    BY DEF TypeOK
  <2>3. \A d \in Clients : Left'[d] = Left[d]
    BY <2>1, <2>2 DEF Left, At
  <2>4. Left' = Left
    BY <2>3 DEF Left
  <2> QED BY <2>1, <2>4 DEF Unmoved, HeadTree
<1>5. CASE FinishCommit
  <2>1. /\ proc.at = "persist" /\ proc' = Idle /\ wal[proc.who] = << >>
        /\ UNCHANGED <<wal, commits, shadow>>
    BY <1>5 DEF FinishCommit, ContentInv, LogIsStages
  <2>2. \A d \in Clients : Left'[d] = Left[d]
    BY <2>1 DEF Left, Idle, At
  <2>3. Left' = Left
    BY <2>2 DEF Left
  <2> QED BY <2>1, <2>3 DEF Unmoved, HeadTree
<1>6. ASSUME NEW idlers \in SUBSET Clients, IdemTick(idlers) PROVE Unmoved
  BY <1>6 DEF IdemTick, Unmoved, Left, HeadTree
<1>7. CASE Evict
  <2>1. /\ UNCHANGED <<wal, commits, shadow>>
        /\ proc.at \notin {"truncate", "persist"} /\ proc'.at \notin {"truncate", "persist"}
    BY <1>7 DEF Evict, Drop, Free, Idle, At
  <2> QED BY <2>1 DEF Unmoved, Left, HeadTree
<1>8. CASE Hydrate
  <2>1. wtree = HeadTree
    BY <1>8 DEF Hydrate, ContentInv, WorktreeInStep, PathInv, HandlersUp
  <2> QED BY <1>8, <2>1 DEF Hydrate, Unmoved, Left, HeadTree
<1>9. CASE HydrateDone \/ UNCHANGED vars
  BY <1>9 DEF HydrateDone, vars, Unmoved, Left, HeadTree
<1> QED BY <1>1, <1>2, <1>3, <1>4, <1>5, <1>6, <1>7, <1>8, <1>9 DEF CalmNext

LEMMA ContentSteps ==
  ASSUME TypeOK, ContentInv, CalmNext
  PROVE  Unmoved \/ (\E c \in Clients : Appends(c)) \/ Commits
BY OthersUnmoved, AppendsOp, GitCommits
-----------------------------------------------------------------------------
(***************************************************************************)
(* The parts of ContentInv, one by one                                     *)
(***************************************************************************)
LEMMA MakesStep ==
  ASSUME TypeOK, ContentInv, CalmNext
  PROVE  LeftMakesContent' /\ SeenInTurn'
<1>1. Makes(Left, HeadTree, shadow) /\ Finds(Left, HeadTree)
  BY ContentParts DEF ContentInv
<1>2. Left \in [Clients -> Seq(Ops)] /\ HeadTree \in Trees /\ shadow \in Trees
  BY LeftType
<1>3. Makes(Left', HeadTree', shadow') /\ Finds(Left', HeadTree')
  <2>1. CASE Unmoved
    BY <1>1, <2>1 DEF Unmoved
  <2>2. ASSUME NEW c \in Clients, Appends(c)
        PROVE  Makes(Left', HeadTree', shadow') /\ Finds(Left', HeadTree')
    <3> DEFINE x == sent[c][proc.i]
    <3>1. /\ AppendOp(c) /\ Left' = [Left EXCEPT ![c] = Append(@, x)]
          /\ HeadTree' = HeadTree /\ shadow' = Effect(x, shadow)
      BY <2>2 DEF Appends
    <3>2. /\ proc.at = "append" /\ proc.who = c /\ up # "down" /\ proc.i \in DOMAIN sent[c]
          /\ Left[c] = wal[c] /\ x \in Ops
      BY <3>1, AppendsOp
    <3>3. Due(x, Overlay(Left[c], HeadTree))
      <4>1. proc.i >= proc.i
        BY DEF TypeOK
      <4> QED BY <3>2, <4>1 DEF ContentInv, SeenBySent
    <3>4. \A d \in Clients : d # c => Touched(x) \cap TouchedBy(Left[d]) = {}
      <4> SUFFICES ASSUME NEW d \in Clients, d # c PROVE Touched(x) \cap TouchedBy(Left[d]) = {}
        OBVIOUS
      <4>1. Left[d] = stages[d]
        BY <3>2 DEF Left, ContentInv, LogIsStages
      <4>2. proc.i >= proc.i
        BY DEF TypeOK
      <4> QED BY <3>2, <4>1, <4>2 DEF ContentInv, PathInv, AppendingClear
    <3> HIDE DEF x
    <3>5. Makes([Left EXCEPT ![c] = Append(@, x)], HeadTree, Effect(x, shadow))
      BY <1>1, <1>2, <3>2, <3>4, AppendMakes
    <3>6. Finds([Left EXCEPT ![c] = Append(@, x)], HeadTree)
      BY <1>1, <1>2, <3>2, <3>3, AppendFinds
    <3> QED BY <3>1, <3>5, <3>6
  <2>3. CASE Commits
    <3>1. Apart(Left)
      BY LeftApart DEF ContentInv
    <3>2. /\ proc.who \in Clients /\ shadow' = shadow
          /\ Left' = [Left EXCEPT ![proc.who] = << >>]
          /\ HeadTree' = Overlay(Left[proc.who], HeadTree)
      BY <2>3 DEF Commits
    <3>3. Makes([Left EXCEPT ![proc.who] = << >>], Overlay(Left[proc.who], HeadTree), shadow)
      BY <1>1, <1>2, <3>1, <3>2, CommitMakes
    <3>4. Finds([Left EXCEPT ![proc.who] = << >>], Overlay(Left[proc.who], HeadTree))
      BY <1>1, <1>2, <3>1, <3>2, CommitFinds
    <3> QED BY <3>2, <3>3, <3>4
  <2> QED BY <2>1, <2>2, <2>3, ContentSteps
<1> QED BY <1>3 DEF LeftMakesContent, Makes, SeenInTurn, Finds

LEMMA LogStep ==
  ASSUME TypeOK, ContentInv, CalmNext
  PROVE  LogIsStages'
<1> USE DEF store, walVars, cache, sessions, clients, history, bounds, ContentInv
<1>0. /\ wal \in [Clients -> Seq(Ops)] /\ stages \in [Committers -> Seq(Ops)]
      /\ Publisher \in Committers /\ Clients \subseteq Committers /\ Publisher \notin Clients
  BY ClientsAssumption DEF TypeOK, Committers
<1>1. ASSUME NEW c \in Clients,
             ClientStep(c) \/ PushDuplicate(c) \/ PushRefused(c) \/ PushAccept(c) \/ PushAck(c)
             \/ BeginCommit(c)
      PROVE  LogIsStages'
  <2>1. /\ UNCHANGED <<log, wal, walHandle, torn, stages, up>>
        /\ \/ proc' = proc
           \/ proc.at # "persist" /\ proc'.at # "persist" /\ proc'.who \in Clients
           \/ proc.at # "persist" /\ proc' = Idle
    BY <1>1 DEF ClientStep, NewBatch, Hello, Disconnect, PushDuplicate, PushRefused, PushAccept,
                PushAck, BeginCommit, PushPending, Free, Idle, At
  <2>2. Idle.at = "idle"
    BY DEF Idle, At
  <2>3. CASE proc' = proc
    BY <2>1, <2>3 DEF LogIsStages
  <2>4. CASE proc.at # "persist" /\ proc'.at # "persist" /\ proc'.who \in Clients
    BY <2>1, <2>4 DEF LogIsStages
  <2>5. CASE proc.at # "persist" /\ proc' = Idle
    BY <2>1, <2>2, <2>5 DEF LogIsStages
  <2> QED BY <2>1, <2>3, <2>4, <2>5
<1>2. ASSUME NEW c \in Clients, AppendOp(c) PROVE LogIsStages'
  <2> DEFINE x == sent[c][proc.i]
  <2>1. /\ stages' = [stages EXCEPT ![c] = Append(@, x)] /\ WalAppend(c, x)
        /\ proc' = At("append", c, proc.i + 1) /\ UNCHANGED <<torn, walHandle, up>>
        /\ proc.at = "append"
    BY <1>2 DEF AppendOp, Appending
  <2> HIDE DEF x
  <2>2. log' = [log EXCEPT ![c] = Append(@, x)] /\ wal' = log' /\ log = wal
    BY <2>1 DEF WalAppend, LogIsStages
  <2>3. \A d \in Clients : up # "down" => stages'[d] = wal'[d]
    BY <1>0, <2>1, <2>2 DEF LogIsStages
  <2>4. stages'[Publisher] = << >>
    BY <1>0, <2>1 DEF LogIsStages
  <2> QED BY <2>1, <2>2, <2>3, <2>4 DEF LogIsStages, At
<1>3. CASE ApplyOp \/ GitCommit
  <2>1. /\ UNCHANGED <<log, wal, walHandle, torn, stages, up>>
        /\ proc.at = "apply" /\ proc'.at # "persist" /\ proc'.who = proc.who
    BY <1>3 DEF ApplyOp, Applying, GitCommit, At
  <2> QED BY <2>1 DEF LogIsStages
<1>4. CASE TruncateClient
  <2>1. /\ proc.at = "truncate" /\ proc' = At("persist", proc.who, 0) /\ proc.who \in Clients
        /\ wal' = [wal EXCEPT ![proc.who] = << >>] /\ log' = wal'
        /\ torn' = FALSE /\ walHandle' = "linked" /\ UNCHANGED <<stages, up>>
    BY <1>4 DEF TruncateClient, Kept, LogIsStages
  <2> QED BY <1>0, <2>1 DEF LogIsStages, At
<1>5. CASE FinishCommit
  <2>1. /\ proc.at = "persist" /\ proc' = Idle /\ proc.who \in Clients /\ wal[proc.who] = << >>
        /\ stages' = [stages EXCEPT ![proc.who] = << >>]
        /\ UNCHANGED <<wal, log, torn, walHandle, up>>
    BY <1>5 DEF FinishCommit, LogIsStages
  <2>2. \A d \in Clients : up # "down" => stages'[d] = wal[d]
    BY <1>0, <2>1 DEF LogIsStages
  <2>3. stages'[Publisher] = << >>
    BY <1>0, <2>1 DEF LogIsStages
  <2> QED BY <2>1, <2>2, <2>3 DEF LogIsStages, Idle, At
<1>6. ASSUME NEW idlers \in SUBSET Clients, IdemTick(idlers) PROVE LogIsStages'
  BY <1>6 DEF IdemTick, LogIsStages
<1>7. CASE Evict
  <2>1. /\ wal' = wal /\ log' = wal' /\ walHandle' = "linked" /\ up' = "down" /\ proc' = Idle
        /\ torn' = (torn /\ walHandle = "linked")
        /\ stages' = [c \in Committers |-> << >>]
    BY <1>7 DEF Evict, Drop
  <2> QED BY <1>0, <2>1 DEF LogIsStages, Idle, At
<1>8. CASE Hydrate
  <2>1. /\ stages' = [c \in Committers |-> IF c \in Clients THEN wal[c] ELSE << >>]
        /\ UNCHANGED <<wal, log, torn, walHandle, proc>>
    BY <1>8 DEF Hydrate
  <2> QED BY <1>0, <2>1 DEF LogIsStages
<1>9. CASE HydrateDone \/ UNCHANGED vars
  BY <1>9 DEF HydrateDone, vars, LogIsStages
<1> QED BY <1>1, <1>2, <1>3, <1>4, <1>5, <1>6, <1>7, <1>8, <1>9 DEF CalmNext

LEMMA BatchesStep ==
  ASSUME SourcesStay, TypeOK, ContentInv, CalmNext, [Next]_vars
  PROVE  BatchesInOrder'
<1> SUFFICES ASSUME NEW c \in Clients
             PROVE  /\ \A i \in DOMAIN sent'[c] : WellFormed(sent'[c][i])
                    /\ \A k \in DOMAIN Left'[c] : WellFormed(Left'[c][k])
                    /\ \A i, j \in DOMAIN sent'[c] : i < j =>
                         /\ SourceStays(sent'[c][i], sent'[c][j])
                         /\ TouchOnce => Touched(sent'[c][i]) \cap Touched(sent'[c][j]) = {}
  BY DEF BatchesInOrder
<1>1. /\ \A i \in DOMAIN sent'[c] : WellFormed(sent'[c][i])
      /\ \A i, j \in DOMAIN sent'[c] : i < j =>
           /\ SourceStays(sent'[c][i], sent'[c][j])
           /\ TouchOnce => Touched(sent'[c][i]) \cap Touched(sent'[c][j]) = {}
  <2>1. CASE sent'[c] = sent[c]
    BY <2>1 DEF ContentInv, BatchesInOrder
  <2>2. CASE sent'[c] = << >>
    BY <2>2
  <2>3. CASE NewBatch(c)
    <3>1. PICK b \in Batches :
            sent' = [sent EXCEPT ![c] = [i \in DOMAIN b |-> Op(nextSeq[c] + i - 1, b[i])]]
      BY <2>3 DEF NewBatch
    <3>2. sent'[c] = [i \in DOMAIN b |-> Op(nextSeq[c] + i - 1, b[i])]
      BY <3>1 DEF TypeOK
    <3>3. \A i \in DOMAIN b : WellFormed(b[i])
      BY BatchesAssumption
    <3>4. \A i \in DOMAIN b : WellFormed(sent'[c][i]) /\ Touched(sent'[c][i]) = Touched(b[i])
      BY <3>2, <3>3 DEF WellFormed, Touched, Op
    <3>5. DOMAIN sent'[c] = DOMAIN b
      BY <3>2
    <3>6. ASSUME NEW i \in DOMAIN b, NEW j \in DOMAIN b, i < j
          PROVE  /\ SourceStays(sent'[c][i], sent'[c][j])
                 /\ TouchOnce => Touched(sent'[c][i]) \cap Touched(sent'[c][j]) = {}
      <4>1. SourceStays(b[i], b[j])
        BY <3>6 DEF SourcesStay
      <4>2. SourceStays(sent'[c][i], sent'[c][j])
        BY <3>2, <4>1 DEF SourceStays, Touched, Op
      <4>3. i # j
        <5>1. i \in Nat
          BY BatchesAssumption
        <5> QED BY <3>6, <5>1
      <4>4. TouchOnce => Touched(b[i]) \cap Touched(b[j]) = {}
        BY <4>3 DEF TouchOnce
      <4> QED BY <3>4, <4>2, <4>4
    <3> QED BY <3>4, <3>5, <3>6
  <2> QED BY <2>1, <2>2, <2>3, SentStep
<1>2. ASSUME NEW k \in DOMAIN Left'[c] PROVE WellFormed(Left'[c][k])
  <2>0. Left \in [Clients -> Seq(Ops)] /\ \A i \in DOMAIN Left[c] : WellFormed(Left[c][i])
    BY LeftType DEF ContentInv, BatchesInOrder
  <2>1. CASE Unmoved
    BY <1>2, <2>0, <2>1 DEF Unmoved
  <2>2. ASSUME NEW d \in Clients, Appends(d) PROVE WellFormed(Left'[c][k])
    <3> DEFINE x == sent[d][proc.i]
    <3>1. /\ AppendOp(d) /\ Left' = [Left EXCEPT ![d] = Append(@, x)]
      BY <2>2 DEF Appends
    <3>2. proc.i \in DOMAIN sent[d] /\ x \in Ops
      BY <3>1, AppendsOp
    <3>3. WellFormed(x)
      BY <3>2 DEF ContentInv, BatchesInOrder
    <3> HIDE DEF x
    <3>4. Left'[c] \in {Left[c], Append(Left[c], x)}
      BY <2>0, <3>1
    <3>5. Left[c] \in Seq(Ops)
      BY <2>0
    <3>6. /\ Len(Append(Left[c], x)) = Len(Left[c]) + 1 /\ Append(Left[c], x)[Len(Left[c]) + 1] = x
          /\ \A i \in 1..Len(Left[c]) : Append(Left[c], x)[i] = Left[c][i]
          /\ DOMAIN Append(Left[c], x) = 1..(Len(Left[c]) + 1)
          /\ DOMAIN Left[c] = 1..Len(Left[c]) /\ Len(Left[c]) \in Nat
      BY <3>2, <3>5, AppendProperties, LenProperties DEF x
    <3>7. k \in DOMAIN Left[c] \/ (Left'[c] = Append(Left[c], x) /\ k = Len(Left[c]) + 1)
      BY <1>2, <3>4, <3>6
    <3> QED BY <2>0, <3>3, <3>4, <3>6, <3>7
  <2>3. CASE Commits
    <3>1. Left'[c] \in {Left[c], << >>}
      BY <2>0, <2>3 DEF Commits
    <3> QED BY <1>2, <2>0, <3>1
  <2> QED BY <2>1, <2>2, <2>3, ContentSteps
<1> QED BY <1>1, <1>2

\* Where the steps of a push begin and end.
LEMMA PushesBetween ==
  ASSUME ContentInv, NEW c \in Clients, PushAccept(c) \/ PushAck(c) \/ AppendOp(c)
  PROVE  /\ UNCHANGED <<commits, wtree, headCached, sizes, up>> /\ up # "down"
         /\ proc.at \in {"idle", "append"} /\ proc'.at \in {"idle", "append"}
<1> USE DEF store, cache
<1>1. CASE PushAccept(c)
  <2>1. /\ UNCHANGED <<commits, wtree, headCached, sizes, up>> /\ proc = Idle /\ up = "serving"
    BY <1>1 DEF PushAccept, PushPending, Serving, Free
  <2>2. PICK k : proc' = At("append", c, k)
    BY <1>1 DEF PushAccept
  <2> QED BY <2>1, <2>2 DEF Idle, At
<1>2. CASE PushAck(c)
  <2>1. /\ UNCHANGED <<commits, wtree, headCached, sizes, up>> /\ proc.at = "append"
        /\ proc' = Idle
    BY <1>2 DEF PushAck
  <2>2. up # "down"
    BY <2>1 DEF ContentInv, PathInv, HandlersUp
  <2> QED BY <2>1, <2>2 DEF Idle, At
<1>3. CASE AppendOp(c)
  <2>1. /\ UNCHANGED <<commits, wtree, headCached, sizes, up>> /\ proc.at = "append"
        /\ proc' = At("append", c, proc.i + 1)
    BY <1>3 DEF AppendOp, Appending
  <2>2. up # "down"
    BY <2>1 DEF ContentInv, PathInv, HandlersUp
  <2> QED BY <2>1, <2>2 DEF At
<1> QED BY <1>1, <1>2, <1>3

LEMMA WorktreeStep ==
  ASSUME TypeOK, ContentInv, CalmNext
  PROVE  WorktreeInStep'
<1> USE DEF store, walVars, cache, sessions, clients, history, bounds
<1>0. /\ Left \in [Clients -> Seq(Ops)] /\ HeadTree \in Trees
      /\ proc.at # "apply" => wtree = HeadTree
      /\ proc.at = "apply" => /\ proc.i <= Len(Left[proc.who]) + 1
                              /\ wtree = Through(Left[proc.who], HeadTree)[proc.i - 1]
  BY LeftType DEF ContentInv, WorktreeInStep
<1>1. ASSUME UNCHANGED <<commits, wtree, wal, proc>> PROVE WorktreeInStep'
  <2>1. Left' = Left /\ HeadTree' = HeadTree
    BY <1>1 DEF Left, HeadTree
  <2> QED BY <1>0, <1>1, <2>1 DEF WorktreeInStep
<1>2. ASSUME UNCHANGED <<commits, wtree>>, proc.at # "apply", proc'.at # "apply"
      PROVE  WorktreeInStep'
  <2>1. HeadTree' = HeadTree
    BY <1>2 DEF HeadTree
  <2> QED BY <1>0, <1>2, <2>1 DEF WorktreeInStep
<1>3. ASSUME NEW c \in Clients, ClientStep(c) \/ PushDuplicate(c) \/ PushRefused(c)
      PROVE  WorktreeInStep'
  BY <1>1, <1>3 DEF ClientStep, NewBatch, Hello, Disconnect, PushDuplicate, PushRefused
<1>4. ASSUME NEW c \in Clients, PushAccept(c) \/ PushAck(c) \/ AppendOp(c)
      PROVE  WorktreeInStep'
  <2>1. UNCHANGED <<commits, wtree>> /\ proc.at # "apply" /\ proc'.at # "apply"
    BY <1>4, PushesBetween
  <2> QED BY <1>2, <2>1
<1>5. ASSUME NEW c \in Clients, BeginCommit(c) PROVE WorktreeInStep'
  <2>1. /\ proc.at = "idle" /\ proc' = At("apply", c, 1) /\ UNCHANGED <<commits, wtree>>
        /\ Unmoved
    BY <1>5, ContentSteps, OthersUnmoved DEF BeginCommit, Free, Idle, At, GitCommit, AppendOp,
       Appending
  <2>2. Left[c] \in Seq(Ops) /\ Through(Left[c], HeadTree)[0] = HeadTree
    BY <1>0, ThroughSteps
  <2>3. 1 <= Len(Left[c]) + 1
    BY <2>2
  <2>4. wtree' = HeadTree /\ Left' = Left /\ HeadTree' = HeadTree
    BY <1>0, <2>1 DEF Unmoved
  <2>5. proc'.at = "apply" /\ proc'.who = c /\ proc'.i = 1 /\ 1 - 1 = 0
    BY <2>1 DEF At
  <2> QED BY <2>2, <2>3, <2>4, <2>5 DEF WorktreeInStep
<1>6. CASE ApplyOp
  <2> DEFINE x == stages[proc.who][proc.i]
             s == Left[proc.who]
  <2>1. /\ proc.at = "apply" /\ Applying /\ wtree' = Effect(x, wtree)
        /\ proc' = At("apply", proc.who, proc.i + 1) /\ UNCHANGED <<commits, wal>>
    BY <1>6 DEF ApplyOp, Applying
  <2>2. /\ proc.who \in Clients /\ s = stages[proc.who] /\ proc.i \in DOMAIN s
        /\ wtree = Through(s, HeadTree)[proc.i - 1]
    BY <2>1, TurnOf
  <2>3. s \in Seq(Ops) /\ proc.i \in 1 .. Len(s)
    BY <1>0, <2>2
  <2>4. Through(s, HeadTree)[proc.i] = Effect(s[proc.i], Through(s, HeadTree)[proc.i - 1])
    BY <1>0, <2>3, ThroughSteps
  <2>5. wtree' = Through(s, HeadTree)[proc.i]
    BY <2>1, <2>2, <2>4
  <2>6. HeadTree' = HeadTree /\ Left'[proc.who] = s
    BY <2>1, <2>2 DEF HeadTree, Left, At
  <2>7. proc.i + 1 <= Len(s) + 1 /\ (proc.i + 1) - 1 = proc.i
    BY <2>3
  <2>8. proc'.at = "apply" /\ proc'.who = proc.who /\ proc'.i = proc.i + 1
    BY <2>1 DEF At
  <2> HIDE DEF s
  <2> QED BY <2>5, <2>6, <2>7, <2>8 DEF WorktreeInStep
<1>7. CASE GitCommit
  <2>1. wtree = HeadTree' /\ wtree' = wtree /\ proc'.at # "apply"
    BY <1>7, GitCommits DEF GitCommit, At
  <2> QED BY <2>1 DEF WorktreeInStep
<1>8. CASE TruncateClient \/ FinishCommit \/ Evict
  BY <1>2, <1>8 DEF TruncateClient, FinishCommit, Evict, Drop, Free, Idle, At
<1>9. ASSUME NEW idlers \in SUBSET Clients, IdemTick(idlers) PROVE WorktreeInStep'
  BY <1>1, <1>9 DEF IdemTick
<1>10. CASE Hydrate
  <2>1. proc.at = "idle" /\ proc' = proc /\ wtree' = wtree
    BY <1>10 DEF Hydrate, ContentInv, PathInv, HandlersUp
  <2>2. commits' = commits
    BY <1>0, <1>10, <2>1 DEF Hydrate
  <2> QED BY <1>2, <2>1, <2>2
<1>11. CASE HydrateDone \/ UNCHANGED vars
  BY <1>1, <1>11 DEF HydrateDone, vars
<1> QED BY <1>3, <1>4, <1>5, <1>6, <1>7, <1>8, <1>9, <1>10, <1>11 DEF CalmNext

LEMMA SentSeenStep ==
  ASSUME TypeOK, ContentInv, CalmNext, [Next]_vars
  PROVE  SeenBySent'
<1> USE DEF store, walVars, cache, sessions, clients, history, bounds
<1>1. ASSUME NEW c \in Clients, PushAccept(c) PROVE SeenBySent'
  <2>1. PICK k \in DOMAIN sent[c] :
          IsFirstNew(k, sent[c], idem[c]) /\ proc' = At("append", c, k)
    BY <1>1 DEF PushAccept
  <2>2. /\ ~StaleBase(c) /\ proc = Idle /\ up = "serving"
        /\ UNCHANGED <<commits, wal, sent>> /\ sent[c] \in Seq(Ops)
    BY <1>1 DEF PushAccept, Refusable, PushPending, Free, Serving, TypeOK
  <2>3. Left' = Left /\ HeadTree' = HeadTree /\ Left[c] = stages[c]
    <3>1. Idle.at = "idle"
      BY DEF Idle, At
    <3>2. HeadTree' = HeadTree
      BY <2>2 DEF HeadTree
    <3>3. Left' = Left
      BY <2>1, <2>2, <3>1 DEF Left, At
    <3>4. Left[c] = wal[c] /\ stages[c] = wal[c]
      BY <2>2, <3>1 DEF Left, ContentInv, LogIsStages
    <3> QED BY <3>2, <3>3, <3>4
  <2>4. ASSUME NEW i \in DOMAIN sent[c], i >= k
        PROVE  Due(sent[c][i], Overlay(Left[c], HeadTree))
    <3>1. /\ sent[c][k].seq > idem[c] /\ sent[c][k].seq \in Nat /\ sent[c][i].seq \in Nat
          /\ idem[c] \in Nat
      <4>1. sent[c][k] \in Ops /\ sent[c][i] \in Ops
        BY <2>2
      <4> QED BY <2>1, <4>1 DEF IsFirstNew, Ops, TypeOK
    <3>2. i = k \/ k < i
      BY <2>2, <2>4
    <3>3. i = k \/ sent[c][k].seq < sent[c][i].seq
      BY <3>2 DEF ContentInv, PathInv, SentAscending
    <3>4. sent[c][i].seq > idem[c]
      BY <3>1, <3>3
    <3>5. sent[c][i] \in FreshOps(c)
      BY <3>4 DEF FreshOps, Unseen, Range
    <3>6. PreHashMatches(sent[c][i], Overlay(Left[c], HeadTree))
      BY <2>2, <2>3, <3>5 DEF StaleBase
    <3>7. WellFormed(sent[c][i]) /\ sent[c][i].type \in OpTypes
      <4>1. sent[c][i] \in Ops
        BY <2>2
      <4> QED BY <4>1 DEF ContentInv, BatchesInOrder, Ops
    <3> QED BY <3>6, <3>7 DEF Due, Applicable, WellFormed, PreHashMatches, OpTypes
  <2>5. proc'.at = "append" /\ proc'.who = c /\ proc'.i = k
    BY <2>1 DEF At
  <2> QED BY <2>2, <2>3, <2>4, <2>5 DEF SeenBySent
<1>2. ASSUME NEW c \in Clients, AppendOp(c) PROVE SeenBySent'
  <2> DEFINE x == sent[c][proc.i]
             s == Left[c]
  <2>1. Appends(c) /\ proc.at = "append" /\ proc.who = c /\ proc.i \in DOMAIN sent[c] /\ x \in Ops
    BY <1>2, AppendsOp
  <2>2. /\ Left'[c] = Append(s, x) /\ HeadTree' = HeadTree /\ s \in Seq(Ops) /\ HeadTree \in Trees
    BY <2>1, LeftType DEF Appends
  <2>3. /\ proc'.at = "append" /\ proc'.who = c /\ proc'.i = proc.i + 1 /\ sent' = sent
    BY <1>2 DEF AppendOp, At
  <2>4. Overlay(Append(s, x), HeadTree) = Effect(x, Overlay(s, HeadTree))
        /\ Overlay(s, HeadTree) \in Trees
    BY <2>1, <2>2, ThroughAppend, OverlayType
  <2>5. sent[c] \in Seq(Ops) /\ proc.i \in Nat
    BY DEF TypeOK
  <2>6. ASSUME NEW i \in DOMAIN sent[c], i >= proc.i + 1
        PROVE  Due(sent[c][i], Effect(x, Overlay(s, HeadTree)))
    <3> DEFINE y == sent[c][i]
               t == Overlay(s, HeadTree)
    <3>1. y \in Ops /\ i \in Nat
      BY <2>5
    <3>2. proc.i < i /\ i >= proc.i /\ proc.i >= proc.i
      BY <2>5, <2>6, <3>1
    <3>3. /\ SourceStays(x, y) /\ WellFormed(x)
          /\ TouchOnce => Touched(x) \cap Touched(y) = {}
      BY <2>1, <3>2 DEF ContentInv, BatchesInOrder
    <3>4. Due(x, t) /\ Due(y, t)
      BY <2>1, <3>2 DEF ContentInv, SeenBySent
    <3>5. t \in Trees /\ x \in Ops
      BY <2>1, <2>4
    <3> HIDE DEF x, s, y, t
    <3>6. y.path \in Paths /\ y.path \in Touched(y)
      BY <3>1 DEF Touched, Ops
    <3>7. y.path \notin Touched(x) => Effect(x, t)[y.path] = t[y.path]
      BY <3>5, <3>6, EffectFrame
    <3>8. TouchOnce => PreHashMatches(y, Effect(x, t))
      BY <3>3, <3>4, <3>6, <3>7 DEF Due, PreHashMatches
    <3>9. Applicable(y, Effect(x, t))
      <4>1. CASE y.type = "write" \/ y.path \notin Touched(x)
        BY <3>4, <3>7, <4>1 DEF Due, Applicable
      <4>2. CASE y.type # "write" /\ y.path \in Touched(x)
        <5>1. x.type = "write" \/ (x.type = "rename" /\ x.to = y.path)
          BY <3>3, <4>2 DEF SourceStays
        <5>2. CASE x.type = "write"
          <6>1. x.data # Absent /\ x.path = y.path
            BY <3>3, <4>2, <5>2 DEF WellFormed, Touched
          <6>2. Effect(x, t) = [t EXCEPT ![x.path] = x.data]
            BY <5>2 DEF Effect
          <6> QED BY <3>5, <3>6, <6>1, <6>2 DEF Applicable, Trees
        <5>3. CASE x.type = "rename" /\ x.to = y.path
          <6>1. t[x.path] # Absent
            BY <3>4, <5>3 DEF Due, Applicable
          <6>2. Effect(x, t) = [t EXCEPT ![x.path] = Absent, ![x.to] = t[x.path]]
            BY <5>3 DEF Effect
          <6>3. Effect(x, t)[y.path] = t[x.path]
            BY <3>5, <3>6, <5>3, <6>2 DEF Trees
          <6> QED BY <6>1, <6>3 DEF Applicable
        <5> QED BY <5>1, <5>2, <5>3
      <4> QED BY <4>1, <4>2
    <3>10. Due(y, Effect(x, t))
      BY <3>8, <3>9 DEF Due
    <3> QED BY <3>10 DEF x, y, t, s
  <2> HIDE DEF x, s
  <2> QED BY <2>2, <2>3, <2>4, <2>6 DEF SeenBySent
<1>3. ASSUME proc' = proc, Unmoved PROVE SeenBySent'
  <2> SUFFICES ASSUME proc.at = "append" PROVE SeenBySent'
    BY <1>3 DEF SeenBySent
  <2>1. proc.who \in Clients /\ sent[proc.who] # << >> /\ up # "down"
    BY DEF ContentInv, PathInv, AppendingClear, HandlersUp, LogIsStages
  <2>2. sent'[proc.who] = sent[proc.who] \/ sent'[proc.who] = << >>
    BY <2>1, SentStep DEF NewBatch
  <2> QED BY <1>3, <2>1, <2>2 DEF SeenBySent, ContentInv, Unmoved
<1>4. ASSUME proc'.at # "append" PROVE SeenBySent'
  BY <1>4 DEF SeenBySent
<1>5. ASSUME NEW c \in Clients, PushAck(c) \/ BeginCommit(c) PROVE SeenBySent'
  BY <1>4, <1>5 DEF PushAck, BeginCommit, Idle, At
<1>6. CASE ApplyOp \/ GitCommit \/ TruncateClient \/ FinishCommit \/ Evict
  BY <1>4, <1>6 DEF ApplyOp, GitCommit, TruncateClient, FinishCommit, Evict, Drop, Idle, At
<1>7. ASSUME NEW c \in Clients, ClientStep(c) \/ PushDuplicate(c) \/ PushRefused(c)
      PROVE  SeenBySent'
  <2>1. UNCHANGED <<proc, commits, wal, shadow>>
    BY <1>7 DEF ClientStep, NewBatch, Hello, Disconnect, PushDuplicate, PushRefused
  <2>2. Unmoved
    BY <2>1 DEF Unmoved, Left, HeadTree
  <2> QED BY <1>3, <2>1, <2>2
<1>8. ASSUME NEW idlers \in SUBSET Clients, IdemTick(idlers) PROVE SeenBySent'
  <2>1. UNCHANGED <<proc, commits, wal, shadow>>
    BY <1>8 DEF IdemTick
  <2>2. Unmoved
    BY <2>1 DEF Unmoved, Left, HeadTree
  <2> QED BY <1>3, <2>1, <2>2
<1>9. CASE Hydrate
  <2>1. proc.at = "idle" /\ proc' = proc
    BY <1>9 DEF Hydrate, ContentInv, PathInv, HandlersUp
  <2> QED BY <1>4, <2>1
<1>10. CASE HydrateDone \/ UNCHANGED vars
  <2>1. UNCHANGED <<proc, commits, wal, shadow>>
    BY <1>10 DEF HydrateDone, vars
  <2>2. Unmoved
    BY <2>1 DEF Unmoved, Left, HeadTree
  <2> QED BY <1>3, <2>1, <2>2
<1> QED BY <1>1, <1>2, <1>5, <1>6, <1>7, <1>8, <1>9, <1>10 DEF CalmNext

LEMMA CachesStep ==
  ASSUME TypeOK, ContentInv, CalmNext
  PROVE  CachesInStep'
<1> USE DEF store, walVars, cache, sessions, clients, history, bounds
<1> DEFINE Between(at) == at \notin {"truncate", "persist"}
           Counted == headCached = Len(commits) /\ sizes = Files(HeadTree)
<1>0. /\ up # "down" /\ Between(proc.at) => Counted
      /\ up # "down" /\ ~Between(proc.at) => Files(HeadTree) = Track(stages[proc.who], sizes)
  BY DEF ContentInv, CachesInStep
<1>1. ASSUME up' = "down" PROVE CachesInStep'
  BY <1>1 DEF CachesInStep
<1>2. ASSUME up # "down", Between(proc.at), Between(proc'.at),
             UNCHANGED <<headCached, commits, sizes>>
      PROVE  CachesInStep'
  BY <1>0, <1>2 DEF CachesInStep, HeadTree
<1>3. ASSUME UNCHANGED <<up, headCached, commits, sizes, proc, stages>> PROVE CachesInStep'
  BY <1>0, <1>3 DEF CachesInStep, HeadTree
<1>4. ASSUME NEW c \in Clients, ClientStep(c) \/ PushDuplicate(c) \/ PushRefused(c)
      PROVE  CachesInStep'
  BY <1>3, <1>4 DEF ClientStep, NewBatch, Hello, Disconnect, PushDuplicate, PushRefused
<1>5. ASSUME NEW c \in Clients, PushAccept(c) \/ AppendOp(c) \/ PushAck(c)
      PROVE  CachesInStep'
  <2>1. /\ UNCHANGED <<headCached, commits, sizes>> /\ up # "down"
        /\ proc.at \in {"idle", "append"} /\ proc'.at \in {"idle", "append"}
    BY <1>5, PushesBetween
  <2> QED BY <1>2, <2>1
<1>15. ASSUME NEW c \in Clients, BeginCommit(c) PROVE CachesInStep'
  <2>1. /\ UNCHANGED <<headCached, commits, sizes>> /\ up # "down"
        /\ proc.at = "idle" /\ proc'.at = "apply"
    BY <1>15 DEF BeginCommit, Free, Idle, At
  <2> QED BY <1>2, <2>1
<1>6. CASE ApplyOp
  <2>1. /\ UNCHANGED <<headCached, commits, sizes>> /\ proc.at = "apply" /\ proc'.at = "apply"
    BY <1>6 DEF ApplyOp, Applying, At
  <2>2. up # "down"
    BY <2>1 DEF ContentInv, PathInv, HandlersUp
  <2> QED BY <1>2, <2>1, <2>2
<1>7. CASE GitCommit
  <2> DEFINE s == stages[proc.who]
  <2>1. /\ proc.at = "apply" /\ proc'.at = "truncate" /\ proc'.who = proc.who
        /\ UNCHANGED <<sizes, stages, up>>
    BY <1>7 DEF GitCommit, At
  <2>2. /\ proc.who \in Clients /\ up # "down" /\ Left[proc.who] = s
        /\ HeadTree' = Overlay(s, HeadTree)
    BY <1>7, GitCommits DEF Commits
  <2>3. s \in Seq(Ops) /\ HeadTree \in Trees
    BY <2>2, LeftType
  <2>4. \A n \in DOMAIN s : /\ WellFormed(s[n])
                            /\ Applicable(s[n], Through(s, HeadTree)[n - 1])
    BY <2>2 DEF ContentInv, BatchesInOrder, SeenInTurn, Due
  <2> HIDE DEF s
  <2>5. Track(s, Files(HeadTree)) = Files(Overlay(s, HeadTree))
    BY <2>3, <2>4, TrackFiles
  <2>6. sizes = Files(HeadTree)
    BY <1>0, <2>1, <2>2
  <2> QED BY <2>1, <2>2, <2>5, <2>6 DEF CachesInStep, s
<1>8. CASE TruncateClient
  <2>1. /\ proc.at = "truncate" /\ proc'.at = "persist" /\ proc'.who = proc.who
        /\ UNCHANGED <<sizes, stages, up, commits>>
    BY <1>8 DEF TruncateClient, At
  <2>2. up # "down"
    BY <2>1 DEF ContentInv, PathInv, HandlersUp
  <2> QED BY <1>0, <2>1, <2>2 DEF CachesInStep, HeadTree
<1>9. CASE FinishCommit
  <2>1. /\ proc.at = "persist" /\ proc' = Idle /\ UNCHANGED <<commits, up>>
        /\ sizes' = Track(stages[proc.who], sizes) /\ headCached' = Len(commits')
    BY <1>9 DEF FinishCommit, NewHead
  <2>2. up # "down"
    BY <2>1 DEF ContentInv, PathInv, HandlersUp
  <2>3. Files(HeadTree) = Track(stages[proc.who], sizes)
    BY <1>0, <2>1, <2>2
  <2>4. HeadTree' = HeadTree
    BY <2>1 DEF HeadTree
  <2>5. proc'.at = "idle"
    BY <2>1 DEF Idle, At
  <2> QED BY <2>1, <2>3, <2>4, <2>5 DEF CachesInStep
<1>10. ASSUME NEW idlers \in SUBSET Clients, IdemTick(idlers) PROVE CachesInStep'
  BY <1>3, <1>10 DEF IdemTick
<1>11. CASE Evict
  BY <1>1, <1>11 DEF Evict, Drop
<1>12. CASE Hydrate
  <2>1. proc.at = "idle" /\ proc' = proc /\ headCached' = Len(commits') /\ sizes' = Files(wtree)
    BY <1>12 DEF Hydrate, ContentInv, PathInv, HandlersUp, NewHead
  <2>2. wtree = HeadTree /\ commits' = commits
    BY <1>12, <2>1 DEF Hydrate, ContentInv, WorktreeInStep
  <2>3. HeadTree' = wtree
    BY <2>2 DEF HeadTree
  <2> QED BY <2>1, <2>3 DEF CachesInStep
<1>13. CASE HydrateDone
  <2>1. /\ proc.at = "idle" /\ proc' = proc /\ UNCHANGED <<headCached, commits, sizes>>
        /\ up # "down"
    BY <1>13 DEF HydrateDone, Free, Idle, At
  <2> QED BY <1>2, <2>1
<1>14. CASE UNCHANGED vars
  BY <1>3, <1>14 DEF vars
<1> QED BY <1>4, <1>5, <1>6, <1>7, <1>8, <1>9, <1>10, <1>11, <1>12, <1>13, <1>14, <1>15
        DEF CalmNext

LEMMA ContentInit == Init => ContentInv
<1> SUFFICES ASSUME Init PROVE ContentInv
  OBVIOUS
<1>1. TypeOK /\ PathInv
  BY TypeInit, PathInit
<1>2. /\ proc.at = "idle" /\ HeadTree = wtree /\ shadow = wtree /\ headCached = Len(commits)
      /\ wtree = [p \in Paths |-> Absent] /\ sizes = {}
  BY DEF Init, Idle, At, HeadTree
<1>3. /\ \A c \in Clients : wal[c] = << >> /\ sent[c] = << >> /\ stages[c] = << >>
      /\ stages[Publisher] = << >> /\ walHandle = "linked" /\ log = wal /\ ~torn
  BY DEF Init, Committers
<1>4. \A c \in Clients : Left[c] = << >>
  BY <1>3 DEF Left
<1>5. Files(HeadTree) = sizes
  BY <1>2 DEF Files
<1>6. LogIsStages /\ WorktreeInStep /\ CachesInStep
  BY <1>2, <1>3, <1>5 DEF LogIsStages, WorktreeInStep, CachesInStep
<1>7. BatchesInOrder /\ SeenInTurn /\ SeenBySent
  BY <1>2, <1>3, <1>4 DEF BatchesInOrder, SeenInTurn, SeenBySent
<1>8. LeftMakesContent
  BY <1>2, <1>4, TouchedEmpty DEF LeftMakesContent
<1> QED BY <1>1, <1>6, <1>7, <1>8 DEF ContentInv

LEMMA ContentStep ==
  ASSUME Calm, SourcesStay
  PROVE  TypeOK /\ ContentInv /\ [Next]_vars => ContentInv'
<1> SUFFICES ASSUME TypeOK, ContentInv, [Next]_vars PROVE ContentInv'
  OBVIOUS
<1>1. CalmNext
  BY CalmSteps
<1>2. PathInv'
  BY PathInvStep DEF ContentInv
<1>3. LogIsStages' /\ WorktreeInStep' /\ CachesInStep'
  BY <1>1, LogStep, WorktreeStep, CachesStep
<1>4. BatchesInOrder' /\ SeenBySent'
  BY <1>1, BatchesStep, SentSeenStep
<1>5. LeftMakesContent' /\ SeenInTurn'
  BY <1>1, MakesStep
<1> QED BY <1>2, <1>3, <1>4, <1>5 DEF ContentInv

\* The invariant of the content of a vault.
THEOREM ContentInvariant ==
  ASSUME Calm, SourcesStay
  PROVE  Spec => [](TypeOK /\ ContentInv)
<1>1. Init => TypeOK /\ ContentInv
  BY TypeInit, ContentInit
<1>2. TypeOK /\ ContentInv /\ [Next]_vars => (TypeOK /\ ContentInv)'
  BY TypeStep, ContentStep
<1> QED BY <1>1, <1>2, PTL DEF Spec

\* Committing what is staged, in whatever order, makes of HEAD the tree that
\* the accepted ops make in the order of their acceptance.
THEOREM CommitsMakeContent ==
  ASSUME Calm, SourcesStay
  PROVE  Spec => []EffectiveContent
<1>1. TypeOK /\ ContentInv => EffectiveContent
  <2> SUFFICES ASSUME TypeOK, ContentInv, Quiet PROVE EffectiveContent
    BY DEF EffectiveContent
  <2>1. proc.at = "idle" /\ up # "down"
    BY DEF Quiet, Free, Serving, Idle, At
  <2>2. \A c \in Clients : Left[c] = stages[c]
    BY <2>1 DEF Left, ContentInv, LogIsStages
  <2> QED BY <2>2 DEF EffectiveContent, ContentInv, LeftMakesContent
<1> QED BY <1>1, ContentInvariant, PTL

\* The head that acks report is HEAD, and the files that are counted are its.
THEOREM CachesFollowHead ==
  ASSUME Calm, SourcesStay
  PROVE  Spec => []CachesMatchHead
<1>1. TypeOK /\ ContentInv => CachesMatchHead
  BY DEF ContentInv, CachesInStep, CachesMatchHead, Quiet, Free, Serving, Idle, At
<1> QED BY <1>1, ContentInvariant, PTL

\* What a commit overwrites, deletes or moves is what the author of the op had
\* seen there, when no batch touches a path twice.
THEOREM CommitsReplaceWhatWasSeen ==
  ASSUME Calm, TouchOnce
  PROVE  Spec => RespectsPreHash
<1>1. TypeOK /\ ContentInv /\ [Next]_vars =>
        [wtree' # wtree /\ proc.at = "apply" /\ proc.who \in Clients
           => PreHashMatches(stages[proc.who][proc.i], wtree)]_vars
  <2> SUFFICES ASSUME TypeOK, ContentInv, [Next]_vars, wtree' # wtree, proc.at = "apply"
               PROVE  PreHashMatches(stages[proc.who][proc.i], wtree)
    OBVIOUS
  <2>1. CalmNext
    BY CalmSteps
  <2>2. ApplyOp
    <3>1. ~Evict /\ ~Hydrate /\ \A c \in Clients : ~BeginCommit(c)
      BY DEF Evict, Hydrate, BeginCommit, Free, Idle, At, ContentInv, PathInv, HandlersUp
    <3> QED BY <2>1, <3>1
            DEF CalmNext, ClientStep, NewBatch, Hello, Disconnect, PushDuplicate, PushRefused,
                PushAccept, AppendOp, PushAck, GitCommit, TruncateClient, FinishCommit, IdemTick,
                HydrateDone, vars, store
  <2> QED BY <2>2, TurnOf DEF ApplyOp, Due
<1>2. SourcesStay
  <2> SUFFICES ASSUME NEW b \in Batches, NEW i \in DOMAIN b, NEW j \in DOMAIN b, i < j
               PROVE  SourceStays(b[i], b[j])
    BY DEF SourcesStay
  <2>1. i \in Nat
    BY BatchesAssumption
  <2>2. Touched(b[i]) \cap Touched(b[j]) = {}
    BY <2>1 DEF TouchOnce
  <2> QED BY <2>2 DEF SourceStays, Touched
<1>3. Spec => [](TypeOK /\ ContentInv)
  BY <1>2, ContentInvariant
<1> QED BY <1>1, <1>3, PTL DEF Spec, RespectsPreHash
=============================================================================
