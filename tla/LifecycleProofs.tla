-------------------------- MODULE LifecycleProofs --------------------------
(***************************************************************************)
(* What VaultLifecycle keeps when no known race is let loose (Risks = {}), *)
(* for every number of connections, VaultStates, ops and faults: the last  *)
(* acked op is in HEAD or in the WAL file of the directory, and every      *)
(* client that said hello has HEAD.  LifeInv is the inductive invariant;   *)
(* its heart is that nobody but the VaultState of the table has work left. *)
(***************************************************************************)
EXTENDS VaultLifecycle, TLAPS

NoRisk == Risks = {}

\* The newest entry of the WAL is the op acked last.
LEMMA NewestAcked ==
  ASSUME TypeOK, WalNewest
  PROVE  Newest(wal) = IF wal = {} THEN 0 ELSE acked
<1>1. CASE wal = {}
  BY <1>1 DEF Newest
<1>2. CASE wal # {}
  <2>0. wal \subseteq Nat
    BY DEF TypeOK
  <2>1. acked \in wal /\ (\A n \in wal : n <= acked) /\ acked \in Nat /\ acked # 0
    BY <1>2 DEF WalNewest, TypeOK
  <2>2. \E n \in wal \cup {0} : \A m \in wal : m <= n
    BY <2>1
  <2>3. Newest(wal) \in wal \cup {0} /\ \A m \in wal : m <= Newest(wal)
    BY <2>2 DEF Newest
  <2>4. \A n \in wal \cup {0} : n \in Nat
    BY <2>0
  <2>5. Newest(wal) >= acked /\ Newest(wal) <= acked /\ Newest(wal) \in Nat
    <3>1. Newest(wal) \in Nat /\ Newest(wal) >= acked
      <4>1. Newest(wal) \in Nat
        BY <2>3, <2>4, Zenon
      <4>2. acked <= Newest(wal)
        BY <2>1, <2>3
      <4> QED
        BY <2>1, <4>1, <4>2
    <3>2. CASE Newest(wal) = 0
      BY <2>1, <3>1, <3>2
    <3>3. CASE Newest(wal) \in wal
      BY <2>1, <3>1, <3>3
    <3> QED
      BY <2>3, <3>1, <3>2, <3>3
  <2> QED
    BY <1>2, <2>1, <2>5
<1> QED
  BY <1>1, <1>2

\* The name of a new VaultState.
LEMMA FreeType ==
  ASSUME Free # {}
  PROVE  (CHOOSE s \in Free : TRUE) \in Free /\ Free \subseteq States
BY DEF Free

\* A state of a connection, and one of a VaultState, with a field changed.
LEMMA ConnFields ==
  /\ Gone \in ConnType
  /\ \A pc \in {"off", "missing", "waiting", "auth", "live", "closed"} :
       /\ [Gone EXCEPT !.pc = pc] \in ConnType
       /\ \A s \in States \cup {None} :
            /\ [Gone EXCEPT !.pc = pc, !.vs = s] \in ConnType
            /\ [Gone EXCEPT !.vs = s, !.pc = pc] \in ConnType
       /\ \A r \in ConnType : [r EXCEPT !.pc = pc] \in ConnType
  /\ \A h \in Nat \cup {None} : \A r \in ConnType :
       /\ [r EXCEPT !.head = h] \in ConnType
       /\ [r EXCEPT !.pc = "live", !.head = h] \in ConnType
BY DEF ConnType, Gone

LEMMA StateFields ==
  /\ NewState \in StateType /\ Closed \in StateType
  /\ \A r \in StateType :
       /\ \A x \in {"hydrating", "replaying", "ready", "closed"} :
            [r EXCEPT !.phase = x] \in StateType
       /\ \A j \in {"none", "git", "wal"} : [r EXCEPT !.job = j] \in StateType
       /\ \A t \in {"none", "armed", "fired"} : [r EXCEPT !.timer = t] \in StateType
       /\ [r EXCEPT !.job = "none", !.stage = 0, !.owner = None, !.detached = None] \in StateType
       /\ [r EXCEPT !.shutdown = TRUE] \in StateType
<1>1. NewState \in StateType
  BY DEF StateType, NewState
<1>2. Closed \in StateType
  BY DEF StateType, NewState, Closed
<1>3. ASSUME NEW r \in StateType, NEW x \in {"hydrating", "replaying", "ready", "closed"}
      PROVE  [r EXCEPT !.phase = x] \in StateType
  BY DEF StateType
<1>4. ASSUME NEW r \in StateType, NEW j \in {"none", "git", "wal"}
      PROVE  [r EXCEPT !.job = j] \in StateType
  BY DEF StateType
<1>5. ASSUME NEW r \in StateType, NEW t \in {"none", "armed", "fired"}
      PROVE  [r EXCEPT !.timer = t] \in StateType
  BY DEF StateType
<1>6. ASSUME NEW r \in StateType
      PROVE  /\ [r EXCEPT !.job = "none", !.stage = 0, !.owner = None, !.detached = None]
                  \in StateType
             /\ [r EXCEPT !.shutdown = TRUE] \in StateType
  BY DEF StateType
<1> QED
  BY <1>1, <1>2, <1>3, <1>4, <1>5, <1>6

\* Every step keeps the types.
LEMMA TypeStep == TypeOK /\ WalNewest /\ [Next]_vars => TypeOK'
<1> SUFFICES ASSUME TypeOK, WalNewest, [Next]_vars PROVE TypeOK'
  OBVIOUS
<1> USE LifecycleAssumption DEF TypeOK
<1>0. ASSUME inMap # None, NEW c \in Conns, Wait(c) PROVE conns' \in [Conns -> ConnType]
  BY <1>0, ConnFields DEF Wait
<1>1. ASSUME NEW c \in Conns, Lookup(c) PROVE TypeOK'
  <2>1. CASE inMap # None
    BY <1>0, <1>1, <2>1 DEF Lookup
  <2>2. CASE inMap = None
    <3>1. [conns[c] EXCEPT !.pc = "missing"] \in ConnType
      BY ConnFields
    <3> QED
      BY <1>1, <2>2, <3>1 DEF Lookup
  <2> QED
    BY <2>1, <2>2
<1>2. ASSUME NEW c \in Conns, Install(c) PROVE TypeOK'
  <2>1. CASE inMap # None
    BY <1>0, <1>2, <2>1 DEF Install
  <2>2. CASE inMap = None
    <3>1. PICK s \in States :
            /\ inMap' = s /\ states' = [states EXCEPT ![s] = NewState]
            /\ conns' = [conns EXCEPT ![c] = [Gone EXCEPT !.pc = "waiting", !.vs = s]]
      BY <1>2, <2>2, FreeType DEF Install
    <3> QED
      BY <1>2, <3>1, ConnFields, StateFields DEF Install
  <2> QED
    BY <2>1, <2>2
<1>3. ASSUME NEW s \in States, Replay(s) PROVE TypeOK'
  <2>1. Newest(wal) \in Nat
    BY NewestAcked
  <2>2. states' = [states EXCEPT ![s] = [states[s] EXCEPT !.phase = "replaying",
                     !.stage = Newest(wal), !.job = IF wal = {} THEN "none" ELSE "git"]]
    BY <1>3 DEF Replay
  <2>3. [states[s] EXCEPT !.phase = "replaying", !.stage = Newest(wal),
                          !.job = IF wal = {} THEN "none" ELSE "git"] \in StateType
    BY <2>1 DEF StateType
  <2>4. states' \in [States -> StateType]
    BY <2>2, <2>3
  <2> QED
    BY <1>3, <2>4 DEF Replay
<1>4. ASSUME NEW s \in States, NEW pc \in {"off", "auth"}
      PROVE  Released(s, pc) \in [Conns -> ConnType]
  BY ConnFields DEF Released
<1>5. ASSUME NEW s \in States, Ready(s) \/ HydrateFails(s) PROVE TypeOK'
  <2>1. conns' \in [Conns -> ConnType]
    BY <1>4, <1>5 DEF Ready, HydrateFails
  <2>2. states' \in [States -> StateType]
    <3>1. [states[s] EXCEPT !.phase = "ready"] \in StateType
      BY StateFields
    <3> QED
      BY <1>5, <3>1, StateFields DEF Ready, HydrateFails
  <2> QED
    BY <1>5, <2>1, <2>2 DEF Ready, HydrateFails
<1>6. ASSUME NEW c \in Conns, Register(c) PROVE TypeOK'
  <2> DEFINE s == conns[c].vs
             r == [states[s] EXCEPT !.clients = @ \cup {c}, !.timer = "none"]
  <2>1. /\ states' = IF s \in States THEN [states EXCEPT ![s] = r] ELSE states
        /\ conns' = [conns EXCEPT ![c] = [conns[c] EXCEPT !.pc = "live", !.head = None]]
    BY <1>6 DEF Register
  <2>2. s \in States => r \in StateType
    <3>1. s \in States => states[s] \in StateType /\ states[s].clients \cup {c} \in SUBSET Conns
      BY DEF StateType
    <3> QED
      BY <3>1 DEF StateType
  <2> HIDE DEF s, r
  <2>3. states' \in [States -> StateType]
    BY <2>1, <2>2
  <2>4. conns' \in [Conns -> ConnType]
    BY <2>1, ConnFields
  <2> QED
    BY <1>6, <2>3, <2>4 DEF Register
<1>7. ASSUME NEW c \in Conns, AuthFails(c) \/ Disconnect(c) PROVE TypeOK'
  BY <1>7, ConnFields DEF AuthFails, Disconnect
<1>8. ASSUME NEW c \in Conns, Hello(c) PROVE TypeOK'
  BY <1>8, ConnFields DEF Hello
<1>9. ASSUME NEW c \in Conns, Push(c) PROVE TypeOK'
  <2> DEFINE d == IF states[inMap].detached = None THEN None
                  ELSE states[inMap].detached \cup {ops'}
             r == [states[inMap] EXCEPT !.stage = ops', !.owner = c, !.detached = d]
  <2>0. /\ inMap \in States /\ ops' = ops + 1 /\ acked' = ops'
        /\ UNCHANGED <<inMap, conns, evictCh, git>>
        /\ wal' \subseteq wal \cup {ops'}
    BY <1>9 DEF Push, Serving
  <2>1. states' = [states EXCEPT ![inMap] = r]
    BY <1>9 DEF Push
  <2>2. d \in (SUBSET Nat) \cup {None}
    <3>1. states[inMap].detached \in (SUBSET Nat) \cup {None} /\ ops' \in Nat
      BY <2>0 DEF StateType
    <3> QED
      BY <3>1
  <2> HIDE DEF d
  <2>3. r \in StateType
    <3>1. states[inMap] \in StateType /\ ops' \in Nat
      BY <2>0
    <3> QED
      BY <2>2, <3>1 DEF StateType
  <2> HIDE DEF r
  <2> QED
    BY <2>0, <2>1, <2>3
<1>10. ASSUME NEW c \in Conns, Unregister(c) PROVE TypeOK'
  <2>1. conns' \in [Conns -> ConnType]
    BY <1>10, ConnFields DEF Unregister
  <2>2. states' \in [States -> StateType]
    <3>1. CASE inMap = None
      BY <1>10, <3>1 DEF Unregister
    <3>2. CASE inMap # None
      <4>1. states[inMap].clients \ {c} \in SUBSET Conns
            /\ states[inMap].timer \in {"none", "armed", "fired"}
        BY <3>2 DEF StateType
      <4>2. PICK t \in {"none", "armed", "fired"} :
              states' = [states EXCEPT ![inMap] = [states[inMap] EXCEPT
                           !.clients = states[inMap].clients \ {c}, !.timer = t]]
        BY <1>10, <3>2, <4>1 DEF Unregister
      <4>3. states[inMap] \in StateType
        BY <3>2
      <4>4. [states[inMap] EXCEPT !.clients = states[inMap].clients \ {c}, !.timer = t]
              \in StateType
        BY <4>1, <4>3 DEF StateType
      <4> QED
        BY <4>2, <4>4
    <3> QED
      BY <3>1, <3>2
  <2> QED
    BY <1>10, <2>1, <2>2 DEF Unregister
<1>11. ASSUME NEW s \in States, BeginCommit(s) \/ GitCommit(s) PROVE TypeOK'
  <2>1. states' \in [States -> StateType]
    <3>1. \A j \in {"git", "wal"} : [states[s] EXCEPT !.job = j] \in StateType
      BY StateFields
    <3> QED
      BY <1>11, <3>1 DEF BeginCommit, GitCommit
  <2>2. git' \in Nat
    BY <1>11 DEF BeginCommit, GitCommit, StateType
  <2> QED
    BY <1>11, <2>1, <2>2 DEF BeginCommit, GitCommit
<1>12. ASSUME NEW s \in States, Truncate(s) PROVE TypeOK'
  <2>1. states' \in [States -> StateType]
    <3>1. \A t \in States : [states[t] EXCEPT !.detached = wal] \in StateType
      BY DEF StateType
    <3>2. [states[s] EXCEPT !.job = "none", !.stage = 0, !.owner = None, !.detached = None]
            \in StateType
      BY StateFields
    <3> QED
      BY <1>12, <3>1, <3>2 DEF Truncate
  <2>2. conns' \in [Conns -> ConnType]
    <3>1. \A c \in Conns : [conns[c] EXCEPT !.head = git] \in ConnType
      BY ConnFields
    <3>2. [Gone EXCEPT !.pc = "closed"] \in ConnType
      BY ConnFields
    <3>3. \A c \in Conns : conns'[c] \in {[Gone EXCEPT !.pc = "closed"],
                                         [conns[c] EXCEPT !.head = git], conns[c]}
      BY <1>12 DEF Truncate
    <3>4. conns' = [c \in Conns |-> conns'[c]]
      BY <1>12 DEF Truncate
    <3> QED
      BY <3>1, <3>2, <3>3, <3>4
  <2> QED
    BY <1>12, <2>1, <2>2 DEF Truncate
<1>13. ASSUME NEW s \in States, TimerFires(s) \/ TryEvict(s) PROVE TypeOK'
  <2>1. states' \in [States -> StateType]
    <3>1. /\ [states[s] EXCEPT !.timer = "fired"] \in StateType
          /\ [states[s] EXCEPT !.timer = "none"] \in StateType
          /\ [states[s] EXCEPT !.shutdown = TRUE] \in StateType
      BY StateFields
    <3> QED
      BY <1>13, <3>1 DEF TimerFires, TryEvict
  <2> QED
    BY <1>13, <2>1 DEF TimerFires, TryEvict
<1>14. ASSUME NEW s \in States, Teardown(s) PROVE TypeOK'
  BY <1>14, StateFields DEF Teardown
<1>15. CASE Reload \/ Reset \/ Destroy
  <2>1. Detach
    BY <1>15 DEF Reload, Reset, Destroy
  <2>2. conns' \in [Conns -> ConnType]
    BY <2>1, ConnFields DEF Detach
  <2>3. inMap' = None /\ UNCHANGED <<states, evictCh, wal, ops>>
    BY <2>1 DEF Detach
  <2>4. git' \in Nat /\ acked' \in Nat
    BY <1>15 DEF Reload, Reset, Destroy
  <2> QED
    BY <2>2, <2>3, <2>4
<1>16. CASE Create \/ Crash \/ UNCHANGED vars
  BY <1>16, ConnFields, StateFields DEF Create, Crash, vars
<1> QED
  BY <1>1, <1>2, <1>3, <1>5, <1>6, <1>7, <1>8, <1>9, <1>10, <1>11, <1>12, <1>13, <1>14,
     <1>15, <1>16 DEF Next, HubStep
-----------------------------------------------------------------------------
\* The VaultState of the table is one, and a VaultState with work left is it.
LEMMA Current ==
  ASSUME TypeOK, OthersIdle, NEW s \in States,
         states[s].phase \notin {"closed", "ready"} \/ states[s].job # "none" \/ states[s].stage # 0
  PROVE  inMap = s /\ inMap # None
BY LifecycleAssumption DEF TypeOK, OthersIdle, States

\* HEAD and the WAL move to the last acked op, which nothing but a reset forgets.
LEMMA WalStep ==
  ASSUME NoRisk, TypeOK, OthersIdle, CurrentAtWork, WalNewest, [Next]_vars
  PROVE  WalNewest'
<1>1. CASE UNCHANGED <<git, wal, acked, ops>>
  BY <1>1 DEF WalNewest
<1>2. ASSUME NEW c \in Conns, Push(c) PROVE WalNewest'
  <2>1. /\ ops' = ops + 1 /\ acked' = ops' /\ git' = git
        /\ inMap # None
        /\ wal' = IF states[inMap].detached = None THEN wal \cup {ops'} ELSE wal
    BY <1>2 DEF Push, Serving
  <2>2. wal' = wal \cup {ops'}
    BY <2>1 DEF CurrentAtWork
  <2>3. \A n \in wal : n \in Nat /\ n <= acked
    BY DEF TypeOK, WalNewest
  <2>4. acked <= ops /\ acked \in Nat /\ ops \in Nat
    BY DEF TypeOK, WalNewest
  <2> QED
    BY <2>1, <2>2, <2>3, <2>4 DEF WalNewest
<1>3. ASSUME NEW s \in States, GitCommit(s) PROVE WalNewest'
  <2>1. inMap = s /\ inMap # None
    BY <1>3, Current DEF GitCommit
  <2>2. acked \in wal /\ UNCHANGED <<wal, acked, ops>>
    BY <1>3, <2>1 DEF GitCommit, CurrentAtWork
  <2> QED
    BY <2>2 DEF WalNewest
<1>4. ASSUME NEW s \in States, Truncate(s) PROVE WalNewest'
  <2>1. inMap = s /\ inMap # None
    BY <1>4, Current DEF Truncate
  <2>2. git = acked /\ wal' = {} /\ UNCHANGED <<git, acked, ops>>
    BY <1>4, <2>1 DEF Truncate, CurrentAtWork
  <2> QED
    BY <2>2 DEF WalNewest, TypeOK
<1>5. CASE Reset \/ Destroy
  <2>1. wal = {} /\ wal' = {} /\ acked' = 0 /\ ops' = ops
    BY <1>5 DEF Reset, Destroy, Detach, AtRest, NoRisk
  <2> QED
    BY <2>1 DEF WalNewest, TypeOK
<1>6. ASSUME NEW c \in Conns,
             \/ Lookup(c) \/ Install(c) \/ Register(c) \/ AuthFails(c) \/ Hello(c)
             \/ Disconnect(c) \/ Unregister(c)
      PROVE  UNCHANGED <<git, wal, acked, ops>>
  BY <1>6 DEF Lookup, Install, Register, AuthFails, Hello, Disconnect, Unregister
<1>7. ASSUME NEW s \in States,
             \/ Replay(s) \/ Ready(s) \/ HydrateFails(s) \/ BeginCommit(s) \/ TimerFires(s)
             \/ TryEvict(s) \/ Teardown(s)
      PROVE  UNCHANGED <<git, wal, acked, ops>>
  BY <1>7 DEF Replay, Ready, HydrateFails, BeginCommit, TimerFires, TryEvict, Teardown
<1>8. CASE Reload \/ Create \/ Crash \/ UNCHANGED vars
  BY <1>1, <1>8 DEF Reload, Detach, Create, Crash, vars
<1> QED
  BY <1>1, <1>2, <1>3, <1>4, <1>5, <1>6, <1>7, <1>8 DEF Next, HubStep

\* A VaultState that leaves the table has nothing left to do.
LEMMA IdleStep ==
  ASSUME NoRisk, TypeOK, OthersIdle, CurrentAtWork, [Next]_vars
  PROVE  \A t \in States \ {inMap'} :
           /\ states'[t].phase \in {"closed", "ready"}
           /\ states'[t].job = "none" /\ states'[t].stage = 0
<1> USE LifecycleAssumption DEF TypeOK
<1> SUFFICES ASSUME NEW t \in States, t # inMap'
             PROVE  /\ states'[t].phase \in {"closed", "ready"}
                    /\ states'[t].job = "none" /\ states'[t].stage = 0
  OBVIOUS
<1> DEFINE Idle(r) == r.phase \in {"closed", "ready"} /\ r.job = "none" /\ r.stage = 0
<1>1. t # inMap => Idle(states[t])
  BY DEF OthersIdle
<1>2. CASE inMap' = inMap /\ (Idle(states[t]) => Idle(states'[t]))
  BY <1>1, <1>2
<1>3. ASSUME NEW c \in Conns,
             Lookup(c) \/ AuthFails(c) \/ Hello(c) \/ Disconnect(c)
      PROVE  UNCHANGED <<inMap, states>>
  BY <1>3 DEF Lookup, AuthFails, Hello, Disconnect
<1>4. ASSUME NEW c \in Conns, Install(c) PROVE Idle(states'[t])
  <2>1. CASE inMap # None
    BY <1>1, <1>4, <2>1 DEF Install
  <2>2. CASE inMap = None
    <3>1. PICK s \in States : inMap' = s /\ states' = [states EXCEPT ![s] = NewState]
      BY <1>4, <2>2, FreeType DEF Install
    <3>2. t # s /\ t # inMap
      BY <2>2, <3>1 DEF States
    <3> QED
      BY <1>1, <3>1, <3>2
  <2> QED
    BY <2>1, <2>2
<1>5. ASSUME NEW c \in Conns, Register(c) \/ Unregister(c) PROVE Idle(states'[t])
  <2>1. inMap' = inMap
    BY <1>5 DEF Register, Unregister
  <2>2. states'[t].phase = states[t].phase /\ states'[t].job = states[t].job
        /\ states'[t].stage = states[t].stage
    BY <1>5 DEF Register, Unregister, StateType
  <2> QED
    BY <1>1, <2>1, <2>2
<1>6. ASSUME NEW c \in Conns, Push(c) PROVE Idle(states'[t])
  BY <1>1, <1>6 DEF Push
<1>7. ASSUME NEW s \in States, Replay(s) \/ Ready(s) \/ BeginCommit(s) \/ GitCommit(s)
      PROVE  Idle(states'[t])
  <2>1. inMap = s /\ inMap' = inMap
    BY <1>7, Current DEF Replay, Ready, BeginCommit, GitCommit, NoRisk
  <2> QED
    BY <1>1, <1>7, <2>1 DEF Replay, Ready, BeginCommit, GitCommit
<1>8. ASSUME NEW s \in States, HydrateFails(s) \/ Teardown(s) PROVE Idle(states'[t])
  BY <1>1, <1>8, Current DEF HydrateFails, Teardown, Closed, NewState
<1>9. ASSUME NEW s \in States, Truncate(s) PROVE Idle(states'[t])
  <2>1. inMap = s /\ inMap' = inMap
    BY <1>9, Current DEF Truncate
  <2>2. Idle(states[t])
    BY <1>1, <2>1
  <2> QED
    BY <1>9, <2>1, <2>2 DEF Truncate, StateType
<1>10. ASSUME NEW s \in States, TimerFires(s) PROVE Idle(states'[t])
  BY <1>1, <1>10 DEF TimerFires, StateType
<1>11. ASSUME NEW s \in States, TryEvict(s) PROVE Idle(states'[t])
  <2>1. CASE inMap # s \/ states[s].clients # {}
    BY <1>1, <1>11, <2>1 DEF TryEvict, StateType
  <2>2. CASE inMap = s /\ states[s].clients = {}
    <3>1. /\ states' = [states EXCEPT ![s].shutdown = TRUE]
          /\ states[s].job = "none" /\ states[s].stage = 0 /\ inMap # None
      BY <1>11, <2>2 DEF TryEvict, Quiet, NoRisk, States
    <3>2. states[s].phase \in {"closed", "ready"}
      BY <1>11 DEF TryEvict, OthersIdle
    <3> QED
      BY <1>1, <2>2, <3>1, <3>2 DEF StateType
  <2> QED
    BY <2>1, <2>2
<1>12. CASE Reload \/ Reset \/ Destroy
  <2>1. states' = states /\ (inMap # None => Serving(inMap) /\ states[inMap].stage = 0)
    BY <1>12 DEF Reload, Reset, Destroy, Detach, AtRest, NoRisk
  <2>2. CASE t = inMap
    BY <2>1, <2>2 DEF Serving, States
  <2> QED
    BY <1>1, <2>1, <2>2
<1>13. CASE Create \/ Crash \/ UNCHANGED vars
  BY <1>1, <1>13 DEF Create, Crash, vars, Closed, NewState
<1> QED
  BY <1>2, <1>3, <1>4, <1>5, <1>6, <1>7, <1>8, <1>9, <1>10, <1>11, <1>12, <1>13
  DEF Next, HubStep

\* Nor has one whose idle timer has fired.
LEMMA EvictStep ==
  ASSUME TypeOK, OthersIdle, [Next]_vars
  PROVE  \A t \in evictCh' : states'[t].phase \in {"closed", "ready"}
<1> USE LifecycleAssumption DEF TypeOK
<1> SUFFICES ASSUME NEW t \in evictCh' PROVE states'[t].phase \in {"closed", "ready"}
  OBVIOUS
<1>1. t \in evictCh => t \in States /\ states[t].phase \in {"closed", "ready"}
  BY DEF OthersIdle
<1>2. ASSUME NEW c \in Conns, Lookup(c) \/ AuthFails(c) \/ Hello(c) \/ Disconnect(c)
      PROVE  UNCHANGED <<evictCh, states>>
  BY <1>2 DEF Lookup, AuthFails, Hello, Disconnect
<1>3. ASSUME NEW c \in Conns, Install(c) PROVE states'[t].phase \in {"closed", "ready"}
  <2>1. CASE inMap # None
    BY <1>1, <1>3, <2>1 DEF Install
  <2>2. CASE inMap = None
    <3>1. PICK s \in Free : states' = [states EXCEPT ![s] = NewState]
      BY <1>3, <2>2, FreeType DEF Install
    <3>2. s \notin evictCh /\ evictCh' = evictCh
      BY <1>3 DEF Free, Install
    <3> QED
      BY <1>1, <3>1, <3>2
  <2> QED
    BY <2>1, <2>2
<1>4. ASSUME NEW c \in Conns, Register(c) \/ Unregister(c) \/ Push(c)
      PROVE  states'[t].phase \in {"closed", "ready"}
  <2>1. evictCh' = evictCh
    BY <1>4 DEF Register, Unregister, Push
  <2>2. states'[t].phase = states[t].phase
    BY <1>1, <1>4, <2>1 DEF Register, Unregister, Push, StateType
  <2> QED
    BY <1>1, <2>1, <2>2
<1>5. ASSUME NEW s \in States, Replay(s) \/ Ready(s) \/ BeginCommit(s) \/ GitCommit(s)
      PROVE  states'[t].phase \in {"closed", "ready"}
  <2>1. t \in States /\ states[t].phase \in {"closed", "ready"}
    BY <1>1, <1>5 DEF Replay, Ready, BeginCommit, GitCommit
  <2>2. states'[t].phase = states[t].phase \/ states'[t].phase = "ready"
    <3>1. CASE s = t
      BY <1>5, <2>1, <3>1 DEF Replay, Ready, BeginCommit, GitCommit, StateType
    <3>2. CASE s # t
      BY <1>5, <2>1, <3>2 DEF Replay, Ready, BeginCommit, GitCommit
    <3> QED
      BY <3>1, <3>2
  <2> QED
    BY <2>1, <2>2
<1>6. ASSUME NEW s \in States, HydrateFails(s) \/ Teardown(s)
      PROVE  states'[t].phase \in {"closed", "ready"}
  BY <1>1, <1>6 DEF HydrateFails, Teardown, Closed, NewState
<1>7. ASSUME NEW s \in States, Truncate(s) PROVE states'[t].phase \in {"closed", "ready"}
  <2>1. evictCh' = evictCh
    BY <1>7 DEF Truncate
  <2>2. states'[t].phase = states[t].phase
    BY <1>1, <1>7, <2>1 DEF Truncate, StateType
  <2> QED
    BY <1>1, <2>1, <2>2
<1>8. ASSUME NEW s \in States, TimerFires(s) PROVE states'[t].phase \in {"closed", "ready"}
  <2>1. t \in States /\ states[t].phase \in {"closed", "ready"}
    BY <1>1, <1>8 DEF TimerFires
  <2> QED
    BY <1>8, <2>1 DEF TimerFires, StateType
<1>9. ASSUME NEW s \in States, TryEvict(s) PROVE states'[t].phase \in {"closed", "ready"}
  <2>1. t \in States /\ states[t].phase \in {"closed", "ready"}
    BY <1>1, <1>9 DEF TryEvict
  <2> QED
    BY <1>9, <2>1 DEF TryEvict, StateType
<1>10. CASE Reload \/ Reset \/ Destroy \/ Create \/ Crash \/ UNCHANGED vars
  BY <1>1, <1>10 DEF Reload, Reset, Destroy, Detach, Create, Crash, vars
<1> QED
  BY <1>1, <1>2, <1>3, <1>4, <1>5, <1>6, <1>7, <1>8, <1>9, <1>10 DEF Next, HubStep

LEMMA OthersStep ==
  ASSUME NoRisk, TypeOK, OthersIdle, CurrentAtWork, [Next]_vars
  PROVE  OthersIdle'
BY IdleStep, EvictStep DEF OthersIdle
-----------------------------------------------------------------------------
\* What CurrentAtWork says of the VaultState of the table.
AtWork(v) ==
  /\ v.phase # "closed" /\ v.detached = None /\ ~v.shutdown
  /\ v.phase = "hydrating" => v.stage = 0
  /\ v.stage # 0 => v.stage = acked /\ acked \in wal
  /\ v.job # "none" => v.stage # 0
  /\ v.job = "wal" => git = v.stage

\* The VaultState of the table stages the last acked op, commits what it stages,
\* and empties the WAL of no more than it committed.
LEMMA WorkStep ==
  ASSUME NoRisk, TypeOK, OthersIdle, CurrentAtWork, WalNewest, [Next]_vars
  PROVE  CurrentAtWork'
<1> USE LifecycleAssumption DEF TypeOK
<1> SUFFICES ASSUME inMap' # None PROVE AtWork(states[inMap])'
  BY DEF CurrentAtWork, AtWork
<1>1. inMap # None => inMap \in States /\ AtWork(states[inMap]) /\ states[inMap] \in StateType
  BY DEF CurrentAtWork, AtWork
<1>2. ASSUME UNCHANGED <<inMap, states, git, wal, acked>> PROVE AtWork(states[inMap])'
  BY <1>1, <1>2 DEF AtWork
<1>3. ASSUME inMap' = inMap, UNCHANGED <<git, wal, acked>>,
             LET v == states[inMap]
                 w == states'[inMap]
             IN  w.phase = v.phase /\ w.job = v.job /\ w.stage = v.stage
                 /\ w.shutdown = v.shutdown /\ w.detached = v.detached
      PROVE  AtWork(states[inMap])'
  BY <1>1, <1>3 DEF AtWork
<1>4. ASSUME NEW c \in Conns, Lookup(c) \/ AuthFails(c) \/ Hello(c) \/ Disconnect(c)
      PROVE  UNCHANGED <<inMap, states, git, wal, acked>>
  BY <1>4 DEF Lookup, AuthFails, Hello, Disconnect
<1>5. ASSUME NEW c \in Conns, Install(c) PROVE AtWork(states[inMap])'
  <2>1. CASE inMap # None
    BY <1>2, <1>5, <2>1 DEF Install
  <2>2. CASE inMap = None
    <3>1. PICK s \in States : inMap' = s /\ states' = [states EXCEPT ![s] = NewState]
      BY <1>5, <2>2, FreeType DEF Install
    <3>2. states'[inMap'] = NewState
      BY <3>1
    <3> QED
      BY <3>2 DEF AtWork, NewState
  <2> QED
    BY <2>1, <2>2
<1>6. ASSUME NEW c \in Conns, Register(c) \/ Unregister(c) PROVE AtWork(states[inMap])'
  <2>1. inMap' = inMap /\ UNCHANGED <<git, wal, acked>>
    BY <1>6 DEF Register, Unregister
  <2>2. inMap \in States /\ states[inMap] \in StateType
    BY <1>1, <2>1
  <2> QED
    BY <1>3, <1>6, <2>1, <2>2 DEF Register, Unregister, StateType
<1>7. ASSUME NEW c \in Conns, Push(c) PROVE AtWork(states[inMap])'
  <2>1. /\ inMap \in States /\ inMap' = inMap /\ acked' = ops' /\ git' = git
        /\ states[inMap].phase = "ready" /\ states[inMap].job = "none"
    BY <1>7 DEF Push, Serving
  <2>2. wal' = wal \cup {ops'}
    BY <1>1, <1>7, <2>1 DEF Push, AtWork
  <2>3. LET w == states'[inMap]
        IN  /\ w.phase = "ready" /\ w.job = "none" /\ w.stage = ops'
            /\ w.detached = None /\ ~w.shutdown
    BY <1>1, <1>7, <2>1 DEF Push, AtWork, StateType
  <2> QED
    BY <2>1, <2>2, <2>3 DEF AtWork
<1>8. ASSUME NEW s \in States, Replay(s) PROVE AtWork(states[inMap])'
  <2>1. inMap = s /\ inMap' = s /\ UNCHANGED <<git, wal, acked>>
    BY <1>8, Current DEF Replay
  <2>2. LET w == states'[s]
            v == states[s]
        IN  /\ w.phase = "replaying" /\ w.stage = Newest(wal)
            /\ w.job = (IF wal = {} THEN "none" ELSE "git")
            /\ w.detached = v.detached /\ w.shutdown = v.shutdown
    BY <1>8 DEF Replay, StateType
  <2>3. wal # {} => acked \in wal /\ acked # 0
    BY DEF WalNewest
  <2> QED
    BY <1>1, <2>1, <2>2, <2>3, NewestAcked DEF AtWork
<1>9. ASSUME NEW s \in States, Ready(s) \/ BeginCommit(s) \/ GitCommit(s)
      PROVE  AtWork(states[inMap])'
  <2>1. inMap = s /\ inMap' = s /\ UNCHANGED <<wal, acked>>
    BY <1>9, Current DEF Ready, BeginCommit, GitCommit, NoRisk
  <2>2. CASE Ready(s)
    BY <1>1, <2>1, <2>2 DEF Ready, AtWork, StateType
  <2>3. CASE BeginCommit(s)
    BY <1>1, <2>1, <2>3 DEF BeginCommit, AtWork, StateType
  <2>4. CASE GitCommit(s)
    BY <1>1, <2>1, <2>4 DEF GitCommit, AtWork, StateType
  <2> QED
    BY <1>9, <2>2, <2>3, <2>4
<1>10. ASSUME NEW s \in States, HydrateFails(s) PROVE AtWork(states[inMap])'
  <2>1. inMap = s /\ inMap' = None
    BY <1>10, Current DEF HydrateFails
  <2> QED
    BY <2>1
<1>11. ASSUME NEW s \in States, Truncate(s) PROVE AtWork(states[inMap])'
  <2>1. inMap = s /\ inMap' = s
    BY <1>11, Current DEF Truncate
  <2>2. states'[s] = [states[s] EXCEPT !.job = "none", !.stage = 0, !.owner = None,
                                       !.detached = None]
    BY <1>11 DEF Truncate
  <2>3. states[s].phase # "closed" /\ ~states[s].shutdown /\ states[s] \in StateType
    BY <1>1, <2>1 DEF AtWork
  <2> QED
    BY <2>1, <2>2, <2>3 DEF AtWork, StateType
<1>12. ASSUME NEW s \in States, TimerFires(s) PROVE AtWork(states[inMap])'
  <2>1. inMap' = inMap /\ UNCHANGED <<git, wal, acked>>
    BY <1>12 DEF TimerFires
  <2> QED
    BY <1>1, <1>3, <1>12, <2>1 DEF TimerFires, StateType
<1>13. ASSUME NEW s \in States, TryEvict(s) PROVE AtWork(states[inMap])'
  <2>1. inMap' = inMap /\ UNCHANGED <<git, wal, acked>>
    BY <1>13 DEF TryEvict
  <2>2. states' = states \/ states' = [states EXCEPT ![s].timer = "none"]
    BY <1>13, <2>1 DEF TryEvict
  <2> QED
    BY <1>1, <1>3, <2>1, <2>2 DEF StateType
<1>14. ASSUME NEW s \in States, Teardown(s) PROVE AtWork(states[inMap])'
  <2>1. inMap' = inMap /\ UNCHANGED <<git, wal, acked>> /\ s # inMap
    BY <1>1, <1>14 DEF Teardown, AtWork
  <2> QED
    BY <1>1, <1>3, <1>14, <2>1 DEF Teardown
<1>15. CASE Reload \/ Reset \/ Destroy \/ Crash
  BY <1>15 DEF Reload, Reset, Destroy, Detach, Crash
<1>16. CASE Create \/ UNCHANGED vars
  BY <1>2, <1>16 DEF Create, vars
<1> QED
  BY <1>2, <1>4, <1>5, <1>6, <1>7, <1>8, <1>9, <1>10, <1>11, <1>12, <1>13, <1>14, <1>15,
     <1>16 DEF Next, HubStep
-----------------------------------------------------------------------------
\* What Held says of one connection.
HeldBy(c) ==
  /\ conns[c].pc \in {"waiting", "auth", "live"} => inMap # None /\ conns[c].vs = inMap
  /\ conns[c].pc \in {"auth", "live"} => states[inMap].phase = "ready"
  /\ conns[c].pc = "live" => c \in states[inMap].clients

\* A connection that waits, authenticates or is live holds the VaultState of the
\* table, and there it is registered: what unregisters it, fails it or takes it
\* out of the table sends every such connection away.
LEMMA HeldStep ==
  ASSUME NoRisk, TypeOK, OthersIdle, CurrentAtWork, Held, TypeOK', [Next]_vars
  PROVE  Held'
<1> USE LifecycleAssumption
<1> SUFFICES ASSUME NEW d \in Conns PROVE HeldBy(d)'
  BY DEF Held, HeldBy
<1>0. HeldBy(d) /\ conns[d] \in ConnType /\ conns'[d] \in ConnType
  BY DEF Held, HeldBy, TypeOK
<1>1. ASSUME UNCHANGED <<inMap, states>>, conns'[d] = conns[d] PROVE HeldBy(d)'
  BY <1>0, <1>1 DEF HeldBy
<1>2. ASSUME inMap' = inMap, conns'[d] = conns[d],
             inMap # None =>
               /\ states'[inMap].phase = states[inMap].phase
               /\ d \in states[inMap].clients => d \in states'[inMap].clients
      PROVE  HeldBy(d)'
  BY <1>0, <1>2 DEF HeldBy
<1>3. ASSUME conns'[d].pc \in {"off", "missing", "closed"} PROVE HeldBy(d)'
  BY <1>3 DEF HeldBy
<1>4. inMap # None => inMap \in States /\ states[inMap] \in StateType
  BY DEF TypeOK
<1>5. ASSUME NEW c \in Conns, inMap # None, Wait(c), UNCHANGED <<inMap, states>>
      PROVE  HeldBy(d)'
  <2>1. CASE c = d
    <3>1. /\ conns'[d].vs = inMap
          /\ conns'[d].pc = IF states[inMap].phase = "ready" THEN "auth" ELSE "waiting"
      BY <1>5, <2>1 DEF Wait, Gone, TypeOK
    <3> QED
      BY <1>5, <3>1 DEF HeldBy
  <2>2. CASE c # d
    BY <1>1, <1>5, <2>2 DEF Wait, TypeOK
  <2> QED
    BY <2>1, <2>2
<1>6. ASSUME NEW c \in Conns, Lookup(c) PROVE HeldBy(d)'
  <2>1. CASE inMap # None
    BY <1>5, <1>6, <2>1 DEF Lookup
  <2>2. CASE inMap = None
    BY <1>1, <1>3, <1>6, <2>2 DEF Lookup, TypeOK, ConnType
  <2> QED
    BY <2>1, <2>2
<1>7. ASSUME NEW c \in Conns, Install(c) PROVE HeldBy(d)'
  <2>1. CASE inMap # None
    BY <1>5, <1>7, <2>1 DEF Install
  <2>2. CASE inMap = None
    <3>1. PICK s \in States :
            /\ inMap' = s /\ states' = [states EXCEPT ![s] = NewState]
            /\ conns' = [conns EXCEPT ![c] = [Gone EXCEPT !.pc = "waiting", !.vs = s]]
      BY <1>7, <2>2, FreeType DEF Install
    <3>2. conns[d].pc \notin {"waiting", "auth", "live"}
      BY <1>0, <2>2 DEF HeldBy
    <3>3. CASE c = d
      BY <3>1, <3>3 DEF HeldBy, Gone, TypeOK, States
    <3>4. CASE c # d
      BY <3>1, <3>2, <3>4 DEF HeldBy, TypeOK
    <3> QED
      BY <3>3, <3>4
  <2> QED
    BY <2>1, <2>2
<1>8. ASSUME NEW c \in Conns, AuthFails(c) \/ Disconnect(c) PROVE HeldBy(d)'
  BY <1>1, <1>3, <1>8 DEF AuthFails, Disconnect, Gone, TypeOK
<1>9. ASSUME NEW c \in Conns, Hello(c) PROVE HeldBy(d)'
  BY <1>0, <1>9 DEF Hello, HeldBy, TypeOK, ConnType
<1>10. ASSUME NEW c \in Conns, Register(c) PROVE HeldBy(d)'
  <2>1. HeldBy(c) /\ inMap' = inMap
    BY <1>10 DEF Register, Held, HeldBy
  <2>2. inMap # None /\ conns[c].vs = inMap /\ states[inMap].phase = "ready"
    BY <1>10, <2>1 DEF Register, At, HeldBy
  <2>3. /\ states'[inMap].phase = "ready"
        /\ states'[inMap].clients = states[inMap].clients \cup {c}
    BY <1>4, <1>10, <2>2 DEF Register, TypeOK, StateType
  <2>4. CASE c = d
    <3>1. conns'[d].pc = "live" /\ conns'[d].vs = inMap
      BY <1>0, <1>10, <2>2, <2>4 DEF Register, TypeOK, ConnType
    <3> QED
      BY <2>1, <2>2, <2>3, <2>4, <3>1 DEF HeldBy
  <2>5. CASE c # d
    <3>1. conns'[d] = conns[d]
      BY <1>10, <2>5 DEF Register, TypeOK
    <3> QED
      BY <1>2, <2>1, <2>2, <2>3, <3>1
  <2> QED
    BY <2>4, <2>5
<1>11. ASSUME NEW c \in Conns, Push(c) PROVE HeldBy(d)'
  BY <1>2, <1>4, <1>11 DEF Push, TypeOK, StateType
<1>12. ASSUME NEW c \in Conns, Unregister(c) PROVE HeldBy(d)'
  <2>1. CASE c = d
    BY <1>3, <1>12, <2>1 DEF Unregister, Gone, TypeOK
  <2>2. CASE c # d
    <3>1. conns'[d] = conns[d] /\ inMap' = inMap
      BY <1>12, <2>2 DEF Unregister, TypeOK
    <3>2. inMap # None => /\ states'[inMap].phase = states[inMap].phase
                          /\ states'[inMap].clients = states[inMap].clients \ {c}
      BY <1>4, <1>12 DEF Unregister, TypeOK, StateType
    <3> QED
      BY <1>2, <2>2, <3>1, <3>2
  <2> QED
    BY <2>1, <2>2
<1>13. ASSUME NEW s \in States, Replay(s) PROVE HeldBy(d)'
  <2>1. inMap = s /\ inMap # None /\ inMap' = inMap /\ conns' = conns
    BY <1>13, Current DEF Replay
  <2>2. conns[d].pc \notin {"auth", "live"}
    BY <1>0, <1>13, <2>1 DEF Replay, HeldBy
  <2> QED
    BY <1>0, <2>1, <2>2 DEF HeldBy
<1>14. ASSUME NEW s \in States, Ready(s) PROVE HeldBy(d)'
  <2>1. inMap = s /\ inMap # None /\ inMap' = inMap
    BY <1>14, Current DEF Ready
  <2>2. states'[inMap].phase = "ready" /\ states'[inMap].clients = states[inMap].clients
    BY <1>4, <1>14, <2>1 DEF Ready, TypeOK, StateType
  <2>3. CASE At(d, "waiting") /\ conns[d].vs = s
    <3>1. conns'[d] = [Gone EXCEPT !.pc = "auth", !.vs = s]
      BY <1>14, <2>3 DEF Ready, Released
    <3>2. conns'[d].pc = "auth" /\ conns'[d].vs = s
      BY <3>1 DEF Gone
    <3> QED
      BY <2>1, <2>2, <3>2 DEF HeldBy
  <2>4. CASE ~(At(d, "waiting") /\ conns[d].vs = s)
    <3>1. conns'[d] = conns[d]
      BY <1>14, <2>4 DEF Ready, Released
    <3> QED
      BY <1>0, <2>1, <2>2, <3>1 DEF HeldBy
  <2> QED
    BY <2>3, <2>4
<1>15. ASSUME NEW s \in States, HydrateFails(s) PROVE HeldBy(d)'
  <2>1. inMap = s /\ inMap # None
    BY <1>15, Current DEF HydrateFails
  <2>2. conns[d].pc \notin {"auth", "live"}
    BY <1>0, <1>15, <2>1 DEF HydrateFails, HeldBy
  <2>3. CASE At(d, "waiting")
    <3>1. conns'[d] = [Gone EXCEPT !.pc = "off", !.vs = None]
      BY <1>0, <1>15, <2>1, <2>3 DEF HydrateFails, Released, HeldBy, At
    <3>2. conns'[d].pc = "off"
      BY <3>1 DEF Gone
    <3> QED
      BY <1>3, <3>2
  <2>4. CASE ~At(d, "waiting")
    <3>1. conns'[d] = conns[d]
      BY <1>15, <2>4 DEF HydrateFails, Released
    <3> QED
      BY <1>0, <1>3, <2>2, <2>4, <3>1 DEF At, ConnType
  <2> QED
    BY <2>3, <2>4
<1>16. ASSUME NEW s \in States, BeginCommit(s) \/ GitCommit(s) \/ TimerFires(s)
      PROVE  HeldBy(d)'
  BY <1>2, <1>4, <1>16 DEF BeginCommit, GitCommit, TimerFires, TypeOK, StateType
<1>17. ASSUME NEW s \in States, Truncate(s) PROVE HeldBy(d)'
  <2>1. inMap = s /\ inMap # None /\ inMap' = inMap
    BY <1>17, Current DEF Truncate
  <2>2. /\ states'[inMap].phase = states[inMap].phase
        /\ states'[inMap].clients = states[inMap].clients
    BY <1>4, <1>17, <2>1 DEF Truncate, StateType
  <2>3. conns'[d] \in {[Gone EXCEPT !.pc = "closed"], [conns[d] EXCEPT !.head = git], conns[d]}
    BY <1>17 DEF Truncate
  <2>4. \/ conns'[d].pc = "closed"
        \/ conns'[d].pc = conns[d].pc /\ conns'[d].vs = conns[d].vs
    BY <1>0, <2>3 DEF Gone, ConnType
  <2> QED
    BY <1>0, <2>1, <2>2, <2>4 DEF HeldBy
<1>18. ASSUME NEW s \in States, TryEvict(s) PROVE HeldBy(d)'
  <2>1. CASE inMap' = inMap
    <3>1. conns'[d] = conns[d]
      BY <1>18 DEF TryEvict
    <3>2. states' = states \/ states' = [states EXCEPT ![s].timer = "none"]
                           \/ states' = [states EXCEPT ![s].shutdown = TRUE]
      BY <1>18 DEF TryEvict
    <3> QED
      BY <1>2, <1>4, <2>1, <3>1, <3>2 DEF TypeOK, StateType
  <2>2. CASE inMap' # inMap
    <3>1. /\ inMap = s /\ inMap' = None /\ states[s].clients = {} /\ conns' = conns
          /\ \A c \in Holding(s) : At(c, "live")
      BY <1>18, <2>2 DEF TryEvict, Quiet, NoRisk
    <3>2. conns[d].pc # "live"
      BY <1>0, <3>1 DEF HeldBy
    <3>3. conns[d].vs # s
      BY <3>1, <3>2 DEF Holding, At
    <3> QED
      BY <1>0, <1>3, <3>1, <3>3 DEF HeldBy, ConnType
  <2> QED
    BY <2>1, <2>2
<1>19. ASSUME NEW s \in States, Teardown(s) PROVE HeldBy(d)'
  <2>1. s # inMap \/ inMap = None
    BY <1>19 DEF Teardown, CurrentAtWork
  <2> QED
    BY <1>2, <1>4, <1>19, <2>1 DEF Teardown, TypeOK
<1>20. CASE Reload \/ Reset \/ Destroy
  <2>1. /\ ~At(d, "auth") /\ ~At(d, "waiting")
        /\ conns'[d] = IF inMap # None /\ At(d, "live") /\ d \in states[inMap].clients
                       THEN [Gone EXCEPT !.pc = "closed"] ELSE conns[d]
    BY <1>20 DEF Reload, Reset, Destroy, Detach, AtRest, NoRisk
  <2>2. CASE At(d, "live")
    BY <1>0, <1>3, <2>1, <2>2 DEF HeldBy, At, Gone
  <2>3. CASE ~At(d, "live")
    BY <1>0, <1>3, <2>1, <2>3 DEF At, ConnType
  <2> QED
    BY <2>2, <2>3
<1>21. CASE Create \/ UNCHANGED vars
  BY <1>1, <1>21 DEF Create, vars
<1>22. CASE Crash
  BY <1>3, <1>22 DEF Crash, Gone
<1> QED
  BY <1>6, <1>7, <1>8, <1>9, <1>10, <1>11, <1>12, <1>13, <1>14, <1>15, <1>16, <1>17, <1>18,
     <1>19, <1>20, <1>21, <1>22 DEF Next, HubStep
-----------------------------------------------------------------------------
\* A commit ends by telling every live client: all of them are registered in the
\* VaultState that commits.  What sets HEAD back finds no client live.
LEMMA HeadStep ==
  ASSUME NoRisk, TypeOK, OthersIdle, CurrentAtWork, Held, ClientsHaveHead, TypeOK', [Next]_vars
  PROVE  ClientsHaveHead'
<1> USE LifecycleAssumption
<1> SUFFICES ASSUME NEW d \in Conns, At(d, "live")', \A s \in States : states'[s].job # "wal"
             PROVE  conns'[d].head \in {None, git'}
  BY DEF ClientsHaveHead, Live
<1>0. conns[d] \in ConnType /\ conns'[d] \in ConnType /\ HeldBy(d)
  BY DEF TypeOK, Held, HeldBy
<1>1. ASSUME git' = git, conns'[d] = conns[d],
             \A s \in States : states'[s].job = states[s].job
      PROVE  conns'[d].head \in {None, git'}
  <2>1. At(d, "live") /\ \A s \in States : states[s].job # "wal"
    BY <1>1 DEF At
  <2> QED
    BY <1>1, <2>1 DEF ClientsHaveHead, Live
<1>w. ASSUME NEW c \in Conns, Wait(c) PROVE c # d
  <2>1. PICK pc \in {"waiting", "auth"} :
          conns' = [conns EXCEPT ![c] = [Gone EXCEPT !.vs = inMap, !.pc = pc]]
    BY <1>w DEF Wait
  <2>2. [Gone EXCEPT !.vs = inMap, !.pc = pc].pc = pc
    BY DEF Gone
  <2> QED
    BY <2>1, <2>2 DEF At, TypeOK
<1>2. ASSUME NEW c \in Conns, Lookup(c) \/ AuthFails(c) \/ Disconnect(c)
      PROVE  conns'[d].head \in {None, git'}
  <2>1. CASE Lookup(c)
    <3>1. c # d
      <4>1. CASE inMap # None
        BY <1>w, <2>1, <4>1 DEF Lookup
      <4>2. CASE inMap = None
        BY <1>0, <2>1, <4>2 DEF Lookup, At, TypeOK, ConnType
      <4> QED
        BY <4>1, <4>2
    <3> QED
      BY <1>1, <2>1, <3>1 DEF Lookup, Wait, TypeOK
  <2>2. CASE AuthFails(c) \/ Disconnect(c)
    <3>1. c # d
      BY <2>2 DEF AuthFails, Disconnect, Gone, At, TypeOK
    <3> QED
      BY <1>1, <2>2, <3>1 DEF AuthFails, Disconnect, TypeOK
  <2> QED
    BY <1>2, <2>1, <2>2
<1>3. ASSUME NEW c \in Conns, Install(c) PROVE conns'[d].head \in {None, git'}
  <2>1. c # d
    <3>1. CASE inMap # None
      BY <1>w, <1>3, <3>1 DEF Install
    <3>2. CASE inMap = None
      <4>1. PICK s \in States :
              conns' = [conns EXCEPT ![c] = [Gone EXCEPT !.pc = "waiting", !.vs = s]]
        BY <1>3, <3>2, FreeType DEF Install
      <4>2. [Gone EXCEPT !.pc = "waiting", !.vs = s].pc = "waiting"
        BY DEF Gone
      <4> QED
        BY <4>1, <4>2 DEF At, TypeOK
    <3> QED
      BY <3>1, <3>2
  <2>2. conns'[d] = conns[d]
    BY <1>3, <2>1 DEF Install, Wait, TypeOK
  <2>3. inMap # None
    BY <1>0, <2>2 DEF HeldBy, At
  <2> QED
    BY <1>1, <1>3, <2>2, <2>3 DEF Install
<1>4. ASSUME NEW c \in Conns, Hello(c) PROVE conns'[d].head \in {None, git'}
  <2>1. CASE c = d
    BY <1>4, <2>1 DEF Hello, TypeOK, ConnType
  <2>2. CASE c # d
    BY <1>1, <1>4, <2>2 DEF Hello, TypeOK
  <2> QED
    BY <2>1, <2>2
<1>5. ASSUME NEW c \in Conns, Register(c) PROVE conns'[d].head \in {None, git'}
  <2>1. CASE c = d
    BY <1>5, <2>1 DEF Register, TypeOK, ConnType
  <2>2. CASE c # d
    <3>1. conns'[d] = conns[d] /\ git' = git
      BY <1>5, <2>2 DEF Register, TypeOK
    <3>2. conns[c].vs = inMap /\ inMap \in States
      BY <1>5 DEF Register, At, Held, TypeOK
    <3>3. \A s \in States : states'[s].job = states[s].job
      BY <1>5, <3>2 DEF Register, TypeOK, StateType
    <3> QED
      BY <1>1, <3>1, <3>3
  <2> QED
    BY <2>1, <2>2
<1>6. ASSUME NEW c \in Conns, Unregister(c) PROVE conns'[d].head \in {None, git'}
  <2>1. c # d
    BY <1>6 DEF Unregister, Gone, At, TypeOK
  <2>2. conns'[d] = conns[d] /\ git' = git
    BY <1>6, <2>1 DEF Unregister, TypeOK
  <2>3. \A s \in States : states'[s].job = states[s].job
    BY <1>6 DEF Unregister, TypeOK, StateType
  <2> QED
    BY <1>1, <2>2, <2>3
<1>7. ASSUME NEW c \in Conns, Push(c) PROVE conns'[d].head \in {None, git'}
  <2>1. \A s \in States : states'[s].job = states[s].job
    BY <1>7 DEF Push, TypeOK, StateType
  <2> QED
    BY <1>1, <1>7, <2>1 DEF Push
<1>8. ASSUME NEW s \in States, Replay(s) \/ HydrateFails(s)
      PROVE  conns'[d].head \in {None, git'}
  <2>1. inMap = s /\ inMap # None
    BY <1>8, Current DEF Replay, HydrateFails
  <2>2. ~At(d, "live")
    BY <1>0, <1>8, <2>1 DEF Replay, HydrateFails, HeldBy, At
  <2>3. conns'[d] = conns[d] \/ conns'[d].pc = "off"
    BY <1>8 DEF Replay, HydrateFails, Released, Gone
  <2> QED
    BY <2>2, <2>3 DEF At
<1>9. ASSUME NEW s \in States, Ready(s) PROVE conns'[d].head \in {None, git'}
  <2>1. conns'[d] = conns[d]
    BY <1>9 DEF Ready, Released, Gone, At
  <2>2. \A t \in States : states'[t].job = states[t].job
    BY <1>9 DEF Ready, TypeOK, StateType
  <2> QED
    BY <1>1, <1>9, <2>1, <2>2 DEF Ready
<1>10. ASSUME NEW s \in States, BeginCommit(s) PROVE conns'[d].head \in {None, git'}
  <2>1. inMap = s /\ inMap # None
    BY <1>10, Current DEF BeginCommit
  <2>2. \A t \in States : states[t].job # "wal"
    BY <1>10, <2>1 DEF BeginCommit, OthersIdle
  <2>3. conns' = conns /\ git' = git
    BY <1>10 DEF BeginCommit
  <2> QED
    BY <2>2, <2>3 DEF ClientsHaveHead, Live, At
<1>11. ASSUME NEW s \in States, GitCommit(s) PROVE conns'[d].head \in {None, git'}
  <2>1. states'[s].job = "wal"
    BY <1>11 DEF GitCommit, TypeOK, StateType
  <2> QED
    BY <2>1
<1>12. ASSUME NEW s \in States, Truncate(s) PROVE conns'[d].head \in {None, git'}
  <2>1. inMap = s /\ git' = git
    BY <1>12, Current DEF Truncate
  <2>2. PICK slow \in SUBSET Told(s) :
          conns' = [c \in Conns |->
                      CASE c \in slow -> [Gone EXCEPT !.pc = "closed"]
                        [] c \in Told(s) \ slow /\ conns[c].head # None
                             -> [conns[c] EXCEPT !.head = git]
                        [] OTHER -> conns[c]]
    BY <1>12 DEF Truncate
  <2>3. d \notin slow
    BY <2>2 DEF Gone, At
  <2>4. At(d, "live")
    BY <1>0, <2>2, <2>3 DEF At, ConnType
  <2>5. d \in Told(s)
    BY <1>0, <2>1, <2>4 DEF Told, HeldBy, At
  <2>6. CASE conns[d].head = None
    BY <2>2, <2>3, <2>6
  <2>7. CASE conns[d].head # None
    <3>1. conns'[d] = [conns[d] EXCEPT !.head = git]
      BY <2>2, <2>3, <2>5, <2>7
    <3> QED
      BY <1>0, <2>1, <3>1 DEF ConnType
  <2> QED
    BY <2>6, <2>7
<1>13. ASSUME NEW s \in States, TimerFires(s) \/ TryEvict(s)
       PROVE  conns'[d].head \in {None, git'}
  <2>1. conns' = conns /\ git' = git
    BY <1>13 DEF TimerFires, TryEvict
  <2>2. \A t \in States : states'[t].job = states[t].job
    BY <1>13 DEF TimerFires, TryEvict, TypeOK, StateType
  <2> QED
    BY <1>1, <2>1, <2>2
<1>14. ASSUME NEW s \in States, Teardown(s) PROVE conns'[d].head \in {None, git'}
  <2>1. \A t \in States : states'[t].job = states[t].job
    BY <1>14 DEF Teardown, Closed, NewState, TypeOK
  <2> QED
    BY <1>1, <1>14, <2>1 DEF Teardown
<1>15. CASE Reload \/ Reset \/ Destroy
  <2>1. conns'[d] = IF inMap # None /\ At(d, "live") /\ d \in states[inMap].clients
                    THEN [Gone EXCEPT !.pc = "closed"] ELSE conns[d]
    BY <1>15 DEF Reload, Reset, Destroy, Detach
  <2>2. ~At(d, "live")'
    BY <1>0, <2>1 DEF HeldBy, At, Gone
  <2> QED
    BY <2>2
<1>16. CASE Crash
  BY <1>16 DEF Crash, Gone, At
<1>17. CASE Create \/ UNCHANGED vars
  BY <1>1, <1>17 DEF Create, vars
<1> QED
  BY <1>2, <1>3, <1>4, <1>5, <1>6, <1>7, <1>8, <1>9, <1>10, <1>11, <1>12, <1>13, <1>14,
     <1>15, <1>16, <1>17 DEF Next, HubStep

LEMMA LifeInit == Init => LifeInv
<1> SUFFICES ASSUME Init PROVE LifeInv
  OBVIOUS
<1>1. TypeOK
  BY ConnFields, StateFields DEF Init, TypeOK
<1>2. OthersIdle /\ CurrentAtWork /\ WalNewest
  BY DEF Init, OthersIdle, CurrentAtWork, WalNewest, Closed, NewState
<1>3. Held /\ ClientsHaveHead
  BY DEF Init, Held, ClientsHaveHead, Live, At, Gone
<1> QED
  BY <1>1, <1>2, <1>3 DEF LifeInv

LEMMA LifeStep == NoRisk /\ LifeInv /\ [Next]_vars => LifeInv'
<1> SUFFICES ASSUME NoRisk, LifeInv, [Next]_vars PROVE LifeInv'
  OBVIOUS
<1> USE DEF LifeInv
<1>1. TypeOK'
  BY TypeStep
<1>2. OthersIdle' /\ CurrentAtWork' /\ WalNewest'
  BY OthersStep, WorkStep, WalStep
<1>3. Held' /\ ClientsHaveHead'
  BY <1>1, HeldStep, HeadStep
<1> QED
  BY <1>1, <1>2, <1>3

\* The invariant of the table of vaults.
THEOREM TableInvariant == ASSUME NoRisk PROVE Spec => []LifeInv
<1>1. LifeInv /\ [Next]_vars => LifeInv'
  BY LifeStep
<1> QED
  BY <1>1, LifeInit, PTL DEF Spec

\* The last op that was acked is in HEAD or in the WAL file of the directory,
\* through evictions, hydrations that fail, crashes and admin operations at rest.
THEOREM LastAckKept == ASSUME NoRisk PROVE Spec => []AckedKept
<1>1. LifeInv => AckedKept
  BY DEF LifeInv, WalNewest, AckedKept
<1> QED
  BY <1>1, TableInvariant, PTL

\* Between commits every client that has said hello has HEAD: a client of a
\* VaultState that left the table was sent away with it.
THEOREM EveryClientHasHead == ASSUME NoRisk PROVE Spec => []ClientsHaveHead
<1>1. LifeInv => ClientsHaveHead
  BY DEF LifeInv
<1> QED
  BY <1>1, TableInvariant, PTL
=============================================================================
