--------------------------- MODULE VaultLifecycle ---------------------------
(***************************************************************************)
(* The hub's table of vaults, for one vault: GetOrHydrate and its          *)
(* placeholder, the connections that wait for it, register and pump, idle  *)
(* eviction, and the admin's reload, reset, destroy and create.            *)
(*                                                                         *)
(* What the hub has in memory for a vault is a VaultState; several of them *)
(* may be at work on one directory and one WAL.  The ops are writes to one *)
(* file, numbered as they are acked; HubVault has what happens inside one  *)
(* VaultState.                                                             *)
(***************************************************************************)
EXTENDS Integers, FiniteSets

CONSTANTS
  Conns,      \* connections, each of its own client
  MaxStates,  \* bound: VaultStates at a time
  MaxOps,     \* bound: ops pushed
  MaxFaults,  \* bound: crashes, failed hydrations, admin operations
  None,
  Risks       \* the known races that are let loose

ASSUME LifecycleAssumption ==
  /\ MaxStates \in Nat \ {0} /\ MaxOps \in Nat /\ MaxFaults \in Nat
  /\ Risks \subseteq {"auth", "late", "admin"}
  /\ None \notin 1 .. MaxStates

VARIABLES
  registered,   \* the registry has the vault
  inMap,        \* h.vaults[vaultID]
  states,       \* the VaultStates
  conns,        \* where each connection is, its VaultState, the head it was told
  evictCh,      \* the VaultStates whose idle timer has fired
  git,          \* the op that HEAD has
  wal,          \* the entries of the WAL file that the directory has
  acked,        \* the last op that was acked, and not wiped since
  ops, faults   \* counters of the bounds
vars == <<registered, inMap, states, conns, evictCh, git, wal, acked, ops, faults>>

States == 1 .. MaxStates

\* phase: what GetOrHydrate has made of it.  job: where its commit is.
\* stage: the acked op that is not committed, 0 for none, and its client.
\* detached: what its WAL handle has, once another VaultState has put a new file
\* in the place of the one it opened.  timer: idleTimer, set also when it fired.
NewState ==
  [phase |-> "hydrating", clients |-> {}, stage |-> 0, owner |-> None, job |-> "none",
   detached |-> None, timer |-> "none", shutdown |-> FALSE]

Closed == [NewState EXCEPT !.phase = "closed"]

Gone == [pc |-> "off", vs |-> None, head |-> 0]

Init ==
  /\ registered = TRUE /\ inMap = None /\ evictCh = {}
  /\ states = [s \in States |-> Closed]
  /\ conns = [c \in Conns |-> Gone]
  /\ git = 0 /\ acked = 0 /\ ops = 0 /\ faults = 0
  /\ wal = {}

At(c, pc) == conns[c].pc = pc
Live == {c \in Conns : At(c, "live")}
Holding(s) == {c \in Conns : conns[c].vs = s}

\* Nobody refers to s any more and it has nothing left to do: the name may be
\* used for a new VaultState.
Free ==
  {s \in States : /\ s # inMap /\ Holding(s) = {} /\ s \notin evictCh
                  /\ states[s].timer # "armed" /\ states[s].job = "none"
                  /\ (states[s].phase = "closed" \/ states[s].stage = 0)}
-----------------------------------------------------------------------------
(***************************************************************************)
(* GetOrHydrate                                                            *)
(***************************************************************************)
\* Waits on ready, or has the VaultState at once.
Wait(c) ==
  conns' = [conns EXCEPT ![c] = [Gone EXCEPT !.vs = inMap,
              !.pc = IF states[inMap].phase = "ready" THEN "auth" ELSE "waiting"]]

\* The fast path, under the read lock.
Lookup(c) ==
  /\ At(c, "off") /\ registered
  /\ IF inMap # None THEN Wait(c)
     ELSE conns' = [conns EXCEPT ![c].pc = "missing"]
  /\ UNCHANGED <<registered, inMap, states, evictCh, git, wal, acked, ops, faults>>

\* Faulty: under the write lock the table is not looked at again.
InstallBlindly(c) ==
  /\ At(c, "missing") /\ Free # {}
  /\ LET s == CHOOSE s \in Free : TRUE IN
       /\ inMap' = s
       /\ states' = [states EXCEPT ![s] = NewState]
       /\ conns' = [conns EXCEPT ![c] = [Gone EXCEPT !.pc = "waiting", !.vs = s]]
  /\ UNCHANGED <<registered, evictCh, git, wal, acked, ops, faults>>

\* The slow path, under the write lock: someone else may have been quicker.
Install(c) ==
  /\ At(c, "missing") /\ (inMap # None \/ Free # {})
  /\ IF inMap # None THEN Wait(c) /\ UNCHANGED <<inMap, states>>
     ELSE LET s == CHOOSE s \in Free : TRUE IN
            /\ inMap' = s
            /\ states' = [states EXCEPT ![s] = NewState]
            /\ conns' = [conns EXCEPT ![c] = [Gone EXCEPT !.pc = "waiting", !.vs = s]]
  /\ UNCHANGED <<registered, evictCh, git, wal, acked, ops, faults>>

Newest(entries) == CHOOSE n \in entries \cup {0} : \A m \in entries : m <= n

\* hydrate opens git and the WAL and rebuilds the stage from its entries.
Replay(s) ==
  /\ states[s].phase = "hydrating"
  /\ states' = [states EXCEPT ![s].phase = "replaying", ![s].stage = Newest(wal),
                              ![s].job = IF wal = {} THEN "none" ELSE "git"]
  /\ UNCHANGED <<registered, inMap, conns, evictCh, git, wal, acked, ops, faults>>

\* Whoever waited reads hydrateErr.
Released(s, pc) ==
  [c \in Conns |-> IF At(c, "waiting") /\ conns[c].vs = s
                   THEN [Gone EXCEPT !.pc = pc, !.vs = IF pc = "off" THEN None ELSE s]
                   ELSE conns[c]]

\* The replayed stage is committed: the runner starts and ready is closed.
Ready(s) ==
  /\ states[s].phase = "replaying" /\ states[s].job = "none"
  /\ states' = [states EXCEPT ![s].phase = "ready"]
  /\ conns' = Released(s, "auth")
  /\ UNCHANGED <<registered, inMap, evictCh, git, wal, acked, ops, faults>>

\* Any step of hydrate may return an error; the placeholder leaves the table.
HydrateFails(s) ==
  /\ states[s].phase \in {"hydrating", "replaying"} /\ faults < MaxFaults
  /\ states' = [states EXCEPT ![s] = Closed]
  /\ conns' = Released(s, "off")
  /\ inMap' = IF inMap = s THEN None ELSE inMap
  /\ faults' = faults + 1
  /\ UNCHANGED <<registered, evictCh, git, wal, acked, ops>>
-----------------------------------------------------------------------------
(***************************************************************************)
(* ServeWS, readPump, the unregister branch of Run                         *)
(***************************************************************************)
\* Faulty: the idle timer is stopped, and idleTimer not cleared.
RegisterKeepsTimer(c) ==
  /\ At(c, "auth")
  /\ LET s == conns[c].vs IN
       /\ states' = [states EXCEPT ![s].clients = @ \cup {c},
                                  ![s].timer = IF @ = "none" THEN "none" ELSE "fired"]
       /\ conns' = [conns EXCEPT ![c].pc = "live", ![c].head = None]
  /\ UNCHANGED <<registered, inMap, evictCh, git, wal, acked, ops, faults>>

\* ServeWS registers in the VaultState it got, which stops its idle timer;
\* then the client says hello.
Register(c) ==
  /\ At(c, "auth")
  /\ LET s == conns[c].vs IN
       /\ states' = [states EXCEPT ![s].clients = @ \cup {c}, ![s].timer = "none"]
       /\ conns' = [conns EXCEPT ![c].pc = "live", ![c].head = None]
  /\ UNCHANGED <<registered, inMap, evictCh, git, wal, acked, ops, faults>>

\* No auth message within five seconds, or a wrong key.
AuthFails(c) ==
  /\ At(c, "auth")
  /\ conns' = [conns EXCEPT ![c] = Gone]
  /\ UNCHANGED <<registered, inMap, states, evictCh, git, wal, acked, ops, faults>>

\* A handler runs under fileMu on what the table has when the message comes,
\* whatever ServeWS had.
Serving(s) == s # None /\ states[s].phase = "ready" /\ states[s].job = "none"

Hello(c) ==
  /\ At(c, "live") /\ conns[c].head = None /\ Serving(inMap)
  /\ conns' = [conns EXCEPT ![c].head = git]
  /\ UNCHANGED <<registered, inMap, states, evictCh, git, wal, acked, ops, faults>>

\* One stage holds the file; the op is appended to the WAL and acked.
Push(c) ==
  /\ At(c, "live") /\ conns[c].head # None /\ Serving(inMap) /\ ops < MaxOps
  /\ (states[inMap].stage = 0 \/ states[inMap].owner = c)
  /\ ops' = ops + 1 /\ acked' = ops'
  /\ states' = [states EXCEPT ![inMap].stage = ops', ![inMap].owner = c,
                              ![inMap].detached = IF @ = None THEN None ELSE @ \cup {ops'}]
  /\ wal' = IF states[inMap].detached = None THEN wal \cup {ops'} ELSE wal
  /\ UNCHANGED <<registered, inMap, conns, evictCh, git, faults>>

\* The connection breaks, or CloseWithReason closes it.
Disconnect(c) ==
  /\ At(c, "live")
  /\ conns' = [conns EXCEPT ![c] = [Gone EXCEPT !.pc = "closed"]]
  /\ UNCHANGED <<registered, inMap, states, evictCh, git, wal, acked, ops, faults>>

\* readPump's last act, done by Run on what the table has now.
Unregister(c) ==
  /\ At(c, "closed")
  /\ conns' = [conns EXCEPT ![c] = Gone]
  /\ IF inMap = None THEN UNCHANGED states
     ELSE LET s == states[inMap]
              left == s.clients \ {c}
          IN states' = [states EXCEPT ![inMap].clients = left,
                          ![inMap].timer = IF left = {} /\ @ = "none" THEN "armed" ELSE @]
  /\ UNCHANGED <<registered, inMap, evictCh, git, wal, acked, ops, faults>>
-----------------------------------------------------------------------------
(***************************************************************************)
(* commitRunner                                                            *)
(***************************************************************************)
\* It goes on while nobody has shut it down.  With no risk "late" a VaultState
\* that has left the table has nothing staged.
BeginCommit(s) ==
  /\ states[s].phase = "ready" /\ states[s].job = "none" /\ states[s].stage # 0
  /\ inMap # s => "late" \in Risks
  /\ states' = [states EXCEPT ![s].job = "git"]
  /\ UNCHANGED <<registered, inMap, conns, evictCh, git, wal, acked, ops, faults>>

\* CommitOps applies the stage, whatever HEAD has.
GitCommit(s) ==
  /\ states[s].job = "git"
  /\ git' = states[s].stage
  /\ states' = [states EXCEPT ![s].job = "wal"]
  /\ UNCHANGED <<registered, inMap, conns, evictCh, wal, acked, ops, faults>>

\* Who learns of a commit of s: its clients; the author knows.
Told(s) == {c \in states[s].clients \cup ({states[s].owner} \cap Live) : At(c, "live")}

\* TruncateClient renames a new file over the old one, s goes on with that, and
\* broadcastOps tells the registered clients; one whose send buffer is full is
\* closed instead.
Truncate(s) ==
  /\ states[s].job = "wal"
  /\ wal' = {}
  /\ states' = [t \in States |->
                  IF t = s THEN [states[s] EXCEPT !.job = "none", !.stage = 0, !.owner = None,
                                                  !.detached = None]
                  ELSE IF states[t].phase \in {"replaying", "ready"} /\ states[t].detached = None
                  THEN [states[t] EXCEPT !.detached = wal]
                  ELSE states[t]]
  /\ \E slow \in SUBSET Told(s) :
       conns' = [c \in Conns |->
                   CASE c \in slow -> [Gone EXCEPT !.pc = "closed"]
                     [] c \in Told(s) \ slow /\ conns[c].head # None -> [conns[c] EXCEPT !.head = git]
                     [] OTHER -> conns[c]]
  /\ UNCHANGED <<registered, inMap, evictCh, git, acked, ops, faults>>
-----------------------------------------------------------------------------
(***************************************************************************)
(* Idle eviction                                                           *)
(***************************************************************************)
TimerFires(s) ==
  /\ states[s].timer = "armed" /\ states[s].phase = "ready"
  /\ states' = [states EXCEPT ![s].timer = "fired"]
  /\ evictCh' = evictCh \cup {s}
  /\ UNCHANGED <<registered, inMap, conns, git, wal, acked, ops, faults>>

\* Nobody is between GetOrHydrate and register, and the runner is at rest.
Quiet(s) ==
  /\ "auth" \in Risks \/ (\A c \in Holding(s) : At(c, "live"))
  /\ "late" \in Risks \/ (states[s].job = "none" /\ states[s].stage = 0)

\* Faulty: whoever has registered since is not looked at.
TryEvictBlindly(s) ==
  /\ s \in evictCh
  /\ evictCh' = evictCh \ {s}
  /\ IF inMap # s THEN UNCHANGED <<inMap, states>>
     ELSE /\ Quiet(s)
          /\ inMap' = None
          /\ states' = [states EXCEPT ![s].shutdown = TRUE]
  /\ UNCHANGED <<registered, conns, git, wal, acked, ops, faults>>

TryEvict(s) ==
  /\ s \in evictCh
  /\ evictCh' = evictCh \ {s}
  /\ IF inMap # s THEN UNCHANGED <<inMap, states>>
     ELSE IF states[s].clients # {}
     THEN states' = [states EXCEPT ![s].timer = "none"] /\ UNCHANGED inMap
     ELSE /\ Quiet(s)
          /\ inMap' = None
          /\ states' = [states EXCEPT ![s].shutdown = TRUE]
  /\ UNCHANGED <<registered, conns, git, wal, acked, ops, faults>>

\* The runner has returned: watcher and WAL are closed.
Teardown(s) ==
  /\ states[s].shutdown /\ states[s].phase = "ready" /\ states[s].job = "none"
  /\ states' = [states EXCEPT ![s] = Closed]
  /\ UNCHANGED <<registered, inMap, conns, evictCh, git, wal, acked, ops, faults>>
-----------------------------------------------------------------------------
(***************************************************************************)
(* ReloadVault, ResetVault, DestroyVault, CreateVault; the server's end    *)
(***************************************************************************)
AtRest ==
  /\ wal = {} /\ \A c \in Conns : ~At(c, "auth") /\ ~At(c, "waiting")
  /\ inMap # None => Serving(inMap) /\ states[inMap].stage = 0

\* The clients of the table's VaultState are closed, and it leaves the table;
\* its runner and its WAL handle live on.  Without the risk "admin" the vault
\* is at rest: nothing staged or in the WAL, no hydration, nobody connecting.
Detach ==
  /\ registered /\ faults < MaxFaults
  /\ "admin" \in Risks \/ AtRest
  /\ conns' = [c \in Conns |-> IF inMap # None /\ At(c, "live") /\ c \in states[inMap].clients
                               THEN [Gone EXCEPT !.pc = "closed"] ELSE conns[c]]
  /\ inMap' = None
  /\ faults' = faults + 1
  /\ UNCHANGED <<states, evictCh, wal, ops>>

Reload == Detach /\ UNCHANGED <<registered, git, acked>>
\* Everything but .leyline/ is removed; the next hydrate makes a new repository.
Reset == Detach /\ git' = 0 /\ acked' = 0 /\ UNCHANGED registered
Destroy == Detach /\ git' = 0 /\ acked' = 0 /\ registered' = FALSE
Create ==
  /\ ~registered /\ registered' = TRUE
  /\ UNCHANGED <<inMap, states, conns, evictCh, git, wal, acked, ops, faults>>

\* Also a panic: a handler that the table gives a placeholder.
Crash ==
  /\ faults < MaxFaults /\ faults' = faults + 1
  /\ inMap' = None /\ evictCh' = {}
  /\ states' = [s \in States |-> Closed]
  /\ conns' = [c \in Conns |-> Gone]
  /\ UNCHANGED <<registered, git, wal, acked, ops>>

HubStep ==
  \/ \E s \in States : \/ Replay(s) \/ Ready(s) \/ BeginCommit(s) \/ GitCommit(s)
                       \/ Truncate(s) \/ TimerFires(s) \/ TryEvict(s) \/ Teardown(s)
  \/ \E c \in Conns : Install(c) \/ Unregister(c)

Next ==
  \/ HubStep
  \/ \E s \in States : HydrateFails(s)
  \/ \E c \in Conns : \/ Lookup(c) \/ Register(c) \/ AuthFails(c) \/ Hello(c)
                      \/ Push(c) \/ Disconnect(c)
  \/ Reload \/ Reset \/ Destroy \/ Create \/ Crash

\* The hub's goroutines run; a connection authenticates or fails to.
Fairness ==
  /\ \A s \in States :
       /\ WF_vars(Replay(s) \/ Ready(s) \/ BeginCommit(s) \/ GitCommit(s) \/ Truncate(s))
       /\ WF_vars(TimerFires(s)) /\ WF_vars(TryEvict(s)) /\ WF_vars(Teardown(s))
  /\ \A c \in Conns : WF_vars(Install(c) \/ Unregister(c) \/ Register(c) \/ AuthFails(c))

Spec == Init /\ [][Next]_vars
FairSpec == Spec /\ Fairness
-----------------------------------------------------------------------------
\* Whatever VaultStates come and go, the last op that was acked is in HEAD or
\* in the WAL file that the directory has, where the next hydrate finds it: no
\* VaultState writes to a WAL that another one has replaced.
AckedKept == acked > 0 => git >= acked \/ acked \in wal

\* Between commits every client that has said hello has HEAD, by hello or by
\* broadcast: it is registered in the VaultState that commits.
ClientsHaveHead ==
  (\A s \in States : states[s].job # "wal") =>
    \A c \in Live : conns[c].head \in {None, git}

\* Why both hold while no risk is let loose: only the VaultState of the table
\* has anything left to do, and whoever waits for a vault or is connected to one
\* holds that VaultState.
StateType ==
  [phase : {"hydrating", "replaying", "ready", "closed"}, clients : SUBSET Conns, stage : Nat,
   owner : Conns \cup {None}, job : {"none", "git", "wal"}, detached : (SUBSET Nat) \cup {None},
   timer : {"none", "armed", "fired"}, shutdown : BOOLEAN]
ConnType ==
  [pc : {"off", "missing", "waiting", "auth", "live", "closed"}, vs : States \cup {None},
   head : Nat \cup {None}]
TypeOK ==
  /\ inMap \in States \cup {None} /\ evictCh \subseteq States
  /\ states \in [States -> StateType] /\ conns \in [Conns -> ConnType]
  /\ git \in Nat /\ acked \in Nat /\ ops \in Nat /\ wal \subseteq Nat \ {0}

OthersIdle ==
  /\ \A s \in States \ {inMap} :
       states[s].phase \in {"closed", "ready"} /\ states[s].job = "none" /\ states[s].stage = 0
  /\ \A s \in evictCh : states[s].phase \in {"closed", "ready"}

\* What it stages is the last acked op, and writes go to the WAL that is read.
CurrentAtWork ==
  inMap # None =>
    LET v == states[inMap] IN
    /\ v.phase # "closed" /\ v.detached = None /\ ~v.shutdown
    /\ v.phase = "hydrating" => v.stage = 0
    /\ v.stage # 0 => v.stage = acked /\ acked \in wal
    /\ v.job # "none" => v.stage # 0
    /\ v.job = "wal" => git = v.stage

WalNewest ==
  /\ wal # {} => acked \in wal
  /\ \A n \in wal : n <= acked
  /\ acked <= ops
  /\ acked > 0 /\ wal = {} => git >= acked

Held ==
  \A c \in Conns :
    /\ conns[c].pc \in {"waiting", "auth", "live"} => inMap # None /\ conns[c].vs = inMap
    /\ conns[c].pc \in {"auth", "live"} => states[inMap].phase = "ready"
    /\ conns[c].pc = "live" => c \in states[inMap].clients

LifeInv ==
  TypeOK /\ OthersIdle /\ CurrentAtWork /\ WalNewest /\ Held /\ ClientsHaveHead

\* A vault whose last client has left leaves the memory, unless somebody asks
\* for it again, however often clients came back just before; and whoever waits
\* for a placeholder gets the vault or the error of its hydrate.
Deserted(s) == inMap = s /\ states[s].clients = {} /\ states[s].timer # "none"
ComesAndGoes ==
  /\ \A s \in States :
       Deserted(s) ~> (inMap # s \/ states[s].clients # {} \/ Holding(s) # {})
  /\ \A c \in Conns : At(c, "waiting") ~> (At(c, "off") \/ At(c, "auth"))
=============================================================================
