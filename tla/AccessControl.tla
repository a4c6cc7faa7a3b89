---------------------------- MODULE AccessControl ----------------------------
(***************************************************************************)
(* The keys of one vault: the entries in memory, the access file with its  *)
(* backup and its copy in git, the custom role of the roles file, the key  *)
(* requests, the watcher that reloads what is edited by hand or pushed,    *)
(* and the sessions, which got their capabilities when they connected.     *)
(*                                                                         *)
(* Whatever changes entries or files does it under the store's mutex; the  *)
(* commit takes fileMu, and the sessions are looked at last.               *)
(***************************************************************************)
EXTENDS Integers, FiniteSets

CONSTANTS
  KeyNames,    \* the names of keys
  Conns,       \* the connections
  MaxTokens,   \* bound: tokens that were generated
  MaxKeyOps,   \* bound: requests
  MaxEdits,    \* bound: edits of the two files, by hand or by a push
  MaxStops,    \* bound: crashes and evictions
  Lapses       \* the known defects that are let loose

ASSUME LapsesAssumption ==
  Lapses \subseteq {"edit", "roles", "late", "flush", "backup", "opening"}
ASSUME KeysAssumption == KeyNames # {}

VARIABLES
  entries,     \* Store.entries
  file, bak,   \* the access file and access.bak: entries, or nothing that parses
  inHead,      \* the access file of git HEAD
  rolesFile,   \* what the custom role grants, in the roles file
  rolesMem,    \* the same in memory
  timers,      \* what the watcher is about to reload
  tasks,       \* the requests and reloads under way
  sessions,    \* the connections
  stage,       \* of the vault: "down", "opening" or "up"
  unfolded,    \* history: since the last commit one has failed, or the file was edited
               \* by hand, or bootstrapped, or what did not parse was put right
  book         \* bounds

stored == <<file, bak>>
roleState == <<rolesFile, rolesMem>>
accessVars == <<entries, stored, inHead, roleState, timers, tasks, sessions,
                stage, unfolded, book>>

\* A role is a built-in one, "admin" or "reader", or the custom one; it grants
\* vault.admin ("admin"), or less ("reader"), or is not defined ("none").
Roles == {"admin", "reader", "custom"}
Grants(role, custom) == IF role = "custom" THEN custom ELSE role

NoKey == [role |-> "none", hash |-> 0]
Corrupt == [n \in KeyNames |-> NoKey]   \* not one row parses
HeldKeys(t) == {n \in KeyNames : t[n] # NoKey}
Admins(t, custom) == {n \in HeldKeys(t) : Grants(t[n].role, custom) = "admin"}

Off == [at |-> "off", name |-> "", hash |-> 0, role |-> "none", caps |-> "none"]
On == {c \in Conns : sessions[c].at \in {"registered", "on"}}

FirstName == CHOOSE n \in KeyNames : TRUE
Bootstrap == [Corrupt EXCEPT ![FirstName] = [role |-> "admin", hash |-> 1]]

AccessInit ==
  /\ entries = Corrupt /\ file = Bootstrap /\ bak = Corrupt /\ inHead = Corrupt
  /\ rolesFile \in {"admin", "reader"} /\ rolesMem = "none"
  /\ timers = {} /\ tasks = {}
  /\ sessions = [c \in Conns |-> Off]
  /\ stage = "down" /\ unfolded = FALSE
  /\ book = [tokens |-> 1, ops |-> 0, edits |-> 0, stops |-> 0]
-----------------------------------------------------------------------------
(***************************************************************************)
(* Hydrate, eviction and crash                                             *)
(***************************************************************************)

\* Open falls back on the backup and makes it the live file.
Readable == IF file # Corrupt THEN file ELSE bak

OpenStore ==
  /\ stage = "down" /\ Readable # Corrupt
  /\ entries' = Readable /\ file' = Readable
  /\ rolesMem' = rolesFile
  /\ stage' = "opening"
  /\ UNCHANGED <<bak, inHead, rolesFile, timers, tasks, sessions, unfolded, book>>

\* The access file goes into HEAD whatever the worktree says of it; then the
\* watcher starts.
\* Faulty: it is left as it is.
BackfilledNone == inHead
Backfilled == file

StartWatching ==
  /\ stage = "opening"
  /\ inHead' = Backfilled
  /\ unfolded' = FALSE
  /\ stage' = "up"
  /\ UNCHANGED <<entries, stored, roleState, timers, tasks, sessions, book>>

Down ==
  /\ entries' = Corrupt /\ rolesMem' = "none"
  /\ timers' = {} /\ tasks' = {}
  /\ sessions' = [c \in Conns |-> Off]
  /\ stage' = "down"
  /\ book' = [book EXCEPT !.stops = @ + 1]

Stop ==
  /\ stage # "down" /\ book.stops < MaxStops
  /\ Down
  /\ UNCHANGED <<stored, inHead, rolesFile, unfolded>>
-----------------------------------------------------------------------------
(***************************************************************************)
(* The files and the watcher                                               *)
(***************************************************************************)
Watched(kind) == timers' = IF stage = "up" THEN timers \cup {kind} ELSE timers

\* flush: the backup first, then the live file.  Outcomes: how far it gets.
Flush(t) ==
  \E done \in {"all"} \cup (IF "flush" \in Lapses THEN {"bak", "nothing"} ELSE {}) :
    /\ bak' = IF done = "nothing" THEN bak ELSE t
    /\ file' = IF done = "all" THEN t ELSE file
    /\ IF done = "all" THEN Watched("access") ELSE UNCHANGED timers

\* What is edited by hand is read before the next flush, or it is lost.
HandWorkRead == "edit" \in Lapses \/ file \in {entries, Corrupt}

\* A crash when the backup is written and the live file is not.
StopInFlush(t) ==
  /\ book.stops < MaxStops
  /\ bak' = t
  /\ Down
  /\ UNCHANGED <<file, inHead, rolesFile, unfolded>>

Editable ==
  /\ book.edits < MaxEdits
  /\ stage # "opening" \/ "opening" \in Lapses
  /\ book' = [book EXCEPT !.edits = @ + 1]

\* An edit on the server leaves an admin, or nothing that parses; there is a
\* backup then.
EditAccess ==
  /\ Editable
  /\ \E t \in {[file EXCEPT ![n] = NoKey] : n \in HeldKeys(file)}
         \cup {[file EXCEPT ![n].role = r] : n \in HeldKeys(file), r \in Roles} :
       /\ t # file
       /\ Admins(t, rolesFile) # {} \/ (t = Corrupt /\ bak # Corrupt)
       /\ file' = t
  /\ unfolded' = TRUE
  /\ Watched("access")
  /\ UNCHANGED <<entries, bak, inHead, roleState, tasks, sessions, stage>>

\* So does an edit of the roles, which an admin pushes.
EditRoles ==
  /\ Editable
  /\ \E custom \in {"admin", "reader", "none"} \ {rolesFile} :
       /\ Admins(Readable, custom) # {}
       /\ "backup" \in Lapses \/ \A t \in {bak, entries} \ {Corrupt} : Admins(t, custom) # {}
       /\ rolesFile' = custom
  /\ Watched("roles")
  /\ UNCHANGED <<entries, stored, inHead, rolesMem, tasks, sessions, stage, unfolded>>

Task(at, n) == [at |-> at, n |-> n]
Looking == tasks \cup {Task("reevaluate", 0)}

\* handleReload, when the watcher's timer fires.  What does not parse is left.
ReloadAccess ==
  /\ "access" \in timers
  /\ timers' = timers \ {"access"}
  /\ IF file = Corrupt THEN UNCHANGED <<entries, tasks>>
                       ELSE entries' = file /\ tasks' = Looking
  /\ UNCHANGED <<stored, inHead, roleState, sessions, stage, unfolded, book>>

ReloadRoles ==
  /\ "roles" \in timers
  /\ timers' = timers \ {"roles"}
  /\ rolesMem' = rolesFile /\ tasks' = Looking
  /\ UNCHANGED <<entries, stored, inHead, rolesFile, sessions, stage, unfolded, book>>
-----------------------------------------------------------------------------
(***************************************************************************)
(* The requests of admins                                                  *)
(***************************************************************************)

\* Faulty: the key itself is counted among those that are left.
OrphansNobody(t, n) == Admins(t, rolesMem) = {}
WouldOrphanAdmin(t, n) == Admins(t, rolesMem) \ {n} = {}

MayRequest ==
  /\ stage = "up" /\ book.ops < MaxKeyOps /\ HandWorkRead
  /\ "roles" \in Lapses \/ rolesMem = rolesFile

\* isKnownRole.
KnownRoles == IF rolesMem = "none" THEN Roles \ {"custom"} ELSE Roles

\* The entries become t and are flushed; what is left to do starts with next.
Keyed(t, next, tokens) ==
  \/ /\ Flush(t)
     /\ entries' = t
     /\ book' = [book EXCEPT !.ops = @ + 1, !.tokens = tokens]
     /\ tasks' = IF file' = t /\ next # "" THEN tasks \cup {Task(next, book.ops + 1)} ELSE tasks
     /\ unfolded' = (unfolded \/ next = "")
     /\ UNCHANGED <<inHead, roleState, sessions, stage>>
  \/ StopInFlush(t)

AddKey(n, role, next) ==
  /\ MayRequest /\ book.tokens < MaxTokens
  /\ n \notin HeldKeys(entries)
  /\ Keyed([entries EXCEPT ![n] = [role |-> role, hash |-> book.tokens + 1]],
           next, book.tokens + 1)

CreateKey == \E n \in KeyNames, role \in KnownRoles : AddKey(n, role, "commit")

\* Its key is not committed.
BootstrapAdmin == \E n \in KeyNames : AddKey(n, "admin", "")

RemoveKey(n) ==
  /\ ~(n \in Admins(entries, rolesMem) /\ WouldOrphanAdmin(entries, n))
  /\ Keyed([entries EXCEPT ![n] = NoKey], "commit then reevaluate", book.tokens)

DeleteKey == MayRequest /\ \E n \in HeldKeys(entries) : RemoveKey(n)

SetRole(n, role) ==
  /\ ~(/\ n \in Admins(entries, rolesMem) /\ Grants(role, rolesMem) # "admin"
       /\ WouldOrphanAdmin(entries, n))
  /\ Keyed([entries EXCEPT ![n].role = role], "commit then reevaluate", book.tokens)

UpdateRole ==
  MayRequest /\ \E n \in HeldKeys(entries), role \in KnownRoles : SetRole(n, role)

\* CommitControlPlane reads the file anew; a failure is only logged.
CommitAccess ==
  \E task \in tasks :
    /\ task.at \in {"commit", "commit then reevaluate"}
    /\ \/ inHead' = file /\ unfolded' = FALSE
       \/ UNCHANGED inHead /\ unfolded' = TRUE
    /\ tasks' = (tasks \ {task}) \cup
                  (IF task.at = "commit" THEN {} ELSE {Task("reevaluate", task.n)})
    /\ UNCHANGED <<entries, stored, roleState, timers, sessions, stage, book>>
-----------------------------------------------------------------------------
(***************************************************************************)
(* The sessions                                                            *)
(***************************************************************************)

\* ReevaluateClients: a session stays whose key, name, role and capabilities are
\* what they were.
\* Faulty: what the role grants is not looked at.
StillAsWasByRole(s) == entries[s.name].hash = s.hash /\ entries[s.name].role = s.role
StillAsWas(s) ==
  /\ entries[s.name].hash = s.hash
  /\ entries[s.name].role = s.role
  /\ Grants(s.role, rolesMem) = s.caps

Reevaluate ==
  \E task \in tasks :
    /\ task.at = "reevaluate"
    /\ "late" \in Lapses \/ \A c \in Conns : sessions[c].at # "authenticated"
    /\ sessions' = [c \in Conns |->
         IF c \in On /\ ~StillAsWas(sessions[c]) THEN Off ELSE sessions[c]]
    /\ tasks' = tasks \ {task}
    /\ UNCHANGED <<entries, stored, inHead, roleState, timers, stage, unfolded, book>>

Authenticate(c) ==
  /\ stage = "up" /\ sessions[c].at = "off"
  /\ \E n \in HeldKeys(entries) :
       LET caps == Grants(entries[n].role, rolesMem) IN
       /\ caps # "none"
       /\ sessions' = [sessions EXCEPT ![c] =
            [at |-> "authenticated", name |-> n, hash |-> entries[n].hash,
             role |-> entries[n].role, caps |-> caps]]
  /\ UNCHANGED <<entries, stored, inHead, roleState, timers, tasks, stage, unfolded, book>>

Register(c) ==
  /\ sessions[c].at = "authenticated"
  /\ sessions' = [sessions EXCEPT ![c].at = "registered"]
  /\ UNCHANGED <<entries, stored, inHead, roleState, timers, tasks, stage, unfolded, book>>

\* The first session of a key on a day has the entries flushed.
UpdateLastSeen(c) ==
  /\ sessions[c].at = "registered"
  /\ \/ /\ \/ UNCHANGED <<stored, timers, unfolded>>
           \/ /\ sessions[c].name \in HeldKeys(entries) /\ HandWorkRead
              /\ Flush(entries)
              /\ unfolded' = (unfolded \/ file = Corrupt)
        /\ sessions' = [sessions EXCEPT ![c].at = "on"]
        /\ UNCHANGED <<entries, inHead, roleState, tasks, stage, book>>
     \/ sessions[c].name \in HeldKeys(entries) /\ HandWorkRead /\ StopInFlush(entries)

CloseConn(c) ==
  /\ sessions[c] # Off
  /\ sessions' = [sessions EXCEPT ![c] = Off]
  /\ UNCHANGED <<entries, stored, inHead, roleState, timers, tasks, stage, unfolded, book>>
-----------------------------------------------------------------------------
AccessNext ==
  \/ OpenStore \/ StartWatching \/ Stop
  \/ EditAccess \/ EditRoles \/ ReloadAccess \/ ReloadRoles
  \/ CreateKey \/ BootstrapAdmin \/ DeleteKey \/ UpdateRole
  \/ CommitAccess \/ Reevaluate
  \/ \E c \in Conns : Authenticate(c) \/ Register(c) \/ UpdateLastSeen(c) \/ CloseConn(c)

AccessSpec == AccessInit /\ [][AccessNext]_accessVars
-----------------------------------------------------------------------------
(***************************************************************************)
(* Correctness                                                             *)
(***************************************************************************)

\* Someone can administer the vault: of the keys that the next start reads, one
\* has vault.admin by the roles file, though requests decide by what is in
\* memory, the file is edited beside them, and a crash leaves the backup.
AdminRemains == Admins(Readable, rolesFile) # {}

\* Once reloads and requests are through, no session has a key that is gone, or
\* the role or the capabilities that its key had earlier.
SessionsFollowAccess ==
  timers = {} /\ tasks = {} => \A c \in On :
    LET key == entries[sessions[c].name] IN
    /\ <<key.hash, key.role>> = <<sessions[c].hash, sessions[c].role>>
    /\ Grants(key.role, rolesMem) = sessions[c].caps

\* Then memory has what the file has, and git, from which admins get their copy,
\* has it too, but for what is committed with the next request or start.
AccessInStep ==
  stage = "up" /\ timers = {} =>
    /\ file # Corrupt => entries = file
    /\ tasks = {} /\ ~unfolded => inHead = file

\* Why they hold while no defect is let loose.  Every table that may be read again
\* has an admin by the roles file; a session that is not what its key is has a
\* look at the sessions still to come; the file moves away from memory only with
\* the watcher's timer set, and away from HEAD only with a commit to come.
Tables == [KeyNames -> [role : Roles \cup {"none"}, hash : Nat]]
SessionType ==
  [at : {"off", "authenticated", "registered", "on"}, name : KeyNames \cup {""}, hash : Nat,
   role : Roles \cup {"none"}, caps : {"none", "admin", "reader"}]
AccessTypeOK ==
  /\ {entries, file, bak} \subseteq Tables
  /\ {rolesFile, rolesMem} \subseteq {"none", "admin", "reader"}
  /\ sessions \in [Conns -> SessionType]
  /\ \A c \in Conns :
       sessions[c].at # "off" => sessions[c].name \in KeyNames /\ sessions[c].role \in Roles
  /\ stage \in {"down", "opening", "up"}
  /\ book \in [tokens : Nat, ops : Nat, edits : Nat, stops : Nat]

TablesHaveAdmin ==
  /\ AdminRemains
  /\ \A t \in {bak, entries} \ {Corrupt} : Admins(t, rolesFile) # {}
  /\ stage # "down" => entries # Corrupt

SessionsWatched ==
  /\ stage # "up" => \A c \in Conns : sessions[c].at = "off"
  /\ \/ \E task \in tasks : task.at \in {"reevaluate", "commit then reevaluate"}
     \/ \A c \in Conns : sessions[c].at # "off" => StillAsWas(sessions[c])

FileWatched ==
  /\ stage # "down" /\ "access" \notin timers => file \in {entries, Corrupt}
  /\ stage = "up" /\ ~unfolded /\ inHead # file =>
       \E task \in tasks : task.at \in {"commit", "commit then reevaluate"}

AccessInv == AccessTypeOK /\ TablesHaveAdmin /\ SessionsWatched /\ FileWatched
=============================================================================
