--------------------------- MODULE HandlerProofs ----------------------------
(***************************************************************************)
(* What the HTTP handlers of the server and of the web gateway keep, and   *)
(* the rules by which a client merges, for every set of keys, connections, *)
(* tabs, files and names and every bound.                                  *)
(*                                                                         *)
(* 1. AccessControl, when no known defect is let loose (Lapses = {}):      *)
(* someone can administer the vault, sessions follow the access file, and  *)
(* memory, file and HEAD follow one another.  AccessInv is the inductive   *)
(* invariant.                                                              *)
(*                                                                         *)
(* 2. WebPanel (Slips = {}): the gateway's copy of the keys and the        *)
(* browser's cookie are current, and the panel acts on what it shows.      *)
(* Here it is PanelInv.                                                    *)
(*                                                                         *)
(* 3. VaultHistory (Gaps = {}): clients follow HEAD through reverts,       *)
(* restores and publishes of others, and what a request was answered goes  *)
(* on to hold.  HistoryInv carries what is due to every client, and what   *)
(* every call under way will find when its turn in commitCh comes.         *)
(*                                                                         *)
(* 4. PdfPages: a page of a PDF is a page of the document that is there.   *)
(* PdfInv says who works on which version and what each cache may hold.    *)
(*                                                                         *)
(* 5. ConflictRules (Risks = {}): an op that Classify leaves staged fits   *)
(* what the server holds, and no step of a merge loses an edit.            *)
(* ConflictInv says that it is all that the working tree has over the      *)
(* manifest.                                                               *)
(*                                                                         *)
(* 6. TagIndex (NamesReused = FALSE): a page under a tag is what the tag's *)
(* tree has at the address, and the switcher marks the tags as their trees *)
(* say.  TagsInv says that the index is what rebuild makes of a list whose *)
(* tags are gone or still where it has them.                               *)
(***************************************************************************)
EXTENDS
  ConflictRules, AccessControl, WebPanel, VaultHistory, PdfPages, TagIndex, Recursion

NoLapse == Lapses = {}

\* The tables that the vault starts with are tables.
LEMMA FirstTables == FirstName \in KeyNames /\ Corrupt \in Tables /\ Bootstrap \in Tables
<1>1. FirstName \in KeyNames
  BY KeysAssumption DEF FirstName
<1>2. Corrupt \in Tables
  BY DEF Corrupt, NoKey, Tables
<1>3. Bootstrap \in Tables
  BY <1>1, <1>2 DEF Bootstrap, Tables, Roles
<1> QED
  BY <1>1, <1>2, <1>3

\* The tables that requests and edits make are tables.
LEMMA TableChanges ==
  ASSUME NEW t \in Tables, NEW n \in KeyNames
  PROVE  /\ [t EXCEPT ![n] = NoKey] \in Tables
         /\ \A r \in Roles : [t EXCEPT ![n].role = r] \in Tables
         /\ \A r \in Roles, h \in Nat : [t EXCEPT ![n] = [role |-> r, hash |-> h]] \in Tables
<1>1. [t EXCEPT ![n] = NoKey] \in Tables
  BY DEF NoKey, Tables
<1>2. ASSUME NEW r \in Roles PROVE [t EXCEPT ![n].role = r] \in Tables
  BY DEF Tables
<1>3. ASSUME NEW r \in Roles, NEW h \in Nat
      PROVE  [t EXCEPT ![n] = [role |-> r, hash |-> h]] \in Tables
  BY DEF Tables
<1> QED
  BY <1>1, <1>2, <1>3

\* A table with an admin has a row that parses.
LEMMA AdminParses ==
  ASSUME NEW t \in Tables, NEW custom, Admins(t, custom) # {}
  PROVE  t # Corrupt
BY DEF Admins, HeldKeys, Corrupt

\* An admin other than the key that a request is about stays one; a new key or a
\* role with vault.admin makes another.
LEMMA AdminsAfter ==
  ASSUME NEW t \in Tables, NEW n \in KeyNames, NEW custom
  PROVE  /\ Admins(t, custom) \ {n} \subseteq Admins([t EXCEPT ![n] = NoKey], custom)
         /\ \A r \in Roles, h \in Nat :
              Admins(t, custom) \ {n} \subseteq
                Admins([t EXCEPT ![n] = [role |-> r, hash |-> h]], custom)
         /\ \A r \in Roles :
              /\ Admins(t, custom) \ {n} \subseteq Admins([t EXCEPT ![n].role = r], custom)
              /\ Grants(r, custom) = "admin" => n \in Admins([t EXCEPT ![n].role = r], custom)
<1>1. ASSUME NEW u \in Tables, \A m \in KeyNames \ {n} : u[m] = t[m]
      PROVE  Admins(t, custom) \ {n} \subseteq Admins(u, custom)
  BY <1>1 DEF Admins, HeldKeys
<1>2. ASSUME NEW r \in Roles, Grants(r, custom) = "admin"
      PROVE  n \in Admins([t EXCEPT ![n].role = r], custom)
  <2>1. [t EXCEPT ![n].role = r][n].role = r
    BY DEF Tables
  <2> QED
    BY <1>2, <2>1 DEF Admins, HeldKeys, NoKey, Roles
<1>3. \A u \in Tables : t \in Tables /\ DOMAIN u = KeyNames
  BY DEF Tables
<1>4. Admins(t, custom) \ {n} \subseteq Admins([t EXCEPT ![n] = NoKey], custom)
  BY <1>1, <1>3, TableChanges
<1>5. ASSUME NEW r \in Roles, NEW h \in Nat
      PROVE  Admins(t, custom) \ {n} \subseteq
               Admins([t EXCEPT ![n] = [role |-> r, hash |-> h]], custom)
  BY <1>1, <1>3, TableChanges
<1>6. ASSUME NEW r \in Roles
      PROVE  Admins(t, custom) \ {n} \subseteq Admins([t EXCEPT ![n].role = r], custom)
  BY <1>1, <1>3, TableChanges
<1> QED
  BY <1>2, <1>4, <1>5, <1>6
-----------------------------------------------------------------------------
\* A request makes one change of the entries and has it flushed; whatever changes
\* or removes a key that someone may use has the sessions looked at.
KeyRequest == CreateKey \/ BootstrapAdmin \/ DeleteKey \/ UpdateRole

LEMMA RequestEffect ==
  ASSUME NoLapse, AccessTypeOK, TablesHaveAdmin, KeyRequest
  PROVE  /\ stage = "up" /\ file \in {entries, Corrupt}
         /\ \E t \in Tables, next \in {"", "commit", "commit then reevaluate"}, tokens \in Nat :
              /\ Keyed(t, next, tokens)
              /\ Admins(t, rolesFile) # {}
              /\ next # "commit then reevaluate" =>
                   \A n \in HeldKeys(entries) : t[n] = entries[n]
<1>0. book.tokens + 1 \in Nat
  <2>1. ASSUME NEW k \in Nat PROVE k + 1 \in Nat
    OBVIOUS
  <2>2. book.tokens \in Nat
    BY DEF AccessTypeOK
  <2> QED
    BY <2>1, <2>2, Zenon
<1>1. MayRequest
  BY DEF KeyRequest, CreateKey, BootstrapAdmin, AddKey, DeleteKey, UpdateRole
<1>2. stage = "up" /\ file \in {entries, Corrupt} /\ rolesMem = rolesFile
  BY <1>1 DEF MayRequest, HandWorkRead, NoLapse
<1>3. entries \in Tables /\ Admins(entries, rolesFile) # {}
  BY <1>2 DEF AccessTypeOK, TablesHaveAdmin
<1>4. KnownRoles \subseteq Roles /\ "admin" \in Roles
  BY DEF KnownRoles, Roles
<1> DEFINE Goal ==
      \E t \in Tables, next \in {"", "commit", "commit then reevaluate"}, tokens \in Nat :
        /\ Keyed(t, next, tokens)
        /\ Admins(t, rolesFile) # {}
        /\ next # "commit then reevaluate" =>
             \A n \in HeldKeys(entries) : t[n] = entries[n]
<1>5. ASSUME NEW n \in KeyNames, NEW role \in Roles, NEW next \in {"", "commit"},
             AddKey(n, role, next)
      PROVE  Goal
  <2> DEFINE t == [entries EXCEPT ![n] = [role |-> role, hash |-> book.tokens + 1]]
  <2>1. n \notin HeldKeys(entries) /\ Keyed(t, next, book.tokens + 1)
    BY <1>5 DEF AddKey
  <2>2. book.tokens + 1 \in Nat
    BY <1>0
  <2>3. t \in Tables
    BY <1>3, <2>2, TableChanges
  <2>4. n \notin Admins(entries, rolesFile)
    BY <2>1 DEF Admins
  <2>5. Admins(t, rolesFile) # {}
    <3>1. Admins(entries, rolesFile) \ {n} \subseteq Admins(t, rolesFile)
      BY <1>3, <2>2, AdminsAfter
    <3> QED
      BY <1>3, <2>4, <3>1, Zenon
  <2>6. \A m \in HeldKeys(entries) : t[m] = entries[m]
    <3>1. \A m \in KeyNames \ {n} : t[m] = entries[m]
      BY <1>3 DEF Tables
    <3> QED
      BY <2>1, <3>1 DEF HeldKeys
  <2> HIDE DEF t
  <2> QED
    BY <2>1, <2>2, <2>3, <2>5, <2>6
<1>6. ASSUME NEW n \in HeldKeys(entries), RemoveKey(n) PROVE Goal
  <2> DEFINE t == [entries EXCEPT ![n] = NoKey]
  <2>0. n \in KeyNames /\ book.tokens \in Nat
    BY <1>6 DEF HeldKeys, AccessTypeOK
  <2>1. Keyed(t, "commit then reevaluate", book.tokens)
    BY <1>6 DEF RemoveKey
  <2>2. Admins(entries, rolesFile) \ {n} # {}
    BY <1>2, <1>3, <1>6 DEF RemoveKey, WouldOrphanAdmin
  <2>3. t \in Tables /\ Admins(t, rolesFile) # {}
    BY <1>3, <2>0, <2>2, TableChanges, AdminsAfter
  <2> HIDE DEF t
  <2> QED
    BY <2>0, <2>1, <2>3
<1>7. ASSUME NEW n \in HeldKeys(entries), NEW role \in Roles, SetRole(n, role) PROVE Goal
  <2> DEFINE t == [entries EXCEPT ![n].role = role]
  <2>0. n \in KeyNames /\ book.tokens \in Nat
    BY <1>7 DEF HeldKeys, AccessTypeOK
  <2>1. Keyed(t, "commit then reevaluate", book.tokens)
    BY <1>7 DEF SetRole
  <2>2. Grants(role, rolesFile) = "admin" \/ Admins(entries, rolesFile) \ {n} # {}
    BY <1>2, <1>3, <1>7 DEF SetRole, WouldOrphanAdmin
  <2>3. t \in Tables /\ Admins(t, rolesFile) # {}
    BY <1>3, <2>0, <2>2, TableChanges, AdminsAfter
  <2> HIDE DEF t
  <2> QED
    BY <2>0, <2>1, <2>3
<1>8. Goal
  BY <1>4, <1>5, <1>6, <1>7 DEF KeyRequest, CreateKey, BootstrapAdmin, DeleteKey, UpdateRole
<1> QED
  BY <1>2, <1>8

\* Without the defect that a flush may fail, it is done or the server stops in it.
LEMMA KeyedEffect ==
  ASSUME NoLapse, stage = "up", NEW t, NEW next, NEW tokens, Keyed(t, next, tokens)
  PROVE  \/ /\ entries' = t /\ file' = t /\ bak' = t /\ timers' = timers \cup {"access"}
            /\ IF next = "" THEN unfolded' = TRUE /\ tasks' = tasks
               ELSE tasks' = tasks \cup {Task(next, book.ops + 1)} /\ (unfolded => unfolded')
            /\ book' = [book EXCEPT !.ops = @ + 1, !.tokens = tokens]
            /\ UNCHANGED <<inHead, rolesFile, rolesMem, sessions, stage>>
         \/ StopInFlush(t)
<1>1. CASE /\ Flush(t)
           /\ entries' = t
           /\ book' = [book EXCEPT !.ops = @ + 1, !.tokens = tokens]
           /\ tasks' = IF file' = t /\ next # "" THEN tasks \cup {Task(next, book.ops + 1)}
                       ELSE tasks
           /\ unfolded' = (unfolded \/ next = "")
           /\ UNCHANGED <<inHead, roleState, sessions, stage>>
  <2>1. file' = t /\ bak' = t /\ timers' = timers \cup {"access"}
    BY <1>1 DEF Flush, Watched, NoLapse
  <2> QED
    BY <1>1, <2>1 DEF roleState
<1> QED
  BY <1>1 DEF Keyed

\* When the server is down nobody is connected and nothing is under way.
LEMMA DownEffect ==
  ASSUME NEW t, AccessTypeOK, Stop \/ StopInFlush(t)
  PROVE  /\ entries' = Corrupt /\ rolesMem' = "none" /\ timers' = {} /\ tasks' = {}
         /\ sessions' = [c \in Conns |-> Off] /\ stage' = "down"
         /\ book' = [book EXCEPT !.stops = @ + 1]
         /\ UNCHANGED <<file, inHead, rolesFile, unfolded>>
         /\ Stop => bak' = bak
         /\ StopInFlush(t) => bak' = t
BY DEF Stop, StopInFlush, Down, stored

\* A flush of what is in memory.
LEMMA SeenEffect ==
  ASSUME NoLapse, NEW c \in Conns, UpdateLastSeen(c), SessionsWatched
  PROVE  /\ stage = "up"
         /\ \/ /\ sessions' = [sessions EXCEPT ![c].at = "on"]
               /\ UNCHANGED <<entries, inHead, rolesFile, rolesMem, tasks, stage, book>>
               /\ \/ UNCHANGED <<file, bak, timers, unfolded>>
                  \/ /\ entries # Corrupt /\ file \in {entries, Corrupt}
                     /\ file' = entries /\ bak' = entries /\ timers' = timers \cup {"access"}
                     /\ unfolded \/ file = Corrupt => unfolded'
            \/ StopInFlush(entries) /\ entries # Corrupt
<1>1. stage = "up"
  BY DEF UpdateLastSeen, SessionsWatched
<1>2. HeldKeys(entries) # {} => entries # Corrupt
  BY DEF HeldKeys, Corrupt
<1> QED
  BY <1>1, <1>2
  DEF UpdateLastSeen, HandWorkRead, Flush, Watched, NoLapse, roleState, stored

\* Every step keeps the types.
LEMMA AccessTypeStep ==
  ASSUME NoLapse, AccessTypeOK, TablesHaveAdmin, SessionsWatched, [AccessNext]_accessVars
  PROVE  AccessTypeOK'
<1>0. /\ {entries, file, bak} \subseteq Tables
      /\ {rolesFile, rolesMem} \subseteq {"none", "admin", "reader"}
      /\ stage \in {"down", "opening", "up"}
      /\ book \in [tokens : Nat, ops : Nat, edits : Nat, stops : Nat]
  BY DEF AccessTypeOK
<1>1. /\ [book EXCEPT !.stops = @ + 1] \in [tokens : Nat, ops : Nat, edits : Nat, stops : Nat]
      /\ [book EXCEPT !.edits = @ + 1] \in [tokens : Nat, ops : Nat, edits : Nat, stops : Nat]
      /\ \A k \in Nat : [book EXCEPT !.ops = @ + 1, !.tokens = k]
                           \in [tokens : Nat, ops : Nat, edits : Nat, stops : Nat]
  <2>1. \A k \in Nat : k + 1 \in Nat
    OBVIOUS
  <2>2. /\ book.stops \in Nat /\ book.edits \in Nat /\ book.ops \in Nat
    BY <1>0
  <2>3. /\ book.stops + 1 \in Nat /\ book.edits + 1 \in Nat /\ book.ops + 1 \in Nat
    BY <2>1, <2>2, Zenon
  <2> DEFINE Books == [tokens : Nat, ops : Nat, edits : Nat, stops : Nat]
  <2>4. ASSUME NEW k \in Nat
        PROVE  /\ [book EXCEPT !.stops = k] \in Books /\ [book EXCEPT !.edits = k] \in Books
               /\ \A j \in Nat : [book EXCEPT !.ops = k, !.tokens = j] \in Books
    BY <1>0
  <2> QED
    BY <2>3, <2>4
<1>2. Corrupt \in Tables /\ Readable \in Tables
  BY <1>0, FirstTables DEF Readable
<1> DEFINE SessionsOK ==
      /\ sessions \in [Conns -> SessionType]
      /\ \A c \in Conns :
           sessions[c].at # "off" => sessions[c].name \in KeyNames /\ sessions[c].role \in Roles
<1>3. SessionsOK
  BY DEF AccessTypeOK
<1>4. UNCHANGED sessions => SessionsOK'
  BY <1>3
<1>5. Off \in SessionType /\ Off.at = "off"
  BY DEF Off, SessionType
<1>6. ASSUME NEW t \in Tables, Stop \/ StopInFlush(t) PROVE AccessTypeOK'
  <2>1. SessionsOK'
    BY <1>5, <1>6, DownEffect
  <2> QED
    BY <1>0, <1>1, <1>2, <1>6, <2>1, DownEffect DEF AccessTypeOK
<1>7. CASE KeyRequest
  <2>1. PICK t \in Tables, next \in {"", "commit", "commit then reevaluate"}, tokens \in Nat :
          Keyed(t, next, tokens)
    BY <1>7, RequestEffect
  <2>2. stage = "up"
    BY <1>7, RequestEffect
  <2>3. CASE StopInFlush(t)
    BY <1>6, <2>3
  <2>4. CASE ~StopInFlush(t)
    <3>1. /\ entries' = t /\ file' = t /\ bak' = t
          /\ book' = [book EXCEPT !.ops = @ + 1, !.tokens = tokens]
          /\ UNCHANGED <<rolesFile, rolesMem, sessions, stage>>
      BY <2>1, <2>2, <2>4, KeyedEffect
    <3> QED
      BY <1>0, <1>1, <1>4, <3>1 DEF AccessTypeOK
  <2> QED
    BY <2>3, <2>4
<1>8. CASE OpenStore \/ StartWatching \/ ReloadAccess \/ ReloadRoles \/ CommitAccess
  BY <1>0, <1>2, <1>4, <1>8
  DEF AccessTypeOK, OpenStore, StartWatching, ReloadAccess, ReloadRoles, CommitAccess, stored,
      roleState
<1>9. CASE EditAccess
  <2>1. PICK t : /\ t \in {[file EXCEPT ![n] = NoKey] : n \in HeldKeys(file)}
                        \cup {[file EXCEPT ![n].role = r] : n \in HeldKeys(file), r \in Roles}
                 /\ file' = t
    BY <1>9 DEF EditAccess
  <2>2. t \in Tables
    <3>1. HeldKeys(file) \subseteq KeyNames /\ file \in Tables
      BY <1>0 DEF HeldKeys
    <3>2. CASE \E n \in HeldKeys(file) : t = [file EXCEPT ![n] = NoKey]
      BY <3>1, <3>2, TableChanges
    <3>3. CASE \E n \in HeldKeys(file), r \in Roles : t = [file EXCEPT ![n].role = r]
      <4>1. PICK n \in HeldKeys(file), r \in Roles : t = [file EXCEPT ![n].role = r]
        BY <3>3
      <4>2. [file EXCEPT ![n].role = r] \in Tables
        BY <3>1, TableChanges
      <4> QED
        BY <4>1, <4>2
    <3> QED
      BY <2>1, <3>2, <3>3
  <2> QED
    BY <1>0, <1>1, <1>4, <1>9, <2>1, <2>2 DEF AccessTypeOK, EditAccess, Editable, roleState
<1>10. CASE EditRoles
  BY <1>0, <1>1, <1>4, <1>10 DEF AccessTypeOK, EditRoles, Editable, stored
<1>11. CASE Reevaluate
  <2>1. SessionsOK'
    BY <1>3, <1>5, <1>11 DEF Reevaluate
  <2> QED
    BY <1>0, <1>11, <2>1 DEF AccessTypeOK, Reevaluate, stored, roleState
<1>12. ASSUME NEW c \in Conns, Authenticate(c) PROVE AccessTypeOK'
  <2>1. PICK n \in HeldKeys(entries) :
          /\ Grants(entries[n].role, rolesMem) # "none"
          /\ sessions' = [sessions EXCEPT ![c] =
               [at |-> "authenticated", name |-> n, hash |-> entries[n].hash,
                role |-> entries[n].role, caps |-> Grants(entries[n].role, rolesMem)]]
    BY <1>12 DEF Authenticate
  <2>2. /\ n \in KeyNames /\ entries[n].hash \in Nat /\ entries[n].role \in Roles
        /\ Grants(entries[n].role, rolesMem) \in {"admin", "reader", "none"}
    BY <1>0, <2>1 DEF HeldKeys, Tables, Grants, Roles
  <2>3. [at |-> "authenticated", name |-> n, hash |-> entries[n].hash,
         role |-> entries[n].role, caps |-> Grants(entries[n].role, rolesMem)] \in SessionType
    BY <2>2 DEF SessionType
  <2>4. SessionsOK'
    BY <1>3, <2>1, <2>2, <2>3
  <2> QED
    BY <1>0, <1>12, <2>4 DEF AccessTypeOK, Authenticate, stored, roleState
<1>13. ASSUME NEW c \in Conns, NEW at \in {"registered", "on"},
              sessions[c].at # "off", sessions' = [sessions EXCEPT ![c].at = at]
       PROVE  SessionsOK'
  <2>1. [sessions[c] EXCEPT !.at = at] \in SessionType
    BY <1>3 DEF SessionType
  <2>2. /\ [sessions[c] EXCEPT !.at = at].name \in KeyNames
        /\ [sessions[c] EXCEPT !.at = at].role \in Roles
    BY <1>3, <1>13 DEF SessionType
  <2> QED
    BY <1>3, <1>13, <2>1, <2>2
<1>14. ASSUME NEW c \in Conns, Register(c) PROVE AccessTypeOK'
  <2>1. SessionsOK'
    BY <1>13, <1>14 DEF Register
  <2> QED
    BY <1>0, <1>14, <2>1 DEF AccessTypeOK, Register, stored, roleState
<1>15. ASSUME NEW c \in Conns, UpdateLastSeen(c) PROVE AccessTypeOK'
  <2>1. CASE StopInFlush(entries)
    BY <1>0, <1>6, <2>1
  <2>2. CASE ~StopInFlush(entries)
    <3>1. SessionsOK'
      BY <1>13, <1>15, <2>2, SeenEffect DEF UpdateLastSeen
    <3> QED
      BY <1>0, <1>15, <2>2, <3>1, SeenEffect DEF AccessTypeOK
  <2> QED
    BY <2>1, <2>2
<1>16. ASSUME NEW c \in Conns, CloseConn(c) PROVE AccessTypeOK'
  <2>1. SessionsOK'
    BY <1>3, <1>5, <1>16 DEF CloseConn
  <2> QED
    BY <1>0, <1>16, <2>1 DEF AccessTypeOK, CloseConn, stored, roleState
<1>17. CASE UNCHANGED accessVars
  BY <1>0, <1>4, <1>17 DEF AccessTypeOK, accessVars, stored, roleState
<1> QED
  BY <1>0, <1>6, <1>7, <1>8, <1>9, <1>10, <1>11, <1>12, <1>14, <1>15, <1>16, <1>17
  DEF AccessNext, KeyRequest
-----------------------------------------------------------------------------
\* Whatever becomes of the table that the next start reads, it has an admin.
LEMMA AdminStep ==
  ASSUME NoLapse, AccessTypeOK, TablesHaveAdmin, SessionsWatched, FileWatched,
         [AccessNext]_accessVars
  PROVE  TablesHaveAdmin'
<1> DEFINE HasAdmin(t) == t \in Tables /\ Admins(t, rolesFile) # {}
<1>0. /\ {entries, file, bak} \subseteq Tables
      /\ Readable = (IF file # Corrupt THEN file ELSE bak)
      /\ Admins(Readable, rolesFile) # {}
      /\ bak # Corrupt => Admins(bak, rolesFile) # {}
      /\ entries # Corrupt => Admins(entries, rolesFile) # {}
      /\ stage # "down" => entries # Corrupt
      /\ file # Corrupt => Admins(file, rolesFile) # {}
  BY DEF AccessTypeOK, TablesHaveAdmin, AdminRemains, Readable
<1>1. ASSUME rolesFile' = rolesFile,
             bak' = bak \/ Admins(bak', rolesFile) # {},
             file' = file \/ (Admins(file', rolesFile) # {} /\ file' # Corrupt),
             entries' \in {entries, Corrupt} \/ Admins(entries', rolesFile) # {},
             stage' # "down" => entries' # Corrupt,
             file = Corrupt /\ bak # Corrupt => bak' # Corrupt
      PROVE  TablesHaveAdmin'
  <2>1. Admins(IF file' # Corrupt THEN file' ELSE bak', rolesFile) # {}
    BY <1>0, <1>1, AdminParses
  <2> QED
    BY <1>0, <1>1, <2>1 DEF TablesHaveAdmin, AdminRemains, Readable
<1>2. ASSUME NEW t \in Tables, Admins(t, rolesFile) # {}, StopInFlush(t) PROVE TablesHaveAdmin'
  BY <1>0, <1>1, <1>2, DownEffect, AdminParses
<1>3. CASE Stop
  BY <1>0, <1>1, <1>3, DownEffect
<1>4. CASE KeyRequest
  <2>1. PICK t \in Tables, next \in {"", "commit", "commit then reevaluate"}, tokens \in Nat :
          Keyed(t, next, tokens) /\ Admins(t, rolesFile) # {}
    BY <1>4, RequestEffect
  <2>2. stage = "up"
    BY <1>4, RequestEffect
  <2>3. CASE StopInFlush(t)
    BY <1>2, <2>1, <2>3
  <2>4. CASE ~StopInFlush(t)
    <3>1. entries' = t /\ file' = t /\ bak' = t /\ rolesFile' = rolesFile
      BY <2>1, <2>2, <2>4, KeyedEffect
    <3> QED
      BY <1>1, <2>1, <3>1, AdminParses
  <2> QED
    BY <2>3, <2>4
<1>5. CASE OpenStore
  BY <1>0, <1>1, <1>5 DEF OpenStore
<1>6. CASE ReloadAccess
  BY <1>0, <1>1, <1>6 DEF ReloadAccess, stored, roleState
<1>7. CASE StartWatching \/ ReloadRoles \/ CommitAccess \/ Reevaluate
  BY <1>0, <1>1, <1>7 DEF StartWatching, ReloadRoles, CommitAccess, Reevaluate, stored, roleState
<1>8. ASSUME NEW c \in Conns, Authenticate(c) \/ Register(c) \/ CloseConn(c)
      PROVE  TablesHaveAdmin'
  BY <1>0, <1>1, <1>8 DEF Authenticate, Register, CloseConn, stored, roleState
<1>9. ASSUME NEW c \in Conns, UpdateLastSeen(c) PROVE TablesHaveAdmin'
  <2>1. CASE StopInFlush(entries)
    <3>1. entries # Corrupt
      BY <1>9, <2>1, SeenEffect, <1>0
    <3> QED
      BY <1>0, <1>2, <2>1, <3>1
  <2>2. CASE ~StopInFlush(entries)
    BY <1>0, <1>1, <1>9, <2>2, SeenEffect
  <2> QED
    BY <2>1, <2>2
<1>10. CASE EditAccess
  <2>1. /\ Admins(file', rolesFile) # {} \/ (file' = Corrupt /\ bak # Corrupt)
        /\ UNCHANGED <<entries, bak, rolesFile, stage>>
    BY <1>10 DEF EditAccess, roleState
  <2> QED
    BY <1>0, <2>1 DEF TablesHaveAdmin, AdminRemains, Readable
<1>11. CASE EditRoles
  <2>1. /\ Admins(Readable, rolesFile') # {}
        /\ \A t \in {bak, entries} \ {Corrupt} : Admins(t, rolesFile') # {}
        /\ UNCHANGED <<entries, file, bak, stage>>
    BY <1>11 DEF EditRoles, NoLapse, stored
  <2> QED
    BY <1>0, <2>1 DEF TablesHaveAdmin, AdminRemains, Readable
<1>12. CASE UNCHANGED accessVars
  BY <1>0, <1>1, <1>12 DEF accessVars, stored, roleState
<1> QED
  BY <1>3, <1>4, <1>5, <1>6, <1>7, <1>8, <1>9, <1>10, <1>11, <1>12 DEF AccessNext, KeyRequest
-----------------------------------------------------------------------------
\* A look at the sessions is to come.
LookToCome == \E task \in tasks : task.at \in {"reevaluate", "commit then reevaluate"}
AllAsKeysSay == \A c \in Conns : sessions[c].at # "off" => StillAsWas(sessions[c])

LEMMA LookingLooks == ASSUME tasks' = Looking PROVE LookToCome'
<1>1. Task("reevaluate", 0) \in tasks' /\ Task("reevaluate", 0).at = "reevaluate"
  BY DEF Looking, Task
<1> QED
  BY <1>1 DEF LookToCome

\* A session that is not what its key is now will be looked at: a new key takes the
\* name of no session in order, and all other changes of keys and roles ask for
\* the look.
LEMMA SessionsStep ==
  ASSUME NoLapse, AccessTypeOK, TablesHaveAdmin, SessionsWatched, [AccessNext]_accessVars
  PROVE  SessionsWatched'
<1>0. /\ stage # "up" => \A c \in Conns : sessions[c].at = "off"
      /\ LookToCome \/ AllAsKeysSay
      /\ sessions \in [Conns -> SessionType]
  BY DEF SessionsWatched, LookToCome, AllAsKeysSay, AccessTypeOK
<1>1. ASSUME stage' # "up" => \A c \in Conns : sessions'[c].at = "off",
             LookToCome' \/ AllAsKeysSay'
      PROVE  SessionsWatched'
  BY <1>1 DEF SessionsWatched, LookToCome, AllAsKeysSay
<1>2. ASSUME \A c \in Conns : sessions'[c].at = "off" PROVE SessionsWatched'
  BY <1>1, <1>2 DEF AllAsKeysSay
<1>3. ASSUME UNCHANGED <<entries, rolesMem, sessions, stage>>,
             LookToCome => LookToCome'
      PROVE  SessionsWatched'
  BY <1>0, <1>1, <1>3 DEF AllAsKeysSay, StillAsWas
<1>4. ASSUME NEW t, Stop \/ StopInFlush(t) PROVE SessionsWatched'
  <2>1. sessions' = [c \in Conns |-> Off]
    BY <1>4, DownEffect
  <2> QED
    BY <1>2, <2>1 DEF Off
<1>5. CASE KeyRequest
  <2>1. PICK t \in Tables, next \in {"", "commit", "commit then reevaluate"}, tokens \in Nat :
          /\ Keyed(t, next, tokens)
          /\ next # "commit then reevaluate" => \A n \in HeldKeys(entries) : t[n] = entries[n]
    BY <1>5, RequestEffect
  <2>2. stage = "up"
    BY <1>5, RequestEffect
  <2>3. CASE StopInFlush(t)
    BY <1>4, <2>3
  <2>4. CASE ~StopInFlush(t)
    <3>1. /\ entries' = t /\ UNCHANGED <<rolesMem, sessions, stage>>
          /\ IF next = "" THEN tasks' = tasks
             ELSE tasks' = tasks \cup {Task(next, book.ops + 1)}
      BY <2>1, <2>2, <2>4, KeyedEffect
    <3>2. CASE next = "commit then reevaluate"
      <4>1. Task(next, book.ops + 1).at = next /\ Task(next, book.ops + 1) \in tasks'
        BY <3>1, <3>2 DEF Task
      <4>2. LookToCome'
        BY <3>2, <4>1 DEF LookToCome
      <4> QED
        BY <1>1, <2>2, <3>1, <4>2
    <3>3. CASE next # "commit then reevaluate"
      <4>1. LookToCome => LookToCome'
        BY <3>1 DEF LookToCome
      <4>2. AllAsKeysSay => AllAsKeysSay'
        <5>1. ASSUME NEW c \in Conns, sessions[c].at # "off", StillAsWas(sessions[c])
              PROVE  sessions[c].name \in HeldKeys(entries)
          <6>1. sessions[c].name \in KeyNames /\ sessions[c].role \in Roles
            BY <5>1 DEF AccessTypeOK
          <6>2. entries[sessions[c].name].role # "none"
            BY <5>1, <6>1 DEF StillAsWas, Roles
          <6> QED
            <7>1. NoKey.role = "none"
              BY DEF NoKey
            <7>2. entries[sessions[c].name] # NoKey
              BY <6>2, <7>1
            <7> QED
              BY <6>1, <7>2 DEF HeldKeys
        <5>2. \A n \in HeldKeys(entries) : t[n] = entries[n]
          BY <2>1, <3>3
        <5> QED
          BY <3>1, <5>1, <5>2 DEF AllAsKeysSay, StillAsWas
      <4> QED
        BY <1>0, <1>1, <2>2, <3>1, <4>1, <4>2
    <3> QED
      BY <3>2, <3>3
  <2> QED
    BY <2>3, <2>4
<1>6. CASE OpenStore
  BY <1>0, <1>2, <1>6 DEF OpenStore
<1>7. CASE StartWatching
  BY <1>0, <1>2, <1>7 DEF StartWatching
<1>8. CASE EditAccess \/ EditRoles
  <2>1. UNCHANGED <<entries, rolesMem, sessions, stage, tasks>>
    BY <1>8 DEF EditAccess, EditRoles, roleState, stored
  <2> QED
    BY <1>3, <2>1 DEF LookToCome
<1>9. CASE ReloadAccess
  <2>1. CASE file = Corrupt
    BY <1>3, <1>9, <2>1 DEF ReloadAccess, LookToCome, roleState
  <2>2. CASE file # Corrupt
    <3>1. tasks' = Looking /\ UNCHANGED <<sessions, stage>>
      BY <1>9, <2>2 DEF ReloadAccess
    <3>2. LookToCome'
      BY <3>1, LookingLooks
    <3> QED
      BY <1>0, <1>1, <3>1, <3>2
  <2> QED
    BY <2>1, <2>2
<1>10. CASE ReloadRoles
  <2>1. tasks' = Looking /\ UNCHANGED <<sessions, stage>>
    BY <1>10 DEF ReloadRoles
  <2>2. LookToCome'
    BY <2>1, LookingLooks
  <2> QED
    BY <1>0, <1>1, <2>1, <2>2
<1>11. CASE CommitAccess
  <2>1. PICK task \in tasks :
          /\ task.at \in {"commit", "commit then reevaluate"}
          /\ tasks' = (tasks \ {task}) \cup
                        (IF task.at = "commit" THEN {} ELSE {Task("reevaluate", task.n)})
          /\ UNCHANGED <<entries, rolesMem, sessions, stage>>
    BY <1>11 DEF CommitAccess, roleState
  <2>2. LookToCome => LookToCome'
    <3>1. SUFFICES ASSUME NEW look \in tasks, look.at \in {"reevaluate", "commit then reevaluate"}
                   PROVE  LookToCome'
      BY DEF LookToCome
    <3>2. CASE look # task
      BY <2>1, <3>1, <3>2 DEF LookToCome
    <3>3. CASE look = task
      <4>1. Task("reevaluate", task.n) \in tasks' /\ Task("reevaluate", task.n).at = "reevaluate"
        BY <2>1, <3>1, <3>3 DEF Task
      <4> QED
        BY <4>1 DEF LookToCome
    <3> QED
      BY <3>2, <3>3
  <2> QED
    BY <1>3, <2>1, <2>2
<1>12. CASE Reevaluate
  <2>1. /\ \A c \in Conns : sessions[c].at # "authenticated"
        /\ sessions' = [c \in Conns |->
             IF c \in On /\ ~StillAsWas(sessions[c]) THEN Off ELSE sessions[c]]
        /\ UNCHANGED <<entries, rolesMem, stage>>
    BY <1>12 DEF Reevaluate, NoLapse, roleState
  <2>2. \A c \in Conns : c \notin On => sessions[c].at = "off"
    BY <1>0, <2>1 DEF On, SessionType
  <2>3. AllAsKeysSay'
    BY <2>1, <2>2 DEF AllAsKeysSay, StillAsWas, Off
  <2> QED
    BY <1>0, <1>1, <2>1, <2>3 DEF Off
<1>13. ASSUME NEW c \in Conns, Authenticate(c) PROVE SessionsWatched'
  <2>1. PICK n \in HeldKeys(entries) :
          sessions' = [sessions EXCEPT ![c] =
            [at |-> "authenticated", name |-> n, hash |-> entries[n].hash,
             role |-> entries[n].role, caps |-> Grants(entries[n].role, rolesMem)]]
    BY <1>13 DEF Authenticate
  <2>2. stage = "up" /\ UNCHANGED <<entries, rolesMem, tasks, stage>>
    BY <1>13 DEF Authenticate, roleState
  <2>3. AllAsKeysSay => AllAsKeysSay'
    BY <1>0, <2>1, <2>2 DEF AllAsKeysSay, StillAsWas
  <2>4. LookToCome => LookToCome'
    BY <2>2 DEF LookToCome
  <2> QED
    BY <1>0, <1>1, <2>2, <2>3, <2>4
<1>14. ASSUME NEW c \in Conns, NEW at \in {"registered", "on"}, sessions[c].at # "off",
              sessions' = [sessions EXCEPT ![c].at = at],
              UNCHANGED <<entries, rolesMem, tasks, stage>>
       PROVE  SessionsWatched'
  <2>1. stage' = "up"
    BY <1>0, <1>14
  <2>2. \A d \in Conns : /\ sessions'[d].name = sessions[d].name
                         /\ sessions'[d].hash = sessions[d].hash
                         /\ sessions'[d].role = sessions[d].role
                         /\ sessions'[d].caps = sessions[d].caps
                         /\ sessions'[d].at # "off" => sessions[d].at # "off"
    BY <1>0, <1>14 DEF SessionType
  <2>3. AllAsKeysSay => AllAsKeysSay'
    BY <1>14, <2>2 DEF AllAsKeysSay, StillAsWas
  <2>4. LookToCome => LookToCome'
    BY <1>14 DEF LookToCome
  <2> QED
    BY <1>0, <1>1, <2>1, <2>3, <2>4
<1>15. ASSUME NEW c \in Conns, Register(c) PROVE SessionsWatched'
  BY <1>14, <1>15 DEF Register, roleState
<1>16. ASSUME NEW c \in Conns, UpdateLastSeen(c) PROVE SessionsWatched'
  <2>1. CASE StopInFlush(entries)
    BY <1>4, <2>1
  <2>2. CASE ~StopInFlush(entries)
    <3>1. sessions[c].at # "off"
      BY <1>16 DEF UpdateLastSeen
    <3> QED
      BY <1>14, <1>16, <2>2, <3>1, SeenEffect
  <2> QED
    BY <2>1, <2>2
<1>17. ASSUME NEW c \in Conns, CloseConn(c) PROVE SessionsWatched'
  <2>1. /\ sessions' = [sessions EXCEPT ![c] = Off]
        /\ UNCHANGED <<entries, rolesMem, tasks, stage>>
    BY <1>17 DEF CloseConn, roleState
  <2>2. AllAsKeysSay => AllAsKeysSay'
    BY <1>0, <2>1 DEF AllAsKeysSay, StillAsWas, Off
  <2>3. LookToCome => LookToCome'
    BY <2>1 DEF LookToCome
  <2> QED
    BY <1>0, <1>1, <2>1, <2>2, <2>3 DEF Off
<1>18. CASE UNCHANGED accessVars
  BY <1>3, <1>18 DEF accessVars, LookToCome, roleState
<1> QED
  BY <1>4, <1>5, <1>6, <1>7, <1>8, <1>9, <1>10, <1>11, <1>12, <1>13, <1>15, <1>16, <1>17,
     <1>18 DEF AccessNext, KeyRequest
-----------------------------------------------------------------------------
CommitToCome == \E task \in tasks : task.at \in {"commit", "commit then reevaluate"}

\* What is written to the access file is in memory as well, or about to be read;
\* and it is in HEAD, or a commit is to come, or the next start puts it there.
LEMMA FileStep ==
  ASSUME NoLapse, AccessTypeOK, TablesHaveAdmin, SessionsWatched, FileWatched,
         [AccessNext]_accessVars
  PROVE  FileWatched'
<1>0. /\ stage # "down" /\ "access" \notin timers => file \in {entries, Corrupt}
      /\ stage = "up" /\ ~unfolded /\ inHead # file => CommitToCome
  BY DEF FileWatched, CommitToCome
<1>1. ASSUME stage' # "down" /\ "access" \notin timers' => file' \in {entries', Corrupt},
             stage' = "up" /\ ~unfolded' /\ inHead' # file' => CommitToCome'
      PROVE  FileWatched'
  BY <1>1 DEF FileWatched, CommitToCome
<1>2. ASSUME UNCHANGED <<entries, file, inHead, timers, stage, unfolded>>,
             CommitToCome => CommitToCome'
      PROVE  FileWatched'
  BY <1>0, <1>1, <1>2
<1>3. ASSUME NEW t, Stop \/ StopInFlush(t) PROVE FileWatched'
  BY <1>1, <1>3, DownEffect
<1>4. CASE KeyRequest
  <2>1. PICK t \in Tables, next \in {"", "commit", "commit then reevaluate"}, tokens \in Nat :
          Keyed(t, next, tokens)
    BY <1>4, RequestEffect
  <2>2. stage = "up"
    BY <1>4, RequestEffect
  <2>3. CASE StopInFlush(t)
    BY <1>3, <2>3
  <2>4. CASE ~StopInFlush(t)
    <3>1. /\ timers' = timers \cup {"access"}
          /\ IF next = "" THEN unfolded' = TRUE
             ELSE tasks' = tasks \cup {Task(next, book.ops + 1)}
      BY <2>1, <2>2, <2>4, KeyedEffect
    <3>2. next # "" => CommitToCome'
      <4>1. Task(next, book.ops + 1).at = next
        BY DEF Task
      <4> QED
        BY <3>1, <4>1 DEF CommitToCome
    <3> QED
      BY <1>1, <3>1, <3>2
  <2> QED
    BY <2>3, <2>4
<1>5. CASE OpenStore
  BY <1>1, <1>5 DEF OpenStore
<1>6. CASE StartWatching
  <2>1. inHead' = file /\ stage = "opening" /\ UNCHANGED <<entries, file, timers>>
    BY <1>6 DEF StartWatching, Backfilled, stored
  <2> QED
    BY <1>0, <1>1, <2>1
<1>7. CASE EditAccess
  <2>1. stage # "opening" /\ unfolded' = TRUE /\ stage' = stage
        /\ (stage = "up" => timers' = timers \cup {"access"})
    BY <1>7 DEF EditAccess, Editable, Watched, NoLapse
  <2> QED
    BY <1>1, <2>1 DEF AccessTypeOK
<1>8. CASE EditRoles
  <2>1. UNCHANGED <<entries, file, inHead, tasks, stage, unfolded>>
    BY <1>8 DEF EditRoles, stored
  <2>2. timers \subseteq timers'
    BY <1>8 DEF EditRoles, Watched
  <2> QED
    BY <1>0, <1>1, <2>1, <2>2 DEF CommitToCome
<1>9. CASE ReloadAccess
  <2>1. /\ UNCHANGED <<file, inHead, stage, unfolded>>
        /\ file # Corrupt => entries' = file
        /\ tasks \subseteq tasks'
    BY <1>9 DEF ReloadAccess, stored, Looking
  <2>2. CommitToCome => CommitToCome'
    BY <2>1 DEF CommitToCome
  <2> QED
    BY <1>0, <1>1, <2>1, <2>2
<1>10. CASE ReloadRoles
  <2>1. /\ UNCHANGED <<entries, file, inHead, stage, unfolded>>
        /\ tasks \subseteq tasks'
        /\ "access" \in timers => "access" \in timers'
    BY <1>10 DEF ReloadRoles, stored, Looking
  <2>2. CommitToCome => CommitToCome'
    BY <2>1 DEF CommitToCome
  <2> QED
    BY <1>0, <1>1, <2>1, <2>2
<1>11. CASE CommitAccess
  <2>1. /\ inHead' = file \/ unfolded' = TRUE
        /\ UNCHANGED <<entries, file, timers, stage>>
    BY <1>11 DEF CommitAccess, stored
  <2> QED
    BY <1>0, <1>1, <2>1
<1>12. CASE Reevaluate
  <2>1. PICK task \in tasks :
          task.at = "reevaluate" /\ tasks' = tasks \ {task}
          /\ UNCHANGED <<entries, file, inHead, timers, stage, unfolded>>
    BY <1>12 DEF Reevaluate, stored
  <2>2. CommitToCome => CommitToCome'
    BY <2>1 DEF CommitToCome
  <2> QED
    BY <1>2, <2>1, <2>2
<1>13. ASSUME NEW c \in Conns, Authenticate(c) \/ Register(c) \/ CloseConn(c) PROVE FileWatched'
  <2>1. UNCHANGED <<entries, file, inHead, timers, tasks, stage, unfolded>>
    BY <1>13 DEF Authenticate, Register, CloseConn, stored
  <2> QED
    BY <1>2, <2>1 DEF CommitToCome
<1>14. ASSUME NEW c \in Conns, UpdateLastSeen(c) PROVE FileWatched'
  <2>1. CASE StopInFlush(entries)
    BY <1>3, <2>1
  <2>2. CASE ~StopInFlush(entries)
    <3>1. UNCHANGED <<entries, inHead, tasks, stage>> /\ stage = "up"
      BY <1>14, <2>2, SeenEffect
    <3>2. CASE UNCHANGED <<file, bak, timers, unfolded>>
      BY <1>2, <3>1, <3>2 DEF CommitToCome
    <3>3. CASE /\ file \in {entries, Corrupt} /\ file' = entries
               /\ unfolded \/ file = Corrupt => unfolded'
      BY <1>0, <1>1, <3>1, <3>3 DEF CommitToCome
    <3> QED
      BY <1>14, <2>2, <3>2, <3>3, SeenEffect
  <2> QED
    BY <2>1, <2>2
<1>15. CASE UNCHANGED accessVars
  BY <1>2, <1>15 DEF accessVars, stored, CommitToCome
<1> QED
  BY <1>3, <1>4, <1>5, <1>6, <1>7, <1>8, <1>9, <1>10, <1>11, <1>12, <1>13, <1>14, <1>15
  DEF AccessNext, KeyRequest

LEMMA AccessInitInv == AccessInit => AccessInv
<1> SUFFICES ASSUME AccessInit PROVE AccessInv
  OBVIOUS
<1>1. Corrupt \in Tables /\ Bootstrap \in Tables /\ FirstName \in KeyNames
  BY FirstTables
<1>2. Bootstrap # Corrupt /\ \A custom : Admins(Bootstrap, custom) # {}
  <2>1. Bootstrap[FirstName] = [role |-> "admin", hash |-> 1]
    BY <1>1 DEF Bootstrap, Tables
  <2>2. Bootstrap[FirstName] # NoKey /\ \A custom : Grants(Bootstrap[FirstName].role, custom) = "admin"
    BY <2>1 DEF NoKey, Grants
  <2> QED
    BY <1>1, <2>2, AdminParses DEF Admins, HeldKeys
<1>3. AccessTypeOK
  BY <1>1 DEF AccessInit, AccessTypeOK, Off, SessionType
<1>4. TablesHaveAdmin
  BY <1>2 DEF AccessInit, TablesHaveAdmin, AdminRemains, Readable
<1>5. SessionsWatched /\ FileWatched
  BY DEF AccessInit, SessionsWatched, FileWatched, Off
<1> QED
  BY <1>3, <1>4, <1>5 DEF AccessInv

\* The invariant of the keys of a vault.
THEOREM KeysInvariant == ASSUME NoLapse PROVE AccessSpec => []AccessInv
<1>1. AccessInv /\ [AccessNext]_accessVars => AccessInv'
  BY AccessTypeStep, AdminStep, SessionsStep, FileStep DEF AccessInv
<1> QED
  BY <1>1, AccessInitInv, PTL DEF AccessSpec

\* Of the keys that the next start reads, one has vault.admin by the roles file.
THEOREM AdminStays == ASSUME NoLapse PROVE AccessSpec => []AdminRemains
<1>1. AccessInv => AdminRemains
  BY DEF AccessInv, TablesHaveAdmin
<1> QED
  BY <1>1, KeysInvariant, PTL

\* Once reloads and requests are through, a session has what its key has.
THEOREM SessionsAreAsKeys == ASSUME NoLapse PROVE AccessSpec => []SessionsFollowAccess
<1>1. AccessInv => SessionsFollowAccess
  BY DEF AccessInv, SessionsWatched, SessionsFollowAccess, StillAsWas, On
<1> QED
  BY <1>1, KeysInvariant, PTL

\* Then memory has what the file has, and HEAD too.
THEOREM AccessStaysInStep == ASSUME NoLapse PROVE AccessSpec => []AccessInStep
<1>1. AccessInv => AccessInStep
  BY DEF AccessInv, FileWatched, AccessInStep
<1> QED
  BY <1>1, KeysInvariant, PTL
-----------------------------------------------------------------------------
(***************************************************************************)
(* WebPanel                                                                *)
(***************************************************************************)
NoSlip == Slips = {}

\* A form is posted to the vault that it is about.
LEMMA FormPosts ==
  ASSUME NoSlip, NEW form
  PROVE  PostsTo(form) = {form.vault}
BY DEF PostsTo, Selected, NoSlip

\* A write of an access file is seen by the watcher of a mounted vault.
LEMMA RekeyedKnows ==
  ASSUME NoSlip, PanelTypeOK, StoresKnow, NEW m \in Mounts, NEW ks \in SUBSET Keys,
         Rekeyed(m, ks)
  PROVE  /\ keys' \in [Mounts -> SUBSET Keys] /\ StoresKnow'
         /\ UNCHANGED <<gateway, mounted, known, cookie, latest, configs>>
<1>1. /\ keys' = [keys EXCEPT ![m] = ks] /\ changed' = changed \cup ({m} \cap mounted)
      /\ UNCHANGED <<gateway, mounted, known, cookie, latest, configs>>
  BY DEF Rekeyed, NoSlip, cookies
<1>2. \A n \in Mounts \ {m} : keys'[n] = keys[n]
  BY <1>1 DEF PanelTypeOK
<1> QED
  BY <1>1, <1>2 DEF PanelTypeOK, StoresKnow

\* Of the vaults that are mounted and have no event to handle, it knows the keys.
LEMMA StoresStep ==
  ASSUME NoSlip, PanelTypeOK, StoresKnow, [PanelNext]_panelVars
  PROVE  StoresKnow' /\ {keys', known'} \subseteq [Mounts -> SUBSET Keys] /\ mounted' \subseteq Mounts
<1> DEFINE Goal == /\ StoresKnow' /\ {keys', known'} \subseteq [Mounts -> SUBSET Keys]
                   /\ mounted' \subseteq Mounts
<1>1. ASSUME UNCHANGED <<keys, mounted, known, changed>> PROVE Goal
  BY <1>1 DEF StoresKnow, PanelTypeOK
<1>2. ASSUME NEW m \in Mounts, NEW ks \in SUBSET Keys, Rekeyed(m, ks) PROVE Goal
  BY <1>2, RekeyedKnows DEF PanelTypeOK
<1>3. ASSUME NEW m \in Mounts PROVE keys[m] \in SUBSET Keys
  BY DEF PanelTypeOK
<1>4. ASSUME NEW m \in Mounts, Rekey(m) PROVE Goal
  BY <1>2, <1>3, <1>4 DEF Rekey
<1>5. ASSUME NEW t \in Tabs, KeysPost(t) PROVE Goal
  <2>1. PICK m \in PostsTo(tab[t]), k \in Keys :
          Rekeyed(m, keys[m] \cup {k}) \/ Rekeyed(m, keys[m] \ {k})
    BY <1>5 DEF KeysPost
  <2>2. m \in Mounts
    BY <1>5, <2>1, FormPosts DEF KeysPost, Posting, PanelTypeOK
  <2> QED
    BY <1>2, <1>3, <2>1, <2>2
<1>6. ASSUME NEW m \in Mounts, Reload(m) PROVE Goal
  BY <1>6 DEF Reload, StoresKnow, PanelTypeOK, onServer
<1>7. CASE NewStores
  BY <1>7 DEF NewStores, StoresKnow, PanelTypeOK, onServer
<1>8. CASE WatchVaults
  BY <1>1, <1>8 DEF WatchVaults, onServer
<1>9. CASE ReloadConfig
  BY <1>9 DEF ReloadConfig, StoresKnow, PanelTypeOK, onServer, NoSlip
<1>10. ASSUME NEW m \in Mounts, PeerPush(m) \/ Commit(m) PROVE Goal
  BY <1>1, <1>10 DEF PeerPush, Commit, stores
<1>11. ASSUME NEW t \in Tabs,
              \/ Login(t) \/ LoginPost(t) \/ Logout(t) \/ LogoutPost(t)
              \/ OpenPanel(t) \/ ClosePanel(t) \/ Save(t) \/ PushFile(t)
       PROVE  Goal
  BY <1>1, <1>11
  DEF Login, LoginPost, Logout, LogoutPost, OpenPanel, ClosePanel, Save, PushFile, Sent, onServer,
      stores
<1>12. CASE UNCHANGED panelVars
  BY <1>1, <1>12 DEF panelVars, onServer, stores
<1> QED
  BY <1>4, <1>5, <1>6, <1>7, <1>8, <1>9, <1>10, <1>11, <1>12 DEF PanelNext

\* The steps of the tabs, which keep the rest of PanelTypeOK.
LEMMA TabTypes ==
  ASSUME NoSlip, PanelTypeOK, [PanelNext]_panelVars
  PROVE  /\ tab' = [t \in Tabs |-> tab'[t]]
         /\ \A t \in Tabs : tab'[t].at = "form" => {tab'[t].panel, tab'[t].vault} \subseteq Mounts
<1> DEFINE Goal ==
      /\ tab' = [t \in Tabs |-> tab'[t]]
      /\ \A t \in Tabs : tab'[t].at = "form" => {tab'[t].panel, tab'[t].vault} \subseteq Mounts
<1>1. CASE tab' = tab
  BY <1>1 DEF PanelTypeOK
<1>2. ASSUME NEW t \in Tabs, NEW r, tab' = [tab EXCEPT ![t] = r],
             r.at = "form" => {r.panel, r.vault} \subseteq Mounts
      PROVE  Goal
  BY <1>2 DEF PanelTypeOK
<1>3. NoForm.at = "blank"
  BY DEF NoForm
<1>4. ASSUME NEW t \in Tabs, Login(t) PROVE Goal
  BY <1>2, <1>4 DEF Login, Sent
<1>5. ASSUME NEW t \in Tabs, Logout(t) PROVE Goal
  BY <1>2, <1>5 DEF Logout, Sent
<1>6. ASSUME NEW t \in Tabs,
             LoginPost(t) \/ LogoutPost(t) \/ ClosePanel(t) \/ PushFile(t) \/ KeysPost(t)
      PROVE  Goal
  BY <1>2, <1>3, <1>6 DEF LoginPost, LogoutPost, ClosePanel, PushFile, KeysPost
<1>7. ASSUME NEW t \in Tabs, OpenPanel(t) PROVE Goal
  <2>1. PICK p \in Mounts, want \in Mounts :
          LET m == Selected(p, want, ServerWide(cookie[p]))
          IN  tab' = [tab EXCEPT ![t] =
                        [at |-> "form", panel |-> p, vault |-> m, shown |-> configs[m].disk]]
    BY <1>7 DEF OpenPanel, Sent
  <2>2. Selected(p, want, ServerWide(cookie[p])) \in Mounts
    BY DEF Selected
  <2> QED
    BY <1>2, <2>1, <2>2
<1>8. ASSUME NEW t \in Tabs, Save(t) PROVE Goal
  BY <1>2, <1>8 DEF Save, Sent
<1>9. CASE NewStores
  BY <1>3, <1>9 DEF NewStores
<1>10. CASE WatchVaults \/ ReloadConfig \/ UNCHANGED panelVars
  BY <1>1, <1>10 DEF WatchVaults, ReloadConfig, panelVars
<1>11. ASSUME NEW m \in Mounts, Rekey(m) \/ Reload(m) \/ PeerPush(m) \/ Commit(m) PROVE Goal
  BY <1>1, <1>11 DEF Rekey, Reload, PeerPush, Commit
<1> QED
  BY <1>4, <1>5, <1>6, <1>7, <1>8, <1>9, <1>10, <1>11 DEF PanelNext

\* One tab at a time signs in or out, on the cookie that the browser has.
LEMMA CookieStep ==
  ASSUME NoSlip, PanelTypeOK, CookieInHand, [PanelNext]_panelVars
  PROVE  CookieInHand'
<1>0. /\ tab = [t \in Tabs |-> tab[t]]
      /\ \A t, u \in Signing : t = u
      /\ \A t \in Signing : tab[t].cookie = cookie
      /\ \A m \in Mounts : latest[m] # Unbound => cookie[m] = latest[m]
  BY DEF PanelTypeOK, CookieInHand
<1>1. ASSUME UNCHANGED <<cookie, latest>>,
             \A t \in Tabs : tab'[t].at \in {"login", "logout"} => tab'[t] = tab[t]
      PROVE  CookieInHand'
  BY <1>0, <1>1 DEF CookieInHand, Signing
<1>2. ASSUME NEW t \in Tabs, NEW r, UNCHANGED <<cookie, latest>>,
             tab' = [tab EXCEPT ![t] = r], r.at \notin {"login", "logout"}
      PROVE  CookieInHand'
  BY <1>0, <1>1, <1>2
<1>3. NoForm.at = "blank"
  BY DEF NoForm
<1>4. ASSUME NEW t \in Tabs, NEW r, UNCHANGED <<cookie, latest>>, Signing = {},
             tab' = [tab EXCEPT ![t] = r], r.cookie = cookie
      PROVE  CookieInHand'
  <2>1. Signing' \subseteq {t}
    BY <1>0, <1>4 DEF Signing
  <2>2. tab'[t].cookie = cookie
    BY <1>0, <1>4
  <2> QED
    BY <1>0, <1>4, <2>1, <2>2 DEF CookieInHand
<1>5. ASSUME NEW t \in Tabs, Login(t) \/ Logout(t) PROVE CookieInHand'
  <2>1. Signing = {} /\ UNCHANGED <<cookie, latest>>
    BY <1>5 DEF Login, Logout, Sent, NoSlip, cookies
  <2>2. CASE Login(t)
    <3>1. PICK k \in Keys : tab' = [tab EXCEPT ![t] =
                                     [at |-> "login", token |-> k, cookie |-> cookie]]
      BY <2>2 DEF Login, Sent
    <3> DEFINE r == [at |-> "login", token |-> k, cookie |-> cookie]
    <3>2. r.cookie = cookie
      OBVIOUS
    <3> HIDE DEF r
    <3>3. tab' = [tab EXCEPT ![t] = r]
      BY <3>1 DEF r
    <3> QED
      BY <1>4, <2>1, <3>2, <3>3
  <2>3. CASE Logout(t)
    <3>1. PICK ms : tab' = [tab EXCEPT ![t] =
                              [at |-> "logout", vaults |-> ms, cookie |-> cookie]]
      BY <2>3 DEF Logout, Sent
    <3> DEFINE r == [at |-> "logout", vaults |-> ms, cookie |-> cookie]
    <3>2. r.cookie = cookie
      OBVIOUS
    <3> HIDE DEF r
    <3>3. tab' = [tab EXCEPT ![t] = r]
      BY <3>1 DEF r
    <3> QED
      BY <1>4, <2>1, <3>2, <3>3
  <2> QED
    BY <1>5, <2>2, <2>3
<1>6. ASSUME NEW t \in Tabs, LoginPost(t) \/ LogoutPost(t) PROVE CookieInHand'
  <2>1. t \in Signing /\ tab[t].cookie = cookie /\ tab' = [tab EXCEPT ![t] = NoForm]
    BY <1>0, <1>6 DEF LoginPost, LogoutPost, Signing
  <2>2. Signing' = {}
    <3>1. \A u \in Tabs : u # t => tab'[u] = tab[u] /\ tab[u].at \notin {"login", "logout"}
      BY <1>0, <2>1 DEF Signing
    <3>2. tab'[t].at = "blank"
      BY <1>0, <1>3, <2>1
    <3> QED
      BY <3>1, <3>2 DEF Signing
  <2>3. \A m \in Mounts : latest'[m] # Unbound => cookie'[m] = latest'[m]
    <3>1. CASE LogoutPost(t)
      BY <1>0, <2>1, <3>1 DEF LogoutPost, RemoveBindings
    <3>2. CASE LoginPost(t)
      <4> DEFINE opened == Probe(tab[t].token)
                 k == tab[t].token
      <4>1. CASE /\ cookie' = MergeSessionBindings(tab[t].cookie, opened, k)
                 /\ latest' = [m \in Mounts |-> IF m \in opened THEN k ELSE Unbound]
        <5>1. \A m \in Mounts : m \in opened => cookie'[m] = k
          BY <4>1 DEF MergeSessionBindings
        <5>2. \A m \in Mounts : latest'[m] # Unbound => m \in opened /\ latest'[m] = k
          BY <4>1
        <5> QED
          BY <5>1, <5>2
      <4>2. CASE UNCHANGED cookies
        BY <1>0, <4>2 DEF cookies
      <4> QED
        BY <3>2, <4>1, <4>2 DEF LoginPost
    <3> QED
      BY <1>6, <3>1, <3>2
  <2> QED
    BY <2>2, <2>3 DEF CookieInHand
<1>7. ASSUME NEW t \in Tabs, ClosePanel(t) \/ PushFile(t) \/ KeysPost(t) PROVE CookieInHand'
  <2>1. UNCHANGED <<cookie, latest>> /\ tab' = [tab EXCEPT ![t] = NoForm]
    BY <1>7 DEF ClosePanel, PushFile, KeysPost, Rekeyed, cookies
  <2> QED
    BY <1>2, <1>3, <2>1
<1>8. ASSUME NEW t \in Tabs, OpenPanel(t) PROVE CookieInHand'
  BY <1>2, <1>8 DEF OpenPanel, Sent, cookies
<1>9. ASSUME NEW t \in Tabs, Save(t) PROVE CookieInHand'
  BY <1>2, <1>9 DEF Save, Sent, cookies
<1>10. CASE NewStores
  BY <1>1, <1>3, <1>10 DEF NewStores, cookies
<1>11. CASE WatchVaults \/ ReloadConfig \/ UNCHANGED panelVars
  BY <1>1, <1>11 DEF WatchVaults, ReloadConfig, panelVars, cookies
<1>12. ASSUME NEW m \in Mounts, Rekey(m) \/ Reload(m) \/ PeerPush(m) \/ Commit(m)
       PROVE  CookieInHand'
  BY <1>1, <1>12 DEF Rekey, Rekeyed, Reload, PeerPush, Commit, cookies
<1> QED
  BY <1>5, <1>6, <1>7, <1>8, <1>9, <1>10, <1>11, <1>12 DEF PanelNext

\* A save goes where its form was, and it is taken only while HEAD is what that
\* form showed.
LEMMA SaveStep ==
  ASSUME NoSlip, PanelTypeOK, SavesAsShown, PanelActsOnWhatItShows, [PanelNext]_panelVars
  PROVE  SavesAsShown' /\ PanelActsOnWhatItShows'
<1>0. tab = [t \in Tabs |-> tab[t]] /\ ~blind
  BY DEF PanelTypeOK, PanelActsOnWhatItShows
<1>1. ASSUME blind' = blind, \A t \in Tabs : tab'[t].at = "push" => tab'[t] = tab[t]
      PROVE  SavesAsShown' /\ PanelActsOnWhatItShows'
  BY <1>0, <1>1 DEF SavesAsShown, PanelActsOnWhatItShows
<1>2. ASSUME NEW t \in Tabs, NEW r, tab' = [tab EXCEPT ![t] = r], ~blind',
             r.at = "push" => r.form = r.vault /\ r.shown = r.pre
      PROVE  SavesAsShown' /\ PanelActsOnWhatItShows'
  BY <1>0, <1>2 DEF SavesAsShown, PanelActsOnWhatItShows
<1>3. NoForm.at = "blank"
  BY DEF NoForm
<1>4. ASSUME NEW t \in Tabs, Login(t) PROVE SavesAsShown' /\ PanelActsOnWhatItShows'
  BY <1>0, <1>2, <1>4 DEF Login, Sent
<1>5. ASSUME NEW t \in Tabs, Logout(t) PROVE SavesAsShown' /\ PanelActsOnWhatItShows'
  BY <1>0, <1>2, <1>5 DEF Logout, Sent
<1>6. ASSUME NEW t \in Tabs, OpenPanel(t) PROVE SavesAsShown' /\ PanelActsOnWhatItShows'
  BY <1>0, <1>2, <1>6 DEF OpenPanel, Sent
<1>7. ASSUME NEW t \in Tabs, LoginPost(t) \/ LogoutPost(t) \/ ClosePanel(t)
      PROVE  SavesAsShown' /\ PanelActsOnWhatItShows'
  BY <1>0, <1>2, <1>3, <1>7 DEF LoginPost, LogoutPost, ClosePanel
<1>8. ASSUME NEW t \in Tabs, Save(t) PROVE SavesAsShown' /\ PanelActsOnWhatItShows'
  <2>1. PICK m \in PostsTo(tab[t]) :
          /\ configs[m].disk = tab[t].shown
          /\ Sent(t, [at |-> "push", key |-> cookie[tab[t].panel], vault |-> m,
                      pre |-> configs[m].disk, form |-> tab[t].vault, shown |-> tab[t].shown])
    BY <1>8 DEF Save, NoSlip
  <2>2. m = tab[t].vault
    BY <2>1, FormPosts
  <2> QED
    BY <1>0, <1>2, <2>1, <2>2 DEF Sent
<1>9. ASSUME NEW t \in Tabs, PushFile(t) PROVE SavesAsShown' /\ PanelActsOnWhatItShows'
  <2>1. tab' = [tab EXCEPT ![t] = NoForm]
    BY <1>9 DEF PushFile
  <2>2. tab[t].form = tab[t].vault /\ tab[t].shown = tab[t].pre
    BY <1>9 DEF PushFile, SavesAsShown
  <2>3. ~blind'
    BY <1>0, <1>9, <2>2 DEF PushFile, StaleBase
  <2> QED
    BY <1>2, <1>3, <2>1, <2>3
<1>10. ASSUME NEW t \in Tabs, KeysPost(t) PROVE SavesAsShown' /\ PanelActsOnWhatItShows'
  <2>1. ~blind' /\ tab' = [tab EXCEPT ![t] = NoForm]
    BY <1>0, <1>10, FormPosts DEF KeysPost
  <2> QED
    BY <1>2, <1>3, <2>1
<1>11. CASE NewStores
  BY <1>1, <1>3, <1>11 DEF NewStores
<1>12. CASE WatchVaults \/ ReloadConfig \/ UNCHANGED panelVars
  BY <1>1, <1>12 DEF WatchVaults, ReloadConfig, panelVars
<1>13. ASSUME NEW m \in Mounts, Rekey(m) \/ Reload(m) \/ PeerPush(m) \/ Commit(m)
       PROVE  SavesAsShown' /\ PanelActsOnWhatItShows'
  BY <1>1, <1>13 DEF Rekey, Reload, PeerPush, Commit
<1> QED
  BY <1>4, <1>5, <1>6, <1>7, <1>8, <1>9, <1>10, <1>11, <1>12, <1>13 DEF PanelNext

LEMMA PanelInitInv == PanelInit => PanelInv
<1> SUFFICES ASSUME PanelInit PROVE PanelInv
  OBVIOUS
<1>1. PanelTypeOK
  BY DEF PanelInit, PanelTypeOK, NoForm
<1>2. StoresKnow /\ CookieInHand
  BY DEF PanelInit, StoresKnow, CookieInHand, Signing, NoForm, NoCookie
<1>3. SavesAsShown /\ PanelActsOnWhatItShows
  BY DEF PanelInit, SavesAsShown, PanelActsOnWhatItShows, NoForm
<1> QED
  BY <1>1, <1>2, <1>3 DEF PanelInv

\* The invariant of the gateway's stores, the cookie and the panel.
THEOREM PanelInvariant == ASSUME NoSlip PROVE PanelSpec => []PanelInv
<1>1. PanelInv /\ [PanelNext]_panelVars => PanelInv'
  BY StoresStep, TabTypes, CookieStep, SaveStep DEF PanelInv, PanelTypeOK
<1> QED
  BY <1>1, PanelInitInv, PTL DEF PanelSpec

\* A vault is open to the browser as long as its key is in the access file, and the
\* cookie has what the user signed in to last.
THEOREM SignedInIsCurrent == ASSUME NoSlip PROVE PanelSpec => []SessionsAreCurrent
<1>1. PanelInv => SessionsAreCurrent
  BY DEF PanelInv, PanelTypeOK, StoresKnow, CookieInHand, SessionsAreCurrent, Opens
<1> QED
  BY <1>1, PanelInvariant, PTL

\* What an admin does in the panel happens to the vault of the form, and a save
\* replaces what the form showed.
THEOREM PanelActsAsShown == ASSUME NoSlip PROVE PanelSpec => []PanelActsOnWhatItShows
<1>1. PanelInv => PanelActsOnWhatItShows
  BY DEF PanelInv
<1> QED
  BY <1>1, PanelInvariant, PTL
-----------------------------------------------------------------------------
(***************************************************************************)
(* History: reverts, restores, tags, reviews, publishes, logs and diffs    *)
(***************************************************************************)
NoGap == Gaps = {}

\* The lesser of two numbers.
LEMMA MinOfTwo ==
  ASSUME NEW a \in Nat, NEW b \in Nat
  PROVE  Min({a, b}) = IF a <= b THEN a ELSE b
<1>1. CASE a <= b
  <2>1. \A x \in {a, b} : (\A y \in {a, b} : x <= y) <=> x = a
    BY <1>1
  <2> QED BY <1>1, <2>1 DEF Min
<1>2. CASE b < a
  <2>1. \A x \in {a, b} : (\A y \in {a, b} : x <= y) <=> x = b
    BY <1>2
  <2> QED BY <1>2, <2>1 DEF Min
<1> QED BY <1>1, <1>2

\* A sequence with another element at i.
LEMMA SeqPut ==
  ASSUME NEW T, NEW s \in Seq(T), NEW i \in DOMAIN s, NEW x \in T
  PROVE  /\ [s EXCEPT ![i] = x] \in Seq(T) /\ DOMAIN [s EXCEPT ![i] = x] = DOMAIN s
         /\ Len([s EXCEPT ![i] = x]) = Len(s) /\ [s EXCEPT ![i] = x][i] = x
         /\ \A j \in DOMAIN s : j # i => [s EXCEPT ![i] = x][j] = s[j]
OBVIOUS

\* A set of numbers up to n has a greatest member.
LEMMA MaxOfCommits ==
  ASSUME NEW n \in Nat, NEW S, S \subseteq 1 .. n, S # {}
  PROVE  Max(S) \in S
<1> DEFINE T == {n - m : m \in S}
<1>1. T \subseteq Nat /\ T # {}
  <2>1. \A m \in S : n - m \in Nat
    OBVIOUS
  <2>2. PICK m \in S : TRUE
    OBVIOUS
  <2>3. n - m \in T
    OBVIOUS
  <2> QED BY <2>1, <2>3
<1>2. PICK k \in T : \A l \in T : k <= l
  <2> HIDE DEF T
  <2> QED BY <1>1, LeastNatural, Zenon
<1>3. PICK m \in S : k = n - m
  BY <1>2
<1>4. \A l \in S : m >= l
  BY <1>2, <1>3
<1> QED BY <1>3, <1>4 DEF Max

LEMMA EmptyTreeType == EmptyTree \in Trees /\ NoPending \in StagedOps
BY HistoryBoundsAssumption DEF EmptyTree, Trees, Texts, NoPending, StagedOps

LEMMA RefNameType == NoName \notin RefNames /\ NoName \notin Notes /\ Len(Reviews) \in Nat \ {0}
  /\ \A k \in 1 .. Len(Reviews) : Reviews[k] \in RefNames
<1>1. Len(Reviews) \in Nat \ {0} /\ DOMAIN Reviews = 1 .. Len(Reviews)
  BY ReviewsAssumption
<1> QED BY <1>1, NamesAssumption DEF RefNames, Range

-----------------------------------------------------------------------------
(***************************************************************************)
(* Commits are never changed, but for the ops that HEAD brought            *)
(***************************************************************************)
Grows ==
  /\ commits' \in Seq(Commits) /\ HeadIndex' >= HeadIndex
  /\ \A k \in 1 .. HeadIndex :
       commits'[k].tree = commits[k].tree /\ commits[k].ops \subseteq commits'[k].ops

LEMMA OpsGrow ==
  ASSUME HistoryTypeOK, Grows
  PROVE  \A k \in 1 .. HeadIndex : OpsUpTo(k) \subseteq OpsUpTo(k)'
BY DEF HistoryTypeOK, Grows, OpsUpTo, HeadIndex

LEMMA OpsInOrder ==
  ASSUME HistoryTypeOK
  PROVE  \A k \in 0 .. HeadIndex : OpsUpTo(k) \subseteq OpsUpTo(HeadIndex)
<1>1. HeadIndex \in Nat
  BY DEF HistoryTypeOK, HeadIndex
<1>2. \A k \in 0 .. HeadIndex : 1 .. k \subseteq 1 .. HeadIndex
  BY <1>1
<1> QED BY <1>2 DEF OpsUpTo

LEMMA HeadType ==
  ASSUME HistoryTypeOK
  PROVE  /\ HeadIndex \in Nat \ {0} /\ HeadOf(commits) = commits[HeadIndex].tree
         /\ HeadOf(commits) \in Trees
         /\ \A k \in 1 .. HeadIndex : commits[k] \in Commits /\ commits[k].tree \in Trees
<1>1. commits \in Seq(Commits) /\ Len(commits) \in Nat \ {0}
  BY DEF HistoryTypeOK
<1>2. \A k \in 1 .. Len(commits) : commits[k] \in Commits
  BY <1>1
<1>3. \A commit \in Commits : commit.tree \in Trees
  BY DEF Commits
<1> QED BY <1>1, <1>2, <1>3 DEF HeadIndex, HeadOf, Last

\* What does not change the commits lets them grow.
LEMMA SameGrow ==
  ASSUME HistoryTypeOK, UNCHANGED commits
  PROVE  Grows
BY DEF HistoryTypeOK, Grows, HeadIndex

LEMMA ChangesType ==
  ASSUME NEW from \in Trees, NEW to \in Trees
  PROVE  /\ Changes(from, to) \in Frames
         /\ DOMAIN Changes(from, to) = {p \in Notes : from[p] # to[p]}
         /\ \A p \in DOMAIN Changes(from, to) : Changes(from, to)[p] = to[p]
<1>1. Changes(from, to) \in [{p \in Notes : from[p] # to[p]} -> Texts]
  BY DEF Changes, Trees
<1> QED BY <1>1 DEF Changes, Frames

LEMMA OverlaidType ==
  ASSUME NEW tree \in Trees, NEW changes \in Frames
  PROVE  Overlaid(tree, changes) \in Trees
<1>1. PICK S \in SUBSET Notes : changes \in [S -> Texts]
  BY DEF Frames
<1> QED BY <1>1 DEF Overlaid, Trees

LEMMA CallType ==
  ASSUME HistoryTypeOK
  PROVE  /\ Len(calls) \in Nat /\ DOMAIN calls = 1 .. Len(calls)
         /\ \A i \in DOMAIN calls : calls[i] \in Calls
BY DEF HistoryTypeOK

\* Call i is what it was, or has lost its tag.
SameCall(i) ==
  /\ calls'[i].kind = calls[i].kind /\ calls'[i].at = calls[i].at
  /\ calls'[i].name = calls[i].name /\ calls'[i].commit = calls[i].commit
  /\ calls'[i].pinned = calls[i].pinned /\ calls'[i].tree = calls[i].tree
  /\ calls'[i].upTo = calls[i].upTo /\ calls'[i].todo = calls[i].todo
  /\ calls'[i].shown = calls[i].shown
  /\ calls'[i].ref # NoName => calls'[i].ref = calls[i].ref /\ tags'[calls[i].ref] = tags[calls[i].ref]

\* A call that a step leaves alone, or whose tag it deletes, still holds.
LEMMA CallStays ==
  ASSUME HistoryInv, Grows, NEW i \in DOMAIN calls,
         acks' \in Nat, acks' >= acks,
         SameCall(i),
         \A c \in Peers : \/ pending'[c] \in {pending[c], NoPending}
                          \/ pending'[c].id > acks
  PROVE  NamesCommit(i)' /\ ShowsHistory(i)'
<1>1. /\ calls[i] \in Calls /\ NamesCommit(i) /\ ShowsHistory(i)
      /\ HistoryTypeOK /\ HeadIndex \in Nat /\ acks \in Nat
  BY HeadType, CallType DEF HistoryInv, HistoryTypeOK
<1>2. SameCall(i)
  OBVIOUS
<1>3. /\ calls[i].commit \in 0 .. HeadIndex /\ calls[i].upTo \in 0 .. acks
      /\ calls[i].shown \in Seq(Nat)
  <2>1. calls[i].commit \in Nat /\ calls[i].upTo \in Nat /\ calls[i].shown \in Seq(Nat)
    BY <1>1 DEF Calls
  <2>2. calls[i].commit <= HeadIndex /\ calls[i].upTo <= acks
    BY <1>1 DEF NamesCommit
  <2> QED BY <1>1, <2>1, <2>2
<1>4. HeadIndex' \in Nat /\ HeadIndex' >= HeadIndex
  BY DEF Grows, HeadIndex
<1>5. \A k \in 1 .. HeadIndex : commits'[k].tree = commits[k].tree
  BY DEF Grows
<1>6. \A k \in 1 .. HeadIndex : OpsUpTo(k) \subseteq OpsUpTo(k)'
  BY <1>1, OpsGrow
<1>7. NamesCommit(i)'
  <2>1. calls'[i].commit <= HeadIndex' /\ calls'[i].upTo <= acks'
    <3>1. calls'[i].commit = calls[i].commit /\ calls'[i].upTo = calls[i].upTo
      BY <1>2 DEF SameCall
    <3> QED BY <1>1, <1>3, <1>4, <3>1
  <2>2. /\ calls'[i].kind \in {"tag", "review"} \/ calls'[i].at = "again" => calls'[i].name # NoName
        /\ calls'[i].kind \in {"revert", "restore"} => calls'[i].commit # 0
    BY <1>1, <1>2 DEF SameCall, NamesCommit
  <2>3. calls'[i].tree # EmptyTree =>
          calls'[i].commit # 0 /\ commits'[calls'[i].commit].tree = calls'[i].tree
    <3>1. calls'[i].commit = calls[i].commit /\ calls'[i].tree = calls[i].tree
      BY <1>2 DEF SameCall
    <3>2. calls[i].tree # EmptyTree =>
            calls[i].commit # 0 /\ commits[calls[i].commit].tree = calls[i].tree
      BY <1>1 DEF NamesCommit
    <3> QED BY <1>1, <1>3, <1>5, <3>1, <3>2
  <2>4. ~calls'[i].pinned /\ calls'[i].commit # 0 =>
          1 .. calls'[i].upTo \subseteq OpsUpTo(calls[i].commit)'
    <3>1. /\ calls'[i].commit = calls[i].commit /\ calls'[i].upTo = calls[i].upTo
          /\ calls'[i].pinned = calls[i].pinned
      BY <1>2 DEF SameCall
    <3>2. ~calls[i].pinned /\ calls[i].commit # 0 =>
            1 .. calls[i].upTo \subseteq OpsUpTo(calls[i].commit)
      BY <1>1 DEF NamesCommit
    <3>3. calls[i].commit # 0 =>
            OpsUpTo(calls[i].commit) \subseteq UNION {commits'[j].ops : j \in 1 .. calls'[i].commit}
      <4>1. calls[i].commit # 0 => calls[i].commit \in 1 .. HeadIndex
        BY <1>1, <1>3
      <4>2. \A k \in 1 .. HeadIndex : OpsUpTo(k) \subseteq UNION {commits'[j].ops : j \in 1 .. k}
        BY <1>6 DEF OpsUpTo
      <4> QED BY <3>1, <4>1, <4>2
    <3> QED BY <3>1, <3>2, <3>3 DEF OpsUpTo
  <2>5. calls'[i].ref # NoName =>
          /\ calls'[i].kind \in {"tag", "review"}
          /\ calls'[i].commit # 0 /\ tags'[calls'[i].ref] = calls'[i].commit
    BY <1>1, <1>2 DEF SameCall, NamesCommit
  <2> QED BY <2>1, <2>2, <2>3, <2>4, <2>5 DEF NamesCommit, OpsUpTo
<1>8. ShowsHistory(i)'
  <2>1. /\ calls'[i].kind = calls[i].kind /\ calls'[i].at = calls[i].at
        /\ calls'[i].upTo = calls[i].upTo /\ calls'[i].todo = calls[i].todo
        /\ calls'[i].shown = calls[i].shown
    BY <1>2 DEF SameCall
  <2> SUFFICES ASSUME calls[i].kind \in {"log", "diff"} PROVE ShowsHistory(i)'
    BY <2>1 DEF ShowsHistory
  <2>2. calls[i].at = "flush" /\ calls[i].shown = << >> =>
          \A c \in Peers : pending'[c].id \in 1 .. calls[i].upTo => c \in calls[i].todo
    <3>1. ASSUME NEW c \in Peers, pending'[c].id \in 1 .. calls[i].upTo
          PROVE  pending[c].id = pending'[c].id
      <4>1. calls[i].upTo \in Nat /\ calls[i].upTo <= acks
        BY <1>1, <1>3
      <4>2. pending'[c] # NoPending
        <5>1. NoPending.id = 0
          BY DEF NoPending
        <5> QED BY <3>1, <4>1, <5>1
      <4> QED BY <1>1, <3>1, <4>1, <4>2
    <3> QED BY <1>1, <3>1 DEF ShowsHistory
  <2>3. calls[i].shown # << >> =>
          /\ calls[i].shown[1] \in 1 .. HeadIndex'
          /\ 1 .. calls[i].upTo \subseteq UNION {commits'[j].ops : j \in 1 .. calls[i].shown[1]}
    <3>1. calls[i].shown # << >> => calls[i].shown[1] \in 1 .. HeadIndex
      BY <1>1 DEF ShowsHistory
    <3>2. calls[i].shown # << >> => 1 .. calls[i].upTo \subseteq OpsUpTo(calls[i].shown[1])
      BY <1>1 DEF ShowsHistory
    <3>3. calls[i].shown # << >> => calls[i].shown[1] \in 1 .. HeadIndex'
      BY <1>1, <1>4, <3>1
    <3> QED BY <1>6, <3>1, <3>2, <3>3 DEF OpsUpTo
  <2> QED BY <1>1, <2>1, <2>2, <2>3 DEF ShowsHistory, OpsUpTo
<1> QED BY <1>7, <1>8
-----------------------------------------------------------------------------
(***************************************************************************)
(* What a client hears                                                     *)
(***************************************************************************)
\* A change that names the files whose due text changes reaches the client.
LEMMA Hears ==
  ASSUME NEW c \in Peers, NEW p \in Notes, NEW changes, HistoryTypeOK,
         Follows(c, p), frames'[c] = Append(frames[c], changes), view'[c] = view[c],
         p \in DOMAIN changes => changes[p] = Due(c, p)',
         p \notin DOMAIN changes => Due(c, p)' = Due(c, p)
  PROVE  Follows(c, p)'
<1> DEFINE n == Len(frames[c])
<1>1. /\ frames[c] \in Seq(Frames) /\ n \in Nat /\ DOMAIN frames[c] = 1 .. n
  BY DEF HistoryTypeOK
<1>2. /\ DOMAIN frames'[c] = 1 .. (n + 1) /\ frames'[c][n + 1] = changes
      /\ \A i \in 1 .. n : frames'[c][i] = frames[c][i]
  BY <1>1
<1> HIDE DEF n
<1>3. CASE p \in DOMAIN changes
  <2>1. n + 1 \in News(c, p)'
    BY <1>1, <1>2, <1>3 DEF News
  <2>2. \A i \in News(c, p)' : (\A j \in News(c, p)' : j <= i) => i = n + 1
    BY <1>1, <1>2, <2>1 DEF News
  <2> QED BY <1>2, <1>3, <2>1, <2>2 DEF Follows
<1>4. CASE p \notin DOMAIN changes
  <2>1. News(c, p)' = News(c, p)
    BY <1>1, <1>2, <1>4 DEF News
  <2>2. \A i \in News(c, p) : frames'[c][i] = frames[c][i]
    BY <1>1, <1>2 DEF News
  <2> QED BY <1>4, <2>1, <2>2 DEF Follows
<1> QED BY <1>3, <1>4

\* A step that says nothing to a client leaves what is due to it.
LEMMA HearsNothing ==
  ASSUME NEW c \in Peers, NEW p \in Notes, Follows(c, p),
         frames'[c] = frames[c], view'[c] = view[c], Due(c, p)' = Due(c, p)
  PROVE  Follows(c, p)'
BY DEF Follows, News

\* The next frame that a client reads, and what becomes of the rest.
LEMMA Reads ==
  ASSUME NEW c \in Peers, NEW p \in Notes, HistoryTypeOK, Follows(c, p), frames[c] # << >>,
         frames'[c] = Tail(frames[c]), view'[c] = Overlaid(view[c], Head(frames[c])),
         Due(c, p)' = Due(c, p)
  PROVE  Follows(c, p)'
<1> DEFINE n == Len(frames[c])
<1>1. /\ frames[c] \in Seq(Frames) /\ n \in Nat \ {0} /\ DOMAIN frames[c] = 1 .. n
      /\ Head(frames[c]) = frames[c][1]
  BY DEF HistoryTypeOK
<1>2. /\ DOMAIN frames'[c] = 1 .. (n - 1)
      /\ \A i \in 1 .. (n - 1) : frames'[c][i] = frames[c][i + 1]
  BY <1>1
<1>3. view'[c][p] = IF p \in DOMAIN frames[c][1] THEN frames[c][1][p] ELSE view[c][p]
  BY <1>1 DEF Overlaid
<1> HIDE DEF n
<1>4. \A i \in 1 .. (n - 1) : i \in News(c, p)' <=> i + 1 \in News(c, p)
  BY <1>1, <1>2 DEF News
<1>5. News(c, p)' \subseteq 1 .. (n - 1) /\ News(c, p) \subseteq 1 .. n
  BY <1>1, <1>2 DEF News
<1>6. 1 \in News(c, p) <=> p \in DOMAIN frames[c][1]
  BY <1>1 DEF News
<1>7. CASE News(c, p)' = {}
  <2>1. News(c, p) \subseteq {1}
    <3>1. ASSUME NEW i \in News(c, p), i # 1 PROVE FALSE
      <4>1. i - 1 \in 1 .. (n - 1) /\ (i - 1) + 1 = i
        BY <1>1, <1>5, <3>1
      <4> QED BY <1>4, <1>7, <3>1, <4>1
    <3> QED BY <3>1
  <2>2. CASE News(c, p) = {}
    BY <1>3, <1>6, <1>7, <2>2 DEF Follows
  <2>3. CASE News(c, p) = {1}
    BY <1>3, <1>6, <1>7, <2>3 DEF Follows
  <2> QED BY <2>1, <2>2, <2>3
<1>8. CASE News(c, p)' # {}
  <2>1. ASSUME NEW i \in News(c, p)', \A j \in News(c, p)' : j <= i
        PROVE  frames'[c][i][p] = Due(c, p)
    <3>1. i \in 1 .. (n - 1) /\ i + 1 \in News(c, p)
      BY <1>4, <1>5
    <3>2. ASSUME NEW j \in News(c, p) PROVE j <= i + 1
      <4>1. j \in 1 .. n
        BY <1>5
      <4>2. CASE j = 1
        BY <3>1, <4>2
      <4>3. CASE j # 1
        <5>1. j - 1 \in 1 .. (n - 1) /\ (j - 1) + 1 = j
          BY <1>1, <4>1, <4>3
        <5>2. j - 1 \in News(c, p)'
          BY <1>4, <5>1
        <5> QED BY <2>1, <3>1, <4>1, <5>2
      <4> QED BY <4>2, <4>3
    <3> QED BY <1>2, <3>1, <3>2 DEF Follows
  <2> QED BY <1>8, <2>1 DEF Follows
<1> QED BY <1>7, <1>8
-----------------------------------------------------------------------------
(***************************************************************************)
(* New commits                                                             *)
(***************************************************************************)
LEMMA Appended ==
  ASSUME HistoryTypeOK, NEW commit \in Commits, commits' = Append(commits, commit)
  PROVE  /\ Grows /\ commits' # << >> /\ HeadIndex' = HeadIndex + 1
         /\ HeadOf(commits)' = commit.tree
         /\ commit.ops \subseteq OpsUpTo(HeadIndex)'
<1>1. commits \in Seq(Commits) /\ Len(commits) \in Nat
  BY DEF HistoryTypeOK
<1>2. /\ commits' \in Seq(Commits) /\ Len(commits') = Len(commits) + 1
      /\ commits'[Len(commits) + 1] = commit
      /\ \A k \in 1 .. Len(commits) : commits'[k] = commits[k]
  BY <1>1
<1>3. Grows /\ HeadIndex' = HeadIndex + 1 /\ commits' # << >>
  BY <1>1, <1>2 DEF Grows, HeadIndex
<1>4. HeadOf(commits)' = commit.tree
  BY <1>2 DEF HeadOf, Last
<1>5. Len(commits) + 1 \in 1 .. (Len(commits) + 1)
  BY <1>1
<1>6. commit.ops \subseteq OpsUpTo(HeadIndex)'
  BY <1>2, <1>5 DEF OpsUpTo, HeadIndex
<1> QED BY <1>3, <1>4, <1>6

\* A commit that changes nothing is none: HEAD brings the op.
LEMMA Brought ==
  ASSUME HistoryTypeOK, NEW id \in Nat,
         commits' = [commits EXCEPT ![HeadIndex].ops = @ \cup {id}]
  PROVE  /\ Grows /\ commits' # << >> /\ HeadIndex' = HeadIndex
         /\ HeadOf(commits)' = HeadOf(commits)
         /\ id \in OpsUpTo(HeadIndex)'
<1> DEFINE n == Len(commits)
    head == commits[n]
    commit == [head EXCEPT !.ops = @ \cup {id}]
<1>1. commits \in Seq(Commits) /\ n \in Nat /\ n > 0 /\ DOMAIN commits = 1 .. n
  BY DEF HistoryTypeOK
<1>2. head \in Commits /\ n \in 1 .. n
  BY <1>1
<1>3. /\ commit \in Commits /\ commit.tree = head.tree /\ head.ops \subseteq commit.ops
      /\ id \in commit.ops
  BY <1>2 DEF Commits
<1>4. commits' = [commits EXCEPT ![n] = commit]
  BY DEF HeadIndex
<1> HIDE DEF commit, n
<1>5. /\ commits' \in Seq(Commits) /\ Len(commits') = n /\ commits'[n] = commit
      /\ \A k \in 1 .. n : k # n => commits'[k] = commits[k]
  <2>1. /\ commits' = [k \in 1 .. n |-> commits'[k]] /\ commits'[n] = commit
        /\ \A k \in 1 .. n : k # n => commits'[k] = commits[k]
    BY <1>1, <1>2, <1>4
  <2>2. ASSUME NEW k \in 1 .. n PROVE commits'[k] \in Commits
    <3>1. commits[k] \in Commits
      BY <1>1
    <3>2. k = n \/ k # n
      OBVIOUS
    <3> HIDE <1>4
    <3> QED BY <1>3, <2>1, <3>1, <3>2
  <2> DEFINE cs == commits'
  <2>3. cs = [k \in 1 .. n |-> cs[k]] /\ \A k \in 1 .. n : cs[k] \in Commits
    BY <2>1, <2>2
  <2>4. cs \in Seq(Commits) /\ Len(cs) = n
    <3> HIDE DEF cs
    <3>1. cs \in [1 .. n -> Commits]
      BY <2>3
    <3> QED BY <1>1, <3>1
  <2> QED BY <2>1, <2>4
<1>6. Grows /\ HeadIndex' = HeadIndex /\ commits' # << >>
  BY <1>1, <1>2, <1>3, <1>5 DEF Grows, HeadIndex, n
<1>7. HeadOf(commits)' = HeadOf(commits)
  BY <1>3, <1>5 DEF HeadOf, Last, n
<1>8. id \in OpsUpTo(HeadIndex)'
  BY <1>2, <1>3, <1>5 DEF OpsUpTo, HeadIndex
<1> QED BY <1>6, <1>7, <1>8

LEMMA StillCommitted ==
  ASSUME HistoryTypeOK, Grows
  PROVE  OpsUpTo(HeadIndex) \subseteq OpsUpTo(HeadIndex)'
<1>1. HeadIndex \in Nat /\ HeadIndex' \in Nat /\ HeadIndex' >= HeadIndex
  BY DEF HistoryTypeOK, Grows, HeadIndex
<1>2. 1 .. HeadIndex \subseteq 1 .. HeadIndex'
  BY <1>1
<1>3. \A k \in 1 .. HeadIndex : commits[k].ops \subseteq commits'[k].ops
  BY DEF Grows
<1> QED BY <1>2, <1>3 DEF OpsUpTo

\* Revert, restore, publish: everyone hears of it, and nothing is pending for what
\* it changes.
LEMMA MoveStep ==
  ASSUME HistoryInv, NoGap, NEW tree \in Trees, Move(tree), NothingBeside(tree),
         UNCHANGED <<pushing, view>>
  PROVE  /\ Grows /\ commits' # << >> /\ frames' \in [Peers -> Seq(Frames)]
         /\ HeadIndex' = HeadIndex + 1 /\ HeadOf(commits)' = tree
         /\ AckedOnce' /\ ViewsFollowHead'
<1> DEFINE changes == Changes(HeadOf(commits), tree)
    commit == [tree |-> tree, ops |-> {}]
<1>1. HistoryTypeOK /\ AckedOnce /\ ViewsFollowHead /\ HeadOf(commits) \in Trees
  BY HeadType DEF HistoryInv
<1>2. /\ changes \in Frames /\ DOMAIN changes = {p \in Notes : HeadOf(commits)[p] # tree[p]}
      /\ \A p \in DOMAIN changes : changes[p] = tree[p]
  BY <1>1, ChangesType
<1>3. commit \in Commits /\ commit.tree = tree /\ commits' = Append(commits, commit)
  BY DEF Move, Commits
<1>4. /\ Grows /\ commits' # << >> /\ HeadIndex' = HeadIndex + 1 /\ HeadOf(commits)' = tree
  BY <1>1, <1>3, Appended
<1>5. frames' = [c \in Peers |-> IF c = "nobody" THEN frames[c] ELSE Append(frames[c], changes)]
  BY DEF Move, Announce
<1>6. \A c \in Peers : pending[c].path \notin DOMAIN changes
  BY DEF NothingBeside, NoGap
<1>7. UNCHANGED <<pending, acks>>
  BY DEF pushing
<1> HIDE DEF changes, commit
<1>8. frames' \in [Peers -> Seq(Frames)]
  BY <1>1, <1>2, <1>5 DEF HistoryTypeOK
<1>9. AckedOnce'
  BY <1>1, <1>4, <1>7, StillCommitted DEF AckedOnce
<1>10. ViewsFollowHead'
  <2> SUFFICES ASSUME NEW c \in Peers, NEW p \in Notes PROVE Follows(c, p)'
    BY DEF ViewsFollowHead
  <2>1. Follows(c, p)
    BY <1>1 DEF ViewsFollowHead
  <2>2. p \in DOMAIN changes => changes[p] = Due(c, p)'
    BY <1>2, <1>4, <1>6, <1>7 DEF Due
  <2>3. p \notin DOMAIN changes => Due(c, p)' = Due(c, p)
    BY <1>2, <1>4, <1>7 DEF Due
  <2>4. frames'[c] = Append(frames[c], changes) /\ view'[c] = view[c]
    BY <1>5, NamesAssumption
  <2> QED BY <1>1, <2>1, <2>2, <2>3, <2>4, Hears
<1> QED BY <1>4, <1>8, <1>9, <1>10

\* The stage of a client becomes a commit, of which it is not told.
LEMMA CommitPendingStep ==
  ASSUME HistoryInv, NEW c \in Peers, CommitPending(c), UNCHANGED <<acks, view>>
  PROVE  /\ Grows /\ commits' # << >> /\ frames' \in [Peers -> Seq(Frames)]
         /\ pending' \in [Peers -> StagedOps]
         /\ \A d \in Peers : pending'[d] = IF d = c THEN NoPending ELSE pending[d]
         /\ AckedOnce' /\ ViewsFollowHead'
<1>1. /\ HistoryTypeOK /\ AckedOnce /\ ViewsFollowHead /\ HeadOf(commits) \in Trees
      /\ acks \in Nat /\ pending \in [Peers -> StagedOps]
      /\ frames \in [Peers -> Seq(Frames)]
  BY HeadType DEF HistoryInv, HistoryTypeOK
<1>2. CASE pending[c] = NoPending
  <2>1. UNCHANGED <<commits, pending, frames>>
    BY <1>2 DEF CommitPending
  <2>2. Grows /\ commits' # << >>
    BY <1>1, <2>1, SameGrow DEF HistoryTypeOK
  <2>3. AckedOnce'
    BY <1>1, <2>1 DEF AckedOnce, OpsUpTo, HeadIndex
  <2>4. ViewsFollowHead'
    BY <1>1, <2>1 DEF ViewsFollowHead, Follows, News, Due, HeadOf
  <2> QED BY <1>1, <1>2, <2>1, <2>2, <2>3, <2>4
<1>3. CASE pending[c] # NoPending
  <2> DEFINE op == pending[c]
      changes == [p \in {op.path} |-> op.text]
      tree == Overlaid(HeadOf(commits), changes)
      commit == [tree |-> tree, ops |-> {op.id}]
  <2>1. /\ op \in StagedOps /\ op.path \in Notes /\ op.text \in Texts /\ op.id \in Nat
        /\ op.id \in 1 .. acks
    BY <1>1, <1>3 DEF AckedOnce, StagedOps
  <2>2. /\ changes \in Frames /\ DOMAIN changes = {op.path} /\ changes[op.path] = op.text
    <3>1. changes \in [{op.path} -> Texts] /\ {op.path} \in SUBSET Notes
      BY <2>1
    <3> QED BY <3>1 DEF Frames
  <2>3. tree \in Trees /\ commit \in Commits /\ commit.tree = tree /\ commit.ops = {op.id}
    BY <1>1, <2>1, <2>2, OverlaidType DEF Commits
  <2>4. \A p \in Notes : tree[p] = IF p = op.path THEN op.text ELSE HeadOf(commits)[p]
    BY <2>2 DEF Overlaid
  <2>5. /\ pending' = [pending EXCEPT ![c] = NoPending]
        /\ frames' = [d \in Peers |-> IF d = c THEN frames[d] ELSE Append(frames[d], changes)]
    BY <1>3 DEF CommitPending, Announce
  <2>6. IF tree = HeadOf(commits)
        THEN commits' = [commits EXCEPT ![HeadIndex].ops = @ \cup {op.id}]
        ELSE commits' = Append(commits, commit)
    BY <1>3 DEF CommitPending
  <2>7. /\ Grows /\ commits' # << >> /\ HeadOf(commits)' = tree
        /\ op.id \in OpsUpTo(HeadIndex)'
    <3> HIDE DEF op, tree, commit
    <3>1. CASE tree = HeadOf(commits)
      BY <1>1, <2>1, <2>6, <3>1, Brought
    <3>2. CASE tree # HeadOf(commits)
      BY <1>1, <2>3, <2>6, <3>2, Appended
    <3> QED BY <3>1, <3>2
  <2>8. \A d \in Peers : pending'[d] = IF d = c THEN NoPending ELSE pending[d]
    BY <1>1, <2>5
  <2>9. pending' \in [Peers -> StagedOps]
    BY <1>1, <2>5, EmptyTreeType
  <2> HIDE DEF changes, tree, commit
  <2>10. frames' \in [Peers -> Seq(Frames)]
    BY <1>1, <2>2, <2>5
  <2>11. pending'[c].path = NoName /\ pending'[c].id = 0
    <3>1. pending'[c] = NoPending
      BY <2>8
    <3>2. NoPending.path = NoName /\ NoPending.id = 0
      BY DEF NoPending
    <3> QED BY <3>1, <3>2
  <2>12. AckedOnce'
    <3>1. ASSUME NEW d \in Peers, pending'[d] # NoPending
          PROVE  /\ pending'[d].path \in Notes /\ pending'[d].id \in 1 .. acks
                 /\ \A e \in Peers \ {d} : pending'[e].path # pending'[d].path
      <4>1. d # c /\ pending'[d] = pending[d]
        BY <2>8, <3>1
      <4>2. pending[d].path \in Notes /\ pending[d].id \in 1 .. acks
        BY <1>1, <3>1, <4>1 DEF AckedOnce
      <4>3. ASSUME NEW e \in Peers \ {d} PROVE pending'[e].path # pending[d].path
        <5>1. CASE e = c
          BY <2>11, <4>2, <5>1, RefNameType
        <5>2. CASE e # c
          BY <1>1, <2>8, <3>1, <4>1, <5>2 DEF AckedOnce
        <5> QED BY <5>1, <5>2
      <4> QED BY <4>1, <4>2, <4>3
    <3>2. ASSUME NEW n \in 1 .. acks, \A d \in Peers : pending'[d].id # n
          PROVE  n \in OpsUpTo(HeadIndex)'
      <4>1. CASE n = op.id
        BY <2>7, <4>1
      <4>2. CASE n # op.id
        <5>1. \A d \in Peers : pending[d].id # n
          BY <2>8, <3>2, <4>2
        <5> QED BY <1>1, <2>7, <5>1, StillCommitted DEF AckedOnce
      <4> QED BY <4>1, <4>2
    <3> QED BY <3>1, <3>2 DEF AckedOnce
  <2>14. ViewsFollowHead'
    <3> SUFFICES ASSUME NEW d \in Peers, NEW p \in Notes PROVE Follows(d, p)'
      BY DEF ViewsFollowHead
    <3>1. Follows(d, p)
      BY <1>1 DEF ViewsFollowHead
    <3>2. CASE d = c
      <4>1. Due(c, p)' = Due(c, p)
        BY <2>1, <2>4, <2>7, <2>11, <3>2, RefNameType DEF Due
      <4> QED BY <2>5, <3>1, <3>2, <4>1, HearsNothing
    <3>3. CASE d # c
      <4>1. pending'[d] = pending[d] /\ pending[d].path # op.path
        BY <1>1, <1>3, <2>8, <3>3 DEF AckedOnce
      <4>2. p \in DOMAIN changes => changes[p] = Due(d, p)'
        BY <2>2, <2>4, <2>7, <4>1 DEF Due
      <4>3. p \notin DOMAIN changes => Due(d, p)' = Due(d, p)
        BY <2>2, <2>4, <2>7, <4>1 DEF Due
      <4>4. frames'[d] = Append(frames[d], changes) /\ view'[d] = view[d]
        BY <2>5, <3>3
      <4> QED BY <1>1, <3>1, <4>2, <4>3, <4>4, Hears
    <3> QED BY <3>2, <3>3
  <2> QED BY <2>7, <2>8, <2>9, <2>10, <2>12, <2>14
<1> QED BY <1>2, <1>3
-----------------------------------------------------------------------------
(***************************************************************************)
(* The steps                                                               *)
(***************************************************************************)
LEMMA InvType ==
  ASSUME HistoryInv
  PROVE  /\ HistoryTypeOK /\ AckedOnce /\ ViewsFollowHead
         /\ \A i \in DOMAIN calls : NamesCommit(i) /\ ShowsHistory(i)
         /\ commits \in Seq(Commits) /\ commits # << >> /\ HeadIndex \in Nat \ {0}
         /\ tags \in [RefNames -> Nat] /\ acks \in Nat
         /\ pending \in [Peers -> StagedOps]
         /\ frames \in [Peers -> Seq(Frames)] /\ view \in [Peers -> Trees]
         /\ calls \in Seq(Calls) /\ Len(calls) \in Nat /\ DOMAIN calls = 1 .. Len(calls)
         /\ \A i \in DOMAIN calls : calls[i] \in Calls
         /\ queue \in Seq(Nat) /\ \A n \in DOMAIN queue : queue[n] \in DOMAIN calls
BY HeadType, CallType DEF HistoryInv, HistoryTypeOK

LEMMA InvNumbers ==
  ASSUME HistoryInv
  PROVE  acks \in Nat /\ HeadIndex \in Nat /\ HeadIndex > 0 /\ Len(calls) \in Nat
BY HeadType DEF HistoryInv, HistoryTypeOK

\* What a step does to the commits, the pushes and the clients is in order, and
\* the calls are its own affair.
HistorySound ==
  /\ Grows /\ commits' # << >>
  /\ acks' \in Nat /\ acks' >= acks
  /\ pending' \in [Peers -> StagedOps]
  /\ \A c \in Peers : pending'[c] \in {pending[c], NoPending} \/ pending'[c].id > acks
  /\ frames' \in [Peers -> Seq(Frames)] /\ view' \in [Peers -> Trees]
  /\ AckedOnce' /\ ViewsFollowHead'

\* The sequences of calls and of what waits in commitCh.
QueueSound ==
  queue' \in Seq(Nat) /\ \A n \in DOMAIN queue' : queue'[n] \in DOMAIN calls'

LEMMA NothingMoves ==
  ASSUME HistoryInv, UNCHANGED <<commits, pushing, clients>>
  PROVE  HistorySound
<1>1. UNCHANGED <<commits, pending, acks, frames, view>>
  BY DEF pushing, clients
<1>2. Grows
  BY <1>1, InvType, SameGrow
<1>3. AckedOnce'
  <2>1. AckedOnce
    BY InvType
  <2> QED BY <1>1, <2>1 DEF AckedOnce, OpsUpTo, HeadIndex
<1>4. ViewsFollowHead'
  <2>1. ViewsFollowHead
    BY InvType
  <2> QED BY <1>1, <2>1 DEF ViewsFollowHead, Follows, News, Due, HeadOf
<1> QED BY <1>1, <1>2, <1>3, <1>4, InvType DEF HistorySound

LEMMA PushSound ==
  ASSUME HistoryInv, NEW c \in Peers, NEW p \in Notes, NEW text \in Texts, PushOp(c, p, text)
  PROVE  HistorySound
<1> DEFINE op == [path |-> p, text |-> text, id |-> acks + 1]
<1>1. /\ pending' = [pending EXCEPT ![c] = op] /\ acks' = acks + 1
      /\ frames[c] = << >> /\ pending[c] = NoPending
      /\ \A d \in Peers : pending[d].path # p
      /\ view[c][p] = HeadOf(commits)[p]
      /\ view' = [view EXCEPT ![c] = [@ EXCEPT ![p] = text]]
      /\ UNCHANGED <<commits, frames>>
  BY DEF PushOp
<1>2. op \in StagedOps /\ op.path = p /\ op.text = text /\ op.id = acks + 1
  <2>1. acks + 1 \in Nat
    BY InvType
  <2> QED BY <2>1 DEF StagedOps
<1> HIDE DEF op
<1>3. pending' \in [Peers -> StagedOps] /\ pending'[c] = op
      /\ \A d \in Peers \ {c} : pending'[d] = pending[d]
  BY <1>1, <1>2, InvType
<1>4. [view[c] EXCEPT ![p] = text] \in Trees
  BY InvType DEF Trees
<1>5. /\ view' \in [Peers -> Trees] /\ view'[c] = [view[c] EXCEPT ![p] = text]
      /\ \A d \in Peers \ {c} : view'[d] = view[d]
  BY <1>1, <1>4, InvType
<1>6. Grows /\ OpsUpTo(HeadIndex)' = OpsUpTo(HeadIndex)
  BY <1>1, InvType, SameGrow DEF OpsUpTo, HeadIndex
<1>7. AckedOnce'
  <2>1. ASSUME NEW d \in Peers, pending'[d] # NoPending
        PROVE  /\ pending'[d].path \in Notes /\ pending'[d].id \in 1 .. acks'
               /\ \A e \in Peers \ {d} : pending'[e].path # pending'[d].path
    <3>1. CASE d = c
      BY <1>1, <1>2, <1>3, <3>1, InvType
    <3>2. CASE d # c
      <4>1. pending'[d] = pending[d] /\ pending[d] # NoPending
        BY <1>3, <2>1, <3>2
      <4>2. /\ pending[d].path \in Notes /\ pending[d].id \in 1 .. acks
            /\ \A e \in Peers \ {d} : pending[e].path # pending[d].path
        BY <4>1, InvType DEF AckedOnce
      <4>3. \A e \in Peers \ {d} : pending'[e].path # pending[d].path
        BY <1>1, <1>2, <1>3, <4>2
      <4> QED BY <1>1, <4>1, <4>2, <4>3, InvType
    <3> QED BY <3>1, <3>2
  <2>2. ASSUME NEW n \in 1 .. acks', \A d \in Peers : pending'[d].id # n
        PROVE  n \in OpsUpTo(HeadIndex)'
    <3>1. n \in 1 .. acks
      BY <1>1, <1>2, <1>3, <2>2, InvType
    <3>2. \A d \in Peers : pending[d].id # n
      <4>1. NoPending.id = 0
        BY DEF NoPending
      <4>2. pending[c].id # n
        BY <1>1, <3>1, <4>1
      <4> QED BY <1>3, <2>2, <4>2
    <3> QED BY <1>6, <3>1, <3>2, InvType DEF AckedOnce
  <2> QED BY <2>1, <2>2 DEF AckedOnce
<1>8. ViewsFollowHead'
  <2> SUFFICES ASSUME NEW d \in Peers, NEW f \in Notes PROVE Follows(d, f)'
    BY DEF ViewsFollowHead
  <2>1. Follows(d, f)
    BY InvType DEF ViewsFollowHead
  <2>2. CASE d = c
    <3>1. News(c, f) = {} /\ News(c, f)' = {}
      BY <1>1 DEF News
    <3>2. view[c][f] = Due(c, f)
      BY <2>1, <2>2, <3>1 DEF Follows
    <3>3. NoPending.path = NoName
      BY DEF NoPending
    <3>4. Due(c, f)' = IF f = p THEN text ELSE Due(c, f)
      BY <1>1, <1>2, <1>3, <3>3, RefNameType DEF Due
    <3>5. view'[c][f] = IF f = p THEN text ELSE view[c][f]
      BY <1>5, InvType DEF Trees
    <3> QED BY <2>2, <3>1, <3>2, <3>4, <3>5 DEF Follows
  <2>3. CASE d # c
    BY <1>1, <1>3, <1>5, <2>1, <2>3, HearsNothing DEF Due
  <2> QED BY <2>2, <2>3
<1>9. \A d \in Peers : pending'[d] \in {pending[d], NoPending} \/ pending'[d].id > acks
  BY <1>2, <1>3, InvType
<1> QED BY <1>1, <1>3, <1>5, <1>6, <1>7, <1>8, <1>9, InvType DEF HistorySound

LEMMA RecvSound ==
  ASSUME HistoryInv, NEW c \in Peers, Recv(c)
  PROVE  HistorySound
<1>1. /\ frames[c] # << >> /\ view' = [view EXCEPT ![c] = Overlaid(@, Head(frames[c]))]
      /\ frames' = [frames EXCEPT ![c] = Tail(@)]
      /\ UNCHANGED <<commits, pending, acks>>
  BY DEF Recv, pushing
<1>2. Head(frames[c]) \in Frames /\ Tail(frames[c]) \in Seq(Frames) /\ view[c] \in Trees
  BY <1>1, InvType
<1>3. Overlaid(view[c], Head(frames[c])) \in Trees
  BY <1>2, OverlaidType
<1>4. /\ view' \in [Peers -> Trees] /\ view'[c] = Overlaid(view[c], Head(frames[c]))
      /\ frames' \in [Peers -> Seq(Frames)] /\ frames'[c] = Tail(frames[c])
      /\ \A d \in Peers \ {c} : view'[d] = view[d] /\ frames'[d] = frames[d]
  BY <1>1, <1>2, <1>3, InvType
<1>5. Grows
  BY <1>1, InvType, SameGrow
<1>6. AckedOnce'
  <2>1. AckedOnce
    BY InvType
  <2> QED BY <1>1, <2>1 DEF AckedOnce, OpsUpTo, HeadIndex
<1>7. ViewsFollowHead'
  <2> SUFFICES ASSUME NEW d \in Peers, NEW p \in Notes PROVE Follows(d, p)'
    BY DEF ViewsFollowHead
  <2>1. Follows(d, p) /\ HistoryTypeOK
    BY InvType DEF ViewsFollowHead
  <2>2. Due(d, p)' = Due(d, p)
    BY <1>1 DEF Due, HeadOf
  <2>3. CASE d = c
    BY <1>1, <1>4, <2>1, <2>2, <2>3, Reads
  <2>4. CASE d # c
    BY <1>4, <2>1, <2>2, <2>4, HearsNothing
  <2> QED BY <2>3, <2>4
<1> QED BY <1>1, <1>4, <1>5, <1>6, <1>7, InvType DEF HistorySound

LEMMA CommitSound ==
  ASSUME HistoryInv, NEW c \in Peers, CommitPending(c), UNCHANGED <<acks, view>>
  PROVE  HistorySound /\ \A d \in Peers : pending'[d] = IF d = c THEN NoPending ELSE pending[d]
BY CommitPendingStep, InvType DEF HistorySound

LEMMA MoveSound ==
  ASSUME HistoryInv, NoGap, NEW tree \in Trees, Move(tree), NothingBeside(tree),
         UNCHANGED <<pushing, view>>
  PROVE  HistorySound /\ HeadIndex' = HeadIndex + 1 /\ HeadOf(commits)' = tree
BY MoveStep, InvType DEF HistorySound, pushing
-----------------------------------------------------------------------------
(***************************************************************************)
(* The calls                                                               *)
(***************************************************************************)
CallsSound == calls' \in Seq(Calls) /\ \A i \in DOMAIN calls' : NamesCommit(i)' /\ ShowsHistory(i)'

LEMMA InvAgain ==
  ASSUME HistorySound, CallsSound, QueueSound, tags' \in [RefNames -> Nat]
  PROVE  HistoryInv'
<1>1. commits' \in Seq(Commits)
  BY DEF HistorySound, Grows
<1> QED
  BY <1>1 DEF HistorySound, CallsSound, QueueSound, HistoryInv, HistoryTypeOK

LEMMA SoundCallStays ==
  ASSUME HistoryInv, HistorySound, NEW i \in DOMAIN calls, SameCall(i)
  PROVE  NamesCommit(i)' /\ ShowsHistory(i)'
BY CallStays DEF HistorySound

LEMMA CallsLeft ==
  ASSUME HistoryInv, HistorySound, UNCHANGED <<calls, tags>>
  PROVE  CallsSound
<1>1. \A i \in DOMAIN calls : SameCall(i)
  BY DEF SameCall
<1> QED BY <1>1, SoundCallStays, InvType DEF CallsSound

\* One call changes.
LEMMA CallPut ==
  ASSUME HistoryInv, HistorySound, NEW i \in DOMAIN calls,
         NEW call \in Calls, calls' = [calls EXCEPT ![i] = call],
         \A j \in DOMAIN calls : calls[j].ref # NoName => tags'[calls[j].ref] = tags[calls[j].ref],
         NamesCommit(i)', ShowsHistory(i)'
  PROVE  CallsSound /\ DOMAIN calls' = DOMAIN calls /\ calls'[i] = call
<1>1. /\ calls' \in Seq(Calls) /\ DOMAIN calls' = DOMAIN calls
      /\ calls'[i] = call /\ \A j \in DOMAIN calls : j # i => calls'[j] = calls[j]
  <2>1. calls \in Seq(Calls)
    BY InvType
  <2> QED BY <2>1, SeqPut
<1>2. \A j \in DOMAIN calls : j # i => SameCall(j)
  BY <1>1 DEF SameCall
<1>3. \A j \in DOMAIN calls : j # i => NamesCommit(j)' /\ ShowsHistory(j)'
  BY <1>2, SoundCallStays
<1> QED BY <1>1, <1>3 DEF CallsSound

\* A call is made.
LEMMA CallMade ==
  ASSUME HistoryInv, HistorySound, NEW call \in Calls, calls' = Append(calls, call),
         UNCHANGED tags, NEW n \in Nat, n = Len(calls) + 1, NamesCommit(n)', ShowsHistory(n)'
  PROVE  CallsSound /\ DOMAIN calls' = 1 .. n
<1>1. /\ calls' \in Seq(Calls) /\ DOMAIN calls' = 1 .. (Len(calls) + 1)
      /\ \A j \in DOMAIN calls : calls'[j] = calls[j]
  BY InvType
<1>2. \A j \in DOMAIN calls : SameCall(j)
  BY <1>1 DEF SameCall
<1>3. \A j \in DOMAIN calls : NamesCommit(j)' /\ ShowsHistory(j)'
  BY <1>2, SoundCallStays
<1> QED BY <1>1, <1>3, InvType DEF CallsSound

LEMMA CallFields ==
  ASSUME NEW call \in Calls
  PROVE  /\ call.name \in RefNames \cup {NoName} /\ call.commit \in Nat /\ call.pinned \in BOOLEAN
         /\ call.ref \in RefNames \cup {NoName} /\ call.tree \in Trees /\ call.upTo \in Nat
         /\ call.todo \in SUBSET Peers /\ call.shown \in Seq(Nat) /\ call.tries \in Nat \ {0}
BY DEF Calls

\* A request is as it was asked.
LEMMA CallAsked ==
  ASSUME NEW kind, NEW at, NEW name, NEW k, NEW call, call = Call(kind, at, name, k)
  PROVE  /\ call.kind = kind /\ call.at = at /\ call.name = name /\ call.commit = k
         /\ (call.pinned <=> k # 0) /\ call.ref = NoName /\ call.tree = EmptyTree
         /\ call.upTo = acks /\ call.shown = << >> /\ call.todo = {}
BY DEF Call

LEMMA CallAskedType ==
  ASSUME HistoryInv,
         NEW kind \in {"tag", "review", "revert", "restore", "untag", "publish", "log", "diff"},
         NEW at \in {"queued", "again", "flush", "told"}, NEW name \in RefNames \cup {NoName},
         NEW k \in Nat
  PROVE  Call(kind, at, name, k) \in Calls
<1>1. acks \in Nat /\ << >> \in Seq(Nat) /\ 1 \in Nat \ {0} /\ (k # 0) \in BOOLEAN
  BY InvNumbers
<1> QED BY <1>1, EmptyTreeType DEF Call, Calls

LEMMA SubmitSound ==
  ASSUME HistoryInv, NEW kind \in {"tag", "review", "revert", "restore", "untag"},
         NEW name \in RefNames \cup {NoName}, NEW k \in 0 .. HeadIndex,
         kind \in {"tag", "review"} => name # NoName,
         kind \in {"revert", "restore"} => k # 0,
         Submit(Call(kind, "queued", name, k))
  PROVE  HistoryInv'
<1>1. PICK n \in Nat : n = Len(calls) + 1
  <2>1. Len(calls) + 1 \in Nat
    BY InvNumbers
  <2> QED BY <2>1
<1>2. PICK call : call = Call(kind, "queued", name, k)
  OBVIOUS
<1>3. /\ call.kind = kind /\ call.at = "queued" /\ call.name = name /\ call.commit = k
      /\ (call.pinned <=> k # 0) /\ call.ref = NoName /\ call.tree = EmptyTree
      /\ call.upTo = acks /\ call.shown = << >>
  BY <1>2, CallAsked
<1>4. call \in Calls
  <2>1. k \in Nat
    BY InvNumbers
  <2> QED BY <1>2, <2>1, CallAskedType
<1>5. /\ calls' = Append(calls, call) /\ queue' = Append(queue, n)
      /\ UNCHANGED <<commits, tags, pushing, clients>>
  BY <1>1, <1>2 DEF Submit
<1>6. HistorySound
  BY <1>5, NothingMoves
<1>7. calls'[n] = call
  <2>1. calls \in Seq(Calls)
    BY InvType
  <2> QED BY <1>1, <1>4, <1>5, <2>1
<1>8. UNCHANGED <<commits, acks, tags>>
  BY <1>5 DEF pushing
<1>9. NamesCommit(n)'
  <2>1. k <= HeadIndex /\ acks <= acks
    BY InvNumbers
  <2> QED BY <1>3, <1>7, <1>8, <2>1 DEF NamesCommit, HeadIndex
<1>10. ShowsHistory(n)'
  BY <1>3, <1>7 DEF ShowsHistory
<1>11. CallsSound /\ DOMAIN calls' = 1 .. n
  BY <1>1, <1>4, <1>5, <1>6, <1>8, <1>9, <1>10, CallMade
<1>12. QueueSound
  <2>1. queue \in Seq(Nat) /\ \A j \in DOMAIN queue : queue[j] \in 1 .. n
    BY <1>1, InvType
  <2> QED BY <1>1, <1>5, <1>11, <2>1 DEF QueueSound
<1> QED BY <1>6, <1>8, <1>11, <1>12, InvType, InvAgain

LEMMA PublishSound ==
  ASSUME HistoryInv, NoGap, Publish
  PROVE  HistoryInv'
<1>1. PICK tree \in Trees, name \in Names \cup {NoName} :
        LET commit == IF tree = HeadOf(commits) THEN HeadIndex ELSE HeadIndex + 1
            call == Call("publish", IF name = NoName THEN "told" ELSE "again", name,
                         Published(commit)) IN
        /\ PublishTree(tree)
        /\ calls' = Append(calls, [call EXCEPT !.tree = tree, !.pinned = TRUE])
        /\ UNCHANGED <<tags, pushing, view, queue>>
  BY DEF Publish
<1>2. PICK n \in Nat : n = Len(calls) + 1
  <2>1. Len(calls) + 1 \in Nat
    BY InvNumbers
  <2> QED BY <2>1
<1>3. PICK k \in Nat : k = IF tree = HeadOf(commits) THEN HeadIndex ELSE HeadIndex + 1
  <2>1. HeadIndex \in Nat /\ HeadIndex + 1 \in Nat
    BY InvNumbers
  <2> QED BY <2>1
<1>4. PICK at \in {"told", "again"} : at = IF name = NoName THEN "told" ELSE "again"
  BY Zenon
<1>5. PICK asks : asks = Call("publish", at, name, k)
  OBVIOUS
<1>6. /\ asks.kind = "publish" /\ asks.at = at /\ asks.name = name /\ asks.commit = k
      /\ asks.ref = NoName /\ asks.upTo = acks
  BY <1>5, CallAsked
<1>7. asks \in Calls
  <2>1. name \in RefNames \cup {NoName}
    BY DEF RefNames
  <2> QED BY <1>5, <2>1, CallAskedType
<1>8. PICK call : call = [asks EXCEPT !.tree = tree, !.pinned = TRUE]
  OBVIOUS
<1>9. /\ call \in Calls /\ call.kind = "publish" /\ call.at = at /\ call.name = name
      /\ call.commit = k /\ call.ref = NoName /\ call.upTo = acks
      /\ call.tree = tree /\ call.pinned = TRUE
  BY <1>6, <1>7, <1>8 DEF Calls
<1>10. /\ calls' = Append(calls, call) /\ PublishTree(tree)
       /\ UNCHANGED <<tags, pushing, view, queue>>
  BY <1>1, <1>3, <1>4, <1>5, <1>8 DEF Published
<1>11. /\ HistorySound /\ HeadOf(commits)' = tree /\ HeadIndex' = k
  <2>1. CASE tree = HeadOf(commits)
    <3>1. UNCHANGED <<commits, frames, pushing, view>>
      BY <1>10, <2>1 DEF PublishTree
    <3>2. HistorySound
      BY <3>1, NothingMoves DEF clients
    <3> QED BY <1>3, <2>1, <3>1, <3>2 DEF HeadOf, HeadIndex
  <2>2. CASE tree # HeadOf(commits)
    BY <1>3, <1>10, <2>2, MoveSound DEF PublishTree
  <2> QED BY <2>1, <2>2
<1>12. k <= HeadIndex' /\ k # 0 /\ commits'[k].tree = tree
  <2>1. k # 0 /\ k <= k
    BY <1>3, InvNumbers
  <2> QED BY <1>11, <2>1 DEF HeadOf, HeadIndex, Last
<1>13. calls'[n] = call /\ acks' = acks /\ acks <= acks
  <2>1. calls \in Seq(Calls) /\ acks \in Nat
    BY InvType
  <2> QED BY <1>2, <1>9, <1>10, <2>1 DEF pushing
<1>14. NamesCommit(n)'
  BY <1>4, <1>9, <1>12, <1>13 DEF NamesCommit
<1>15. ShowsHistory(n)'
  BY <1>9, <1>13 DEF ShowsHistory
<1>16. CallsSound /\ DOMAIN calls' = 1 .. n
  BY <1>2, <1>9, <1>10, <1>11, <1>14, <1>15, CallMade
<1>17. QueueSound
  <2>1. queue \in Seq(Nat) /\ \A j \in DOMAIN queue : queue[j] \in 1 .. n
    BY <1>2, InvType
  <2> QED BY <1>10, <1>16, <2>1 DEF QueueSound
<1> QED BY <1>10, <1>11, <1>16, <1>17, InvType, InvAgain

LEMMA ReadSound ==
  ASSUME HistoryInv, NEW kind \in {"log", "diff"}, Read(kind)
  PROVE  HistoryInv'
<1>1. PICK n \in Nat : n = Len(calls) + 1
  <2>1. Len(calls) + 1 \in Nat
    BY InvNumbers
  <2> QED BY <2>1
<1>2. PICK asks : asks = Call(kind, "flush", NoName, 0)
  OBVIOUS
<1>3. /\ asks.kind = kind /\ asks.at = "flush" /\ asks.name = NoName /\ asks.commit = 0
      /\ asks.ref = NoName /\ asks.upTo = acks /\ asks.tree = EmptyTree /\ asks.shown = << >>
  BY <1>2, CallAsked
<1>4. asks \in Calls
  BY <1>2, CallAskedType
<1>5. PICK call : call = [asks EXCEPT !.todo = Peers]
  OBVIOUS
<1>6. /\ call \in Calls /\ call.kind = kind /\ call.at = "flush" /\ call.name = NoName
      /\ call.commit = 0 /\ call.ref = NoName /\ call.upTo = acks
      /\ call.tree = EmptyTree /\ call.shown = << >> /\ call.todo = Peers
  BY <1>3, <1>4, <1>5 DEF Calls
<1>7. calls' = Append(calls, call) /\ UNCHANGED <<commits, tags, pushing, clients, queue>>
  BY <1>2, <1>5 DEF Read
<1>8. HistorySound
  BY <1>7, NothingMoves
<1>9. calls'[n] = call /\ UNCHANGED <<commits, acks>> /\ acks <= acks /\ 0 <= HeadIndex
  <2>1. calls \in Seq(Calls) /\ acks \in Nat
    BY InvType
  <2> QED BY <1>1, <1>6, <1>7, <2>1, InvNumbers DEF pushing
<1>10. NamesCommit(n)'
  BY <1>6, <1>9 DEF NamesCommit, HeadIndex
<1>11. ShowsHistory(n)'
  BY <1>6, <1>9 DEF ShowsHistory
<1>12. CallsSound /\ DOMAIN calls' = 1 .. n
  BY <1>1, <1>6, <1>7, <1>8, <1>10, <1>11, CallMade
<1>13. QueueSound
  <2>1. queue \in Seq(Nat) /\ \A j \in DOMAIN queue : queue[j] \in 1 .. n
    BY <1>1, InvType
  <2> QED BY <1>7, <1>12, <2>1 DEF QueueSound
<1> QED BY <1>7, <1>8, <1>12, <1>13, InvType, InvAgain

\* A step of the clients alone.
LEMMA ClientSound ==
  ASSUME HistoryInv, HistorySound, UNCHANGED <<calls, tags, queue>>
  PROVE  HistoryInv'
<1>1. CallsSound
  BY CallsLeft
<1>2. QueueSound
  BY InvType DEF QueueSound
<1> QED BY <1>1, <1>2, InvType, InvAgain
-----------------------------------------------------------------------------
(***************************************************************************)
(* The commit loop                                                         *)
(***************************************************************************)
\* What waits in commitCh is a call.
LEMMA QueueHead ==
  ASSUME HistoryInv, queue # << >>
  PROVE  Head(queue) \in Nat /\ Head(queue) \in DOMAIN calls
<1>1. queue \in Seq(Nat) /\ \A n \in DOMAIN queue : queue[n] \in DOMAIN calls
  BY InvType
<1>2. Head(queue) = queue[1] /\ 1 \in DOMAIN queue
  BY <1>1
<1> QED BY <1>1, <1>2

LEMMA QueueTail ==
  ASSUME HistoryInv, queue # << >>, queue' = Tail(queue), DOMAIN calls' = DOMAIN calls
  PROVE  QueueSound
<1>1. queue \in Seq(Nat) /\ \A n \in DOMAIN queue : queue[n] \in DOMAIN calls
  BY InvType
<1> QED BY <1>1 DEF QueueSound

\* A step that leaves what a call names.
LEMMA NamesAgain ==
  ASSUME HistoryInv, HistorySound, NEW i \in DOMAIN calls, NEW call \in Calls,
         calls'[i] = call, UNCHANGED tags, call.kind = calls[i].kind,
         call.commit = calls[i].commit, call.pinned = calls[i].pinned,
         call.tree = calls[i].tree, call.upTo = calls[i].upTo, call.ref = calls[i].ref,
         call.kind \in {"tag", "review"} \/ call.at = "again" => call.name # NoName
  PROVE  NamesCommit(i)'
<1>0. NamesCommit(i) /\ call.commit \in Nat /\ call.upTo \in Nat
  BY InvType, CallFields
<1>1. /\ HistoryTypeOK /\ Grows /\ acks' \in Nat /\ acks' >= acks
      /\ HeadIndex \in Nat /\ HeadIndex' \in Nat /\ HeadIndex' >= HeadIndex /\ acks \in Nat
  BY InvNumbers, InvType DEF HistorySound, Grows, HeadIndex
<1>2. /\ \A k \in 1 .. HeadIndex : OpsUpTo(k) \subseteq OpsUpTo(k)'
      /\ \A k \in 1 .. HeadIndex : commits'[k].tree = commits[k].tree
  BY <1>1, OpsGrow DEF Grows
<1>3. call.commit <= HeadIndex /\ call.upTo <= acks
  BY <1>0 DEF NamesCommit
<1>4. call.commit <= HeadIndex' /\ call.upTo <= acks'
  BY <1>0, <1>1, <1>3
<1>5. call.commit # 0 => call.commit \in 1 .. HeadIndex
  BY <1>0, <1>1, <1>3
<1>6. call.tree # EmptyTree => call.commit # 0 /\ commits'[call.commit].tree = call.tree
  BY <1>0, <1>2, <1>5 DEF NamesCommit
<1>7. ~call.pinned /\ call.commit # 0 =>
        1 .. call.upTo \subseteq UNION {commits'[j].ops : j \in 1 .. call.commit}
  <2>1. ~call.pinned /\ call.commit # 0 => 1 .. call.upTo \subseteq OpsUpTo(call.commit)
    BY <1>0 DEF NamesCommit
  <2> QED BY <1>2, <1>5, <2>1 DEF OpsUpTo
<1>8. call.ref # NoName => /\ call.kind \in {"tag", "review"}
                           /\ call.commit # 0 /\ tags'[call.ref] = call.commit
  BY <1>0 DEF NamesCommit
<1>9. call.kind \in {"revert", "restore"} => call.commit # 0
  BY <1>0 DEF NamesCommit
<1> QED BY <1>4, <1>6, <1>7, <1>8, <1>9 DEF NamesCommit, OpsUpTo

\* A request that is refused, done or to be tried again, without a tag.
LEMMA CallEnded ==
  ASSUME HistoryInv, HistorySound, NEW i \in DOMAIN calls, NEW call \in Calls,
         calls' = [calls EXCEPT ![i] = call], UNCHANGED tags,
         call.kind \notin {"log", "diff"}, call.kind = calls[i].kind,
         call.commit = calls[i].commit, call.pinned = calls[i].pinned,
         call.tree = calls[i].tree, call.upTo = calls[i].upTo, call.ref = calls[i].ref,
         call.at = "again" => call.name # NoName,
         call.kind \in {"tag", "review"} => call.name # NoName
  PROVE  CallsSound /\ DOMAIN calls' = DOMAIN calls
<1>1. calls'[i] = call
  <2>1. calls \in Seq(Calls)
    BY InvType
  <2> QED BY <2>1, SeqPut
<1>2. NamesCommit(i)'
  BY <1>1, NamesAgain
<1>3. ShowsHistory(i)'
  BY <1>1 DEF ShowsHistory
<1> QED BY <1>2, <1>3, CallPut

\* A name is taken, for the commit that the call is about.
LEMMA TagSound ==
  ASSUME HistoryInv, NoGap, queue # << >>, NEW i \in DOMAIN calls, i = Head(queue), HandleTag(i)
  PROVE  HistoryInv'
<1> DEFINE call == calls[i]
<1>1. PICK k : k = IF call.commit = 0 THEN HeadIndex ELSE call.commit
  OBVIOUS
<1>2. /\ call \in Calls /\ NamesCommit(i) /\ call.kind \in {"tag", "review"}
      /\ call.name \in RefNames /\ call.commit \in Nat /\ call.upTo \in Nat
      /\ call.tries \in Nat /\ call.pinned \in BOOLEAN
  <2>1. call \in Calls /\ NamesCommit(i) /\ call.kind \in {"tag", "review"}
    BY InvType DEF HandleTag
  <2>2. call.name # NoName
    BY <2>1 DEF NamesCommit
  <2> QED BY <2>1, <2>2, CallFields
<1>3. UNCHANGED <<commits, pushing, clients>>
  BY DEF HandleTag
<1>4. HistorySound
  BY <1>3, NothingMoves
<1>5. k \in 1 .. HeadIndex /\ k \in Nat
  <2>1. call.commit <= HeadIndex
    BY <1>2 DEF NamesCommit
  <2> QED BY <1>1, <1>2, <2>1, InvNumbers
<1>6. CASE Taggable(call.name, k)
  <2>1. /\ tags' = [tags EXCEPT ![call.name] = k] /\ queue' = Tail(queue)
        /\ calls' = [calls EXCEPT ![i] =
             [call EXCEPT !.at = "told", !.ref = call.name, !.commit = k]]
    BY <1>1, <1>6 DEF HandleTag, Answer
  <2>2. PICK told : told = [call EXCEPT !.at = "told", !.ref = call.name, !.commit = k]
    OBVIOUS
  <2>3. /\ told \in Calls /\ told.at = "told" /\ told.ref = call.name /\ told.commit = k
        /\ told.kind = call.kind /\ told.name = call.name /\ told.pinned = call.pinned
        /\ told.tree = call.tree /\ told.upTo = call.upTo
    BY <1>2, <1>5, <2>2 DEF Calls
  <2>4. calls'[i] = told
    <3>1. calls \in Seq(Calls)
      BY InvType
    <3> QED BY <2>1, <2>2, <2>3, <3>1, SeqPut
  <2>5. /\ tags' \in [RefNames -> Nat] /\ tags'[call.name] = k
        /\ \A n \in RefNames : tags[n] # 0 => tags'[n] = tags[n]
    <3>1. tags \in [RefNames -> Nat]
      BY InvType
    <3>2. tags[call.name] \in {0, k}
      BY <1>6 DEF Taggable
    <3> QED BY <1>2, <1>5, <2>1, <3>1, <3>2
  <2>6. \A j \in DOMAIN calls : calls[j].ref # NoName => tags'[calls[j].ref] = tags[calls[j].ref]
    <3>1. ASSUME NEW j \in DOMAIN calls, calls[j].ref # NoName
          PROVE  calls[j].ref \in RefNames /\ tags[calls[j].ref] # 0
      <4>1. calls[j] \in Calls /\ NamesCommit(j)
        BY InvType
      <4> QED BY <3>1, <4>1, CallFields DEF NamesCommit
    <3> QED BY <2>5, <3>1
  <2>7. UNCHANGED <<commits, acks, pending>>
    BY <1>3 DEF pushing
  <2>8. call.tree # EmptyTree => commits[k].tree = call.tree
    BY <1>1, <1>2 DEF NamesCommit
  <2>9. ~call.pinned => 1 .. call.upTo \subseteq OpsUpTo(k)
    <3>1. CASE call.commit # 0
      BY <1>1, <1>2, <3>1 DEF NamesCommit
    <3>2. CASE call.commit = 0
      <4> SUFFICES ASSUME ~call.pinned, NEW n \in 1 .. call.upTo PROVE n \in OpsUpTo(k)
        OBVIOUS
      <4>1. \A c \in Peers : pending[c] = NoPending
        BY DEF HandleTag, NoGap
      <4>2. n \in 1 .. acks
        <5>1. call.upTo <= acks
          BY <1>2 DEF NamesCommit
        <5> QED BY <1>2, <5>1, InvNumbers
      <4>3. \A c \in Peers : pending[c].id # n
        <5>1. NoPending.id = 0 /\ n # 0
          BY DEF NoPending
        <5> QED BY <4>1, <5>1
      <4>4. AckedOnce
        BY InvType
      <4> QED BY <1>1, <3>2, <4>2, <4>3, <4>4 DEF AckedOnce
    <3> QED BY <3>1, <3>2
  <2>10. NamesCommit(i)'
    <3>1. call.upTo <= acks /\ k <= HeadIndex /\ k # 0 /\ call.name # NoName
      BY <1>2, <1>5, InvNumbers, RefNameType DEF NamesCommit
    <3> QED
      BY <1>2, <2>3, <2>4, <2>5, <2>7, <2>8, <2>9, <3>1 DEF NamesCommit, HeadIndex, OpsUpTo
  <2>11. ShowsHistory(i)'
    BY <1>2, <2>3, <2>4 DEF ShowsHistory
  <2>12. CallsSound /\ DOMAIN calls' = DOMAIN calls
    BY <1>4, <2>1, <2>2, <2>3, <2>6, <2>10, <2>11, CallPut
  <2> QED BY <1>4, <2>1, <2>5, <2>12, QueueTail, InvAgain
<1>7. CASE ~Taggable(call.name, k)
  <2>1. PICK next : next = IF call.kind = "review" /\ call.tries < Len(Reviews)
                           THEN [call EXCEPT !.at = "again", !.tries = @ + 1,
                                             !.name = Reviews[call.tries + 1]]
                           ELSE [call EXCEPT !.at = "refused"]
    OBVIOUS
  <2>2. calls' = [calls EXCEPT ![i] = next] /\ UNCHANGED tags /\ queue' = Tail(queue)
    BY <1>1, <1>7, <2>1 DEF HandleTag, Answer
  <2>3. /\ next \in Calls /\ next.kind = call.kind /\ next.commit = call.commit
        /\ next.pinned = call.pinned /\ next.tree = call.tree /\ next.upTo = call.upTo
        /\ next.ref = call.ref /\ next.name \in RefNames
    <3>1. CASE call.kind = "review" /\ call.tries < Len(Reviews)
      <4>1. call.tries + 1 \in 1 .. Len(Reviews) /\ call.tries + 1 \in Nat \ {0}
        BY <1>2, <3>1, RefNameType
      <4>2. Reviews[call.tries + 1] \in RefNames
        BY <4>1, RefNameType
      <4> QED BY <1>2, <2>1, <3>1, <4>1, <4>2 DEF Calls
    <3>2. CASE ~(call.kind = "review" /\ call.tries < Len(Reviews))
      BY <1>2, <2>1, <3>2 DEF Calls
    <3> QED BY <3>1, <3>2
  <2>4. CallsSound /\ DOMAIN calls' = DOMAIN calls
    BY <1>2, <1>4, <2>2, <2>3, RefNameType, CallEnded
  <2> QED BY <1>4, <2>2, <2>4, QueueTail, InvType, InvAgain
<1> QED BY <1>6, <1>7

LEMMA UntagSound ==
  ASSUME HistoryInv, queue # << >>, NEW i \in DOMAIN calls, i = Head(queue), HandleUntag(i)
  PROVE  HistoryInv'
<1> DEFINE call == calls[i]
    removed == Removed(call)
    told == [call EXCEPT !.at = "told"]
<1>1. /\ call.kind = "untag" /\ queue' = Tail(queue)
      /\ tags' = [n \in RefNames |-> IF n \in removed THEN 0 ELSE tags[n]]
      /\ calls' = [j \in DOMAIN calls |->
                     IF j = i THEN told
                     ELSE IF calls[j].ref \in removed THEN [calls[j] EXCEPT !.ref = NoName]
                                                      ELSE calls[j]]
      /\ UNCHANGED <<commits, pushing, clients>>
  BY DEF HandleUntag
<1>2. call \in Calls /\ NamesCommit(i) /\ removed \subseteq RefNames
  BY InvType DEF Removed
<1>3. /\ told \in Calls /\ told.kind = "untag" /\ told.at = "told"
      /\ told.name = call.name /\ told.commit = call.commit /\ told.pinned = call.pinned
      /\ told.tree = call.tree /\ told.upTo = call.upTo /\ told.ref = call.ref
  BY <1>1, <1>2 DEF Calls
<1>4. HistorySound
  BY <1>1, NothingMoves
<1> HIDE DEF removed, told
<1>5. tags' \in [RefNames -> Nat] /\ \A n \in RefNames \ removed : tags'[n] = tags[n]
  <2>1. tags \in [RefNames -> Nat]
    BY InvType
  <2> QED BY <1>1, <2>1
<1>6. ASSUME NEW j \in DOMAIN calls, j # i
      PROVE  calls'[j] \in Calls /\ SameCall(j)
  <2>1. calls[j] \in Calls /\ calls[j].ref \in RefNames \cup {NoName}
    BY InvType, CallFields
  <2>2. calls'[j] = IF calls[j].ref \in removed THEN [calls[j] EXCEPT !.ref = NoName] ELSE calls[j]
    BY <1>1, <1>6
  <2>3. CASE calls[j].ref \in removed
    BY <2>1, <2>2, <2>3 DEF SameCall, Calls
  <2>4. CASE calls[j].ref \notin removed
    BY <1>5, <2>1, <2>2, <2>4 DEF SameCall
  <2> QED BY <2>3, <2>4
<1>7. calls'[i] = told
  BY <1>1
<1>8. calls' \in Seq(Calls) /\ DOMAIN calls' = DOMAIN calls
  <2> DEFINE cs == calls'
  <2>1. Len(calls) \in Nat /\ DOMAIN calls = 1 .. Len(calls)
    BY InvType
  <2>2. \A j \in DOMAIN calls : cs[j] \in Calls
    BY <1>3, <1>6, <1>7
  <2>3. cs = [j \in DOMAIN calls |-> cs[j]]
    BY <1>1
  <2> HIDE DEF cs
  <2>4. cs \in [1 .. Len(calls) -> Calls]
    BY <2>1, <2>2, <2>3
  <2>5. cs \in Seq(Calls) /\ DOMAIN cs = 1 .. Len(calls)
    BY <2>1, <2>4
  <2> QED BY <2>1, <2>5 DEF cs
<1>9. NamesCommit(i)' /\ ShowsHistory(i)'
  <2>1. call.ref = NoName /\ UNCHANGED <<commits, acks>>
    BY <1>1, <1>2 DEF NamesCommit, pushing
  <2>2. /\ call.commit <= HeadIndex /\ call.upTo <= acks
        /\ call.tree # EmptyTree => call.commit # 0 /\ commits[call.commit].tree = call.tree
        /\ ~call.pinned /\ call.commit # 0 =>
             1 .. call.upTo \subseteq UNION {commits[j].ops : j \in 1 .. call.commit}
    BY <1>2 DEF NamesCommit, OpsUpTo
  <2>3. HeadIndex' = HeadIndex
    BY <2>1 DEF HeadIndex
  <2>4. NamesCommit(i)'
    BY <1>3, <1>7, <2>1, <2>2, <2>3 DEF NamesCommit, OpsUpTo
  <2> QED BY <1>3, <1>7, <2>4 DEF ShowsHistory
<1>10. CallsSound
  <2>1. \A j \in DOMAIN calls : NamesCommit(j)' /\ ShowsHistory(j)'
    BY <1>4, <1>6, <1>9, SoundCallStays
  <2> QED BY <1>8, <2>1 DEF CallsSound
<1>11. QueueSound
  BY <1>1, <1>8, QueueTail
<1> QED BY <1>4, <1>5, <1>10, <1>11, InvAgain

LEMMA UndoneType ==
  ASSUME HistoryInv, NEW k \in 1 .. HeadIndex
  PROVE  Restored(k) \in Trees /\ Reverted(k) \in Trees
<1>1. HeadOf(commits) \in Trees /\ \A j \in 1 .. HeadIndex : commits[j].tree \in Trees
  BY InvType, HeadType
<1>2. ParentTree(k) \in Trees
  <2>1. k # 1 => k - 1 \in 1 .. HeadIndex
    BY InvNumbers
  <2> QED BY <1>1, <2>1, EmptyTreeType DEF ParentTree
<1>3. Undone(k) \in Frames
  BY <1>1, <1>2, ChangesType DEF Undone
<1> QED BY <1>1, <1>3, OverlaidType DEF Restored, Reverted

\* A commit that a call names is there, once it names one.
LEMMA NamedCommit ==
  ASSUME HistoryInv, NEW i \in DOMAIN calls, calls[i].commit # 0
  PROVE  calls[i].commit \in 1 .. HeadIndex
<1>1. calls[i].commit \in Nat /\ calls[i].commit <= HeadIndex
  BY InvType, CallFields DEF NamesCommit
<1> QED BY <1>1, InvNumbers

\* Revert and restore make a commit, or nothing.
LEMMA RevertSound ==
  ASSUME HistoryInv, NoGap, queue # << >>, NEW i \in DOMAIN calls, i = Head(queue),
         HandleRevert(i)
  PROVE  HistoryInv'
<1> DEFINE call == calls[i]
    k == call.commit
    tree == Reverted(k)
<1>1. /\ call \in Calls /\ call.kind = "revert" /\ k \in 1 .. HeadIndex /\ tree \in Trees
      /\ NamesCommit(i)
  <2>1. call \in Calls /\ call.kind = "revert" /\ NamesCommit(i)
    BY InvType DEF HandleRevert
  <2>2. k \in 1 .. HeadIndex
    BY <2>1, NamedCommit DEF NamesCommit
  <2> QED BY <2>1, <2>2, UndoneType
<1>2. PICK at \in {"told", "refused"} :
        /\ calls' = [calls EXCEPT ![i] = [call EXCEPT !.at = at]] /\ queue' = Tail(queue)
        /\ UNCHANGED <<tags, pushing, view>>
        /\ \/ UNCHANGED <<commits, frames>>
           \/ Move(tree) /\ NothingBeside(tree)
  BY DEF HandleRevert, Answer
<1> HIDE DEF tree
<1>3. HistorySound
  <2>1. CASE UNCHANGED <<commits, frames>>
    BY <1>2, <2>1, NothingMoves DEF clients
  <2>2. CASE Move(tree) /\ NothingBeside(tree)
    BY <1>1, <1>2, <2>2, MoveSound
  <2> QED BY <1>2, <2>1, <2>2
<1>4. PICK done : done = [call EXCEPT !.at = at]
  OBVIOUS
<1>5. /\ done \in Calls /\ done.kind = "revert" /\ done.at = at
      /\ done.commit = call.commit /\ done.pinned = call.pinned
      /\ done.tree = call.tree /\ done.upTo = call.upTo /\ done.ref = call.ref
  BY <1>1, <1>4 DEF Calls
<1>6. CallsSound /\ DOMAIN calls' = DOMAIN calls
  BY <1>1, <1>2, <1>3, <1>4, <1>5, CallEnded
<1> QED BY <1>2, <1>3, <1>6, QueueTail, InvType, InvAgain

LEMMA RestoreSound ==
  ASSUME HistoryInv, NoGap, queue # << >>, NEW i \in DOMAIN calls, i = Head(queue),
         HandleRestore(i)
  PROVE  HistoryInv'
<1> DEFINE call == calls[i]
    k == call.commit
    tree == Restored(k)
<1>1. /\ call \in Calls /\ call.kind = "restore" /\ k \in 1 .. HeadIndex /\ tree \in Trees
      /\ NamesCommit(i)
  <2>1. call \in Calls /\ call.kind = "restore" /\ NamesCommit(i)
    BY InvType DEF HandleRestore
  <2>2. k \in 1 .. HeadIndex
    BY <2>1, NamedCommit DEF NamesCommit
  <2> QED BY <2>1, <2>2, UndoneType
<1>2. /\ calls' = [calls EXCEPT ![i] = [call EXCEPT !.at = "told"]] /\ queue' = Tail(queue)
      /\ UNCHANGED <<tags, pushing, view>>
      /\ Move(tree) /\ NothingBeside(tree)
  BY DEF HandleRestore, Answer
<1> HIDE DEF tree
<1>3. HistorySound
  BY <1>1, <1>2, MoveSound
<1>4. PICK done : done = [call EXCEPT !.at = "told"]
  OBVIOUS
<1>5. /\ done \in Calls /\ done.kind = "restore" /\ done.at = "told"
      /\ done.commit = call.commit /\ done.pinned = call.pinned
      /\ done.tree = call.tree /\ done.upTo = call.upTo /\ done.ref = call.ref
  BY <1>1, <1>4 DEF Calls
<1>6. CallsSound /\ DOMAIN calls' = DOMAIN calls
  BY <1>1, <1>2, <1>3, <1>4, <1>5, CallEnded
<1> QED BY <1>2, <1>3, <1>6, QueueTail, InvType, InvAgain

\* A call goes back to commitCh: a review under its next name, a publish for its tag.
LEMMA ResubmitSound ==
  ASSUME HistoryInv, NEW i \in DOMAIN calls, Resubmit(i)
  PROVE  HistoryInv'
<1> DEFINE call == calls[i]
<1>1. /\ call \in Calls /\ call.at = "again" /\ NamesCommit(i) /\ ShowsHistory(i)
      /\ call.kind \notin {"log", "diff"}
  <2>1. call \in Calls /\ call.at = "again" /\ NamesCommit(i) /\ ShowsHistory(i)
    BY InvType DEF Resubmit
  <2> QED BY <2>1 DEF ShowsHistory
<1>2. /\ calls' = [calls EXCEPT ![i].at = "queued",
                                ![i].kind = IF @ = "publish" THEN "tag" ELSE @]
      /\ queue' = Append(queue, i) /\ UNCHANGED <<commits, tags, pushing, clients>>
  BY DEF Resubmit
<1>3. PICK next : next = [call EXCEPT !.at = "queued",
                                      !.kind = IF @ = "publish" THEN "tag" ELSE @]
  OBVIOUS
<1>4. calls' = [calls EXCEPT ![i] = next]
  BY <1>2, <1>3
<1>5. /\ next \in Calls /\ next.at = "queued"
      /\ next.kind = IF call.kind = "publish" THEN "tag" ELSE call.kind
      /\ next.commit = call.commit /\ next.pinned = call.pinned /\ next.name = call.name
      /\ next.tree = call.tree /\ next.upTo = call.upTo /\ next.ref = call.ref
  BY <1>1, <1>3 DEF Calls
<1>6. HistorySound
  BY <1>2, NothingMoves
<1>7. calls'[i] = next /\ UNCHANGED <<commits, acks>> /\ HeadIndex' = HeadIndex
  <2>1. calls \in Seq(Calls)
    BY InvType
  <2> QED BY <1>2, <1>4, <1>5, <2>1, SeqPut DEF pushing, HeadIndex
<1>8. NamesCommit(i)'
  <2>1. /\ call.commit <= HeadIndex /\ call.upTo <= acks /\ call.name # NoName
        /\ call.kind \in {"revert", "restore"} => call.commit # 0
        /\ call.tree # EmptyTree => call.commit # 0 /\ commits[call.commit].tree = call.tree
        /\ ~call.pinned /\ call.commit # 0 =>
             1 .. call.upTo \subseteq UNION {commits[j].ops : j \in 1 .. call.commit}
        /\ call.ref # NoName => /\ call.kind \in {"tag", "review"}
                                /\ call.commit # 0 /\ tags[call.ref] = call.commit
    BY <1>1 DEF NamesCommit, OpsUpTo
  <2> QED BY <1>2, <1>5, <1>7, <2>1 DEF NamesCommit, OpsUpTo
<1>9. ShowsHistory(i)'
  BY <1>1, <1>5, <1>7 DEF ShowsHistory
<1>10. CallsSound /\ DOMAIN calls' = DOMAIN calls
  BY <1>2, <1>4, <1>5, <1>6, <1>8, <1>9, CallPut
<1>11. QueueSound
  <2>1. queue \in Seq(Nat) /\ (\A n \in DOMAIN queue : queue[n] \in DOMAIN calls) /\ i \in Nat
    BY InvType
  <2> QED BY <1>2, <1>10, <2>1 DEF QueueSound
<1> QED BY <1>2, <1>6, <1>10, <1>11, InvType, InvAgain
-----------------------------------------------------------------------------
(***************************************************************************)
(* The readers                                                             *)
(***************************************************************************)
LEMMA FlushSound ==
  ASSUME HistoryInv, NEW i \in DOMAIN calls, FlushOne(i)
  PROVE  HistoryInv'
<1> DEFINE call == calls[i]
<1>1. call \in Calls /\ call.at = "flush" /\ NamesCommit(i) /\ ShowsHistory(i)
  BY InvType DEF FlushOne
<1>2. PICK c \in call.todo : /\ CommitPending(c)
                             /\ calls' = [calls EXCEPT ![i].todo = @ \ {c}]
                             /\ UNCHANGED <<tags, acks, view, queue>>
  BY DEF FlushOne
<1>3. c \in Peers
  BY <1>1, <1>2, CallFields
<1>4. HistorySound /\ \A d \in Peers : pending'[d] = IF d = c THEN NoPending ELSE pending[d]
  BY <1>2, <1>3, CommitSound
<1>5. PICK next : next = [call EXCEPT !.todo = @ \ {c}]
  OBVIOUS
<1>6. calls' = [calls EXCEPT ![i] = next]
  BY <1>2, <1>5
<1>7. /\ next \in Calls /\ next.at = "flush" /\ next.kind = call.kind
      /\ next.todo = call.todo \ {c} /\ next.shown = call.shown
      /\ next.commit = call.commit /\ next.pinned = call.pinned /\ next.name = call.name
      /\ next.tree = call.tree /\ next.upTo = call.upTo /\ next.ref = call.ref
  BY <1>1, <1>5 DEF Calls
<1>8. calls'[i] = next
  <2>1. calls \in Seq(Calls)
    BY InvType
  <2> QED BY <1>6, <1>7, <2>1, SeqPut
<1>9. NamesCommit(i)'
  <2>1. call.kind \in {"tag", "review"} => call.name # NoName
    BY <1>1 DEF NamesCommit
  <2> QED BY <1>2, <1>4, <1>7, <1>8, <2>1, NamesAgain
<1>10. ShowsHistory(i)'
  <2> SUFFICES ASSUME call.kind \in {"log", "diff"} PROVE ShowsHistory(i)'
    BY <1>7, <1>8 DEF ShowsHistory
  <2>1. next.shown = << >> =>
          \A d \in Peers : pending'[d].id \in 1 .. call.upTo => d \in next.todo
    <3>1. ASSUME NEW d \in Peers, pending'[d].id \in 1 .. call.upTo
          PROVE  d # c /\ pending[d].id \in 1 .. call.upTo
      <4>1. NoPending.id = 0 /\ 0 \notin 1 .. call.upTo
        BY <1>1, CallFields DEF NoPending
      <4> QED BY <1>4, <3>1, <4>1
    <3>2. call.shown = << >> => \A d \in Peers : pending[d].id \in 1 .. call.upTo => d \in call.todo
      BY <1>1 DEF ShowsHistory
    <3> QED BY <1>7, <3>1, <3>2
  <2>2. call.shown # << >> => /\ call.shown[1] \in 1 .. HeadIndex
                              /\ 1 .. call.upTo \subseteq OpsUpTo(call.shown[1])
    BY <1>1 DEF ShowsHistory
  <2>3. call.shown # << >> =>
          /\ call.shown[1] \in 1 .. HeadIndex'
          /\ 1 .. call.upTo \subseteq UNION {commits'[j].ops : j \in 1 .. call.shown[1]}
    <3>1. HeadIndex \in Nat /\ HeadIndex' \in Nat /\ HeadIndex' >= HeadIndex /\ HistoryTypeOK
      BY <1>4, InvNumbers, InvType DEF HistorySound, Grows, HeadIndex
    <3>2. \A k \in 1 .. HeadIndex : OpsUpTo(k) \subseteq OpsUpTo(k)'
      BY <1>4, <3>1, OpsGrow DEF HistorySound
    <3>3. \A k \in 1 .. HeadIndex : OpsUpTo(k) \subseteq UNION {commits'[j].ops : j \in 1 .. k}
      BY <3>2 DEF OpsUpTo
    <3>4. \A k \in 1 .. HeadIndex : k \in 1 .. HeadIndex'
      BY <3>1
    <3> QED BY <2>2, <3>3, <3>4
  <2>4. call.kind = "log" /\ call.shown # << >> =>
          /\ Len(call.shown) <= call.shown[1]
          /\ \A j \in 1 .. Len(call.shown) : call.shown[j] = call.shown[1] + 1 - j
    BY <1>1 DEF ShowsHistory
  <2> QED BY <1>7, <1>8, <2>1, <2>3, <2>4 DEF ShowsHistory, OpsUpTo
<1>11. CallsSound /\ DOMAIN calls' = DOMAIN calls
  BY <1>2, <1>4, <1>6, <1>7, <1>9, <1>10, CallPut
<1>12. QueueSound
  BY <1>2, <1>11, InvType DEF QueueSound
<1> QED BY <1>2, <1>4, <1>11, <1>12, InvType, InvAgain

\* When every stage is flushed HEAD has all that was acked before the request.
LEMMA Flushed ==
  ASSUME HistoryInv, NEW i \in DOMAIN calls, calls[i].kind \in {"log", "diff"},
         calls[i].at = "flush", calls[i].todo = {}, calls[i].shown = << >>
  PROVE  1 .. calls[i].upTo \subseteq OpsUpTo(HeadIndex)
<1>1. /\ ShowsHistory(i) /\ NamesCommit(i) /\ AckedOnce /\ calls[i].upTo \in Nat /\ acks \in Nat
  BY InvType, CallFields
<1>2. calls[i].upTo <= acks
  BY <1>1 DEF NamesCommit
<1>3. \A c \in Peers : pending[c].id \notin 1 .. calls[i].upTo
  BY <1>1 DEF ShowsHistory
<1> SUFFICES ASSUME NEW n \in 1 .. calls[i].upTo PROVE n \in OpsUpTo(HeadIndex)
  OBVIOUS
<1>4. n \in 1 .. acks
  BY <1>1, <1>2
<1> QED BY <1>1, <1>3, <1>4 DEF AckedOnce

\* The elements of two sequences that are joined.
LEMMA Joined ==
  ASSUME NEW s \in Seq(Nat), NEW t \in Seq(Nat)
  PROVE  /\ s \o t \in Seq(Nat) /\ Len(s \o t) = Len(s) + Len(t)
         /\ \A j \in 1 .. (Len(s) + Len(t)) :
              (s \o t)[j] = IF j <= Len(s) THEN s[j] ELSE t[j - Len(s)]
<1>1. s \o t \in Seq(Nat) /\ Len(s \o t) = Len(s) + Len(t)
  OBVIOUS
<1>2. \A j \in 1 .. (Len(s) + Len(t)) :
         (s \o t)[j] = IF j <= Len(s) THEN s[j] ELSE t[j - Len(s)]
  OBVIOUS
<1> QED BY <1>1, <1>2

\* The pages that a log has shown, with one more.
LEMMA LogPages ==
  ASSUME NEW shown \in Seq(Nat), HeadIndex \in Nat \ {0},
         shown # << >> => /\ shown[1] \in 1 .. HeadIndex /\ Len(shown) <= shown[1]
                        /\ \A j \in 1 .. Len(shown) : shown[j] = shown[1] + 1 - j
  PROVE  LET page == Page(shown)
             both == shown \o page
             first == IF shown = << >> THEN HeadIndex ELSE shown[1] IN
         /\ both \in Seq(Nat) /\ both # << >> /\ both[1] = first /\ Len(both) <= first
         /\ \A j \in 1 .. Len(both) : both[j] = first + 1 - j
         /\ Len(page) < PageSize => Len(both) = first
<1> DEFINE n == Len(shown)
    first == IF shown = << >> THEN HeadIndex ELSE shown[1]
    top == first - n
    m == Min({PageSize, top})
    page == Page(shown)
    both == shown \o page
<1>1. n \in Nat /\ (shown = << >> <=> n = 0)
  OBVIOUS
<1>2. /\ first \in Nat \ {0} /\ n <= first /\ top \in Nat
      /\ \A j \in 1 .. n : shown[j] = first + 1 - j
  BY <1>1
<1>3. top = IF shown = << >> THEN HeadIndex ELSE Last(shown) - 1
  <2>1. CASE shown = << >>
    BY <1>1, <2>1
  <2>2. CASE shown # << >>
    <3>1. n \in 1 .. n
      BY <1>1, <2>2
    <3>2. Last(shown) = first + 1 - n
      BY <1>2, <3>1 DEF Last
    <3> QED BY <1>1, <1>2, <2>2, <3>2
  <2> QED BY <2>1, <2>2
<1>4. m = IF PageSize <= top THEN PageSize ELSE top
  <2> HIDE DEF top
  <2> QED BY <1>2, MinOfTwo, HistoryBoundsAssumption
<1>5. m \in Nat /\ n + m <= first /\ n + m > 0 /\ (m < PageSize => n + m = first)
  <2>1. top = first - n
    OBVIOUS
  <2> HIDE DEF top, m, first, n
  <2>2. n = 0 => top > 0
    BY <1>1, <1>2, <2>1
  <2> QED BY <1>1, <1>2, <1>4, <2>1, <2>2, HistoryBoundsAssumption
<1>6. page = [j \in 1 .. m |-> top + 1 - j]
  BY <1>3 DEF Page
<1> HIDE DEF n, first, m, page
<1>7. \A j \in 1 .. m : top + 1 - j \in Nat
  BY <1>1, <1>2, <1>5
<1>8. page \in Seq(Nat) /\ Len(page) = m /\ \A j \in 1 .. m : page[j] = top + 1 - j
  BY <1>5, <1>6, <1>7
<1>9. /\ both \in Seq(Nat) /\ Len(both) = n + m
      /\ \A j \in 1 .. (n + m) : both[j] = IF j <= n THEN shown[j] ELSE page[j - n]
  <2>1. Len(shown) = n
    BY DEF n
  <2> HIDE DEF both
  <2>2. both = shown \o page
    BY DEF both
  <2> QED BY <1>8, <2>1, <2>2, Joined
<1> HIDE DEF both
<1>10. \A j \in 1 .. (n + m) : both[j] = first + 1 - j
  <2> SUFFICES ASSUME NEW j \in 1 .. (n + m) PROVE both[j] = first + 1 - j
    OBVIOUS
  <2>0. j \in Nat /\ j > 0 /\ j <= n + m
    BY <1>1, <1>5
  <2>1. CASE j <= n
    <3>1. j \in 1 .. n
      BY <1>1, <2>0, <2>1
    <3>2. both[j] = shown[j]
      BY <1>9, <2>1
    <3> QED BY <1>2, <3>1, <3>2
  <2>2. CASE j > n
    <3> DEFINE l == j - n
    <3>1. l \in 1 .. m /\ ~ j <= n
      BY <1>1, <1>5, <2>0, <2>2
    <3>2. both[j] = page[l]
      BY <1>9, <3>1
    <3>3. l = j - n
      OBVIOUS
    <3> HIDE DEF l
    <3>4. page[l] = top + 1 - l
      BY <1>8, <3>1
    <3>5. top = first - n
      OBVIOUS
    <3> HIDE DEF top
    <3> QED BY <1>1, <1>2, <2>0, <3>2, <3>3, <3>4, <3>5
  <2> QED BY <1>1, <2>0, <2>1, <2>2
<1>11. both # << >> /\ both[1] = first
  <2>1. 1 \in 1 .. (n + m) /\ first + 1 - 1 = first
    BY <1>1, <1>2, <1>5
  <2>2. Len(both) # 0
    BY <1>1, <1>5, <1>9
  <2> QED BY <1>10, <2>1, <2>2
<1> HIDE DEF both
<1>12. Len(page) < PageSize => Len(both) = first
  BY <1>5, <1>8, <1>9
<1>13. Len(both) <= first /\ \A j \in 1 .. Len(both) : both[j] = first + 1 - j
  BY <1>5, <1>9, <1>10
<1> QED BY <1>9, <1>11, <1>12, <1>13 DEF first, both, page

LEMMA LogSound ==
  ASSUME HistoryInv, NEW i \in DOMAIN calls, Log(i)
  PROVE  HistoryInv'
<1> DEFINE call == calls[i]
    shown == call.shown
    page == Page(shown)
    both == shown \o page
    first == IF shown = << >> THEN HeadIndex ELSE shown[1]
    full == Len(page) >= PageSize
<1>1. /\ call \in Calls /\ call.kind = "log" /\ call.at = "flush" /\ call.todo = {}
      /\ NamesCommit(i) /\ ShowsHistory(i) /\ shown \in Seq(Nat) /\ call.upTo \in Nat
  BY InvType, CallFields DEF Log
<1>2. /\ shown # << >> => /\ shown[1] \in 1 .. HeadIndex /\ Len(shown) <= shown[1]
                          /\ \A j \in 1 .. Len(shown) : shown[j] = shown[1] + 1 - j
      /\ shown # << >> => 1 .. call.upTo \subseteq OpsUpTo(shown[1])
  BY <1>1 DEF ShowsHistory
<1>3. HeadIndex \in Nat \ {0}
  BY InvNumbers
<1>4. /\ both \in Seq(Nat) /\ both # << >> /\ both[1] = first /\ Len(both) <= first
      /\ \A j \in 1 .. Len(both) : both[j] = first + 1 - j
      /\ Len(page) < PageSize => Len(both) = first
  BY <1>1, <1>2, <1>3, LogPages
<1>5. first \in 1 .. HeadIndex /\ 1 .. call.upTo \subseteq OpsUpTo(first)
  BY <1>1, <1>2, <1>3, Flushed
<1>6. /\ calls' = [calls EXCEPT ![i].shown = @ \o page,
                                ![i].at = IF Len(page) < PageSize THEN "told" ELSE @,
                                ![i].todo = IF Len(page) < PageSize THEN {} ELSE Peers]
      /\ UNCHANGED <<commits, tags, pushing, clients, queue>>
  BY DEF Log
<1>7. PICK next : next = [call EXCEPT !.shown = both,
                            !.at = IF Len(page) < PageSize THEN "told" ELSE @,
                            !.todo = IF Len(page) < PageSize THEN {} ELSE Peers]
  OBVIOUS
<1>8. calls' = [calls EXCEPT ![i] = next]
  BY <1>6, <1>7
<1> HIDE DEF both, page, first
<1>9. /\ next \in Calls /\ next.at = IF Len(page) < PageSize THEN "told" ELSE "flush"
      /\ next.kind = "log" /\ next.shown = both
      /\ next.commit = call.commit /\ next.pinned = call.pinned /\ next.name = call.name
      /\ next.tree = call.tree /\ next.upTo = call.upTo /\ next.ref = call.ref
  BY <1>1, <1>4, <1>7 DEF Calls
<1>10. HistorySound
  BY <1>6, NothingMoves
<1>11. calls'[i] = next /\ UNCHANGED <<commits, acks>> /\ HeadIndex' = HeadIndex
  <2>1. calls \in Seq(Calls)
    BY InvType
  <2> QED BY <1>6, <1>8, <1>9, <2>1, SeqPut DEF pushing, HeadIndex
<1>12. NamesCommit(i)'
  BY <1>1, <1>6, <1>9, <1>10, <1>11, NamesAgain
<1>13. ShowsHistory(i)'
  <2>1. 1 .. call.upTo \subseteq UNION {commits[j].ops : j \in 1 .. first}
    BY <1>5 DEF OpsUpTo
  <2> QED BY <1>4, <1>5, <1>9, <1>11, <2>1 DEF ShowsHistory, OpsUpTo
<1>14. CallsSound /\ DOMAIN calls' = DOMAIN calls
  BY <1>6, <1>8, <1>9, <1>10, <1>12, <1>13, CallPut
<1>15. QueueSound
  BY <1>6, <1>14, InvType DEF QueueSound
<1> QED BY <1>6, <1>10, <1>14, <1>15, InvType, InvAgain

LEMMA DiffSound ==
  ASSUME HistoryInv, NEW i \in DOMAIN calls, Diff(i)
  PROVE  HistoryInv'
<1> DEFINE call == calls[i]
    reviewed == {tags[n] : n \in {m \in Range(Reviews) : Listed(m)}}
<1>1. /\ call \in Calls /\ call.kind = "diff" /\ call.at = "flush" /\ call.todo = {}
      /\ NamesCommit(i) /\ ShowsHistory(i) /\ call.upTo \in Nat
  BY InvType, CallFields DEF Diff
<1>2. PICK from : from = IF reviewed = {} THEN 1 ELSE Max(reviewed)
  OBVIOUS
<1>3. HeadIndex \in Nat /\ HeadIndex \in 1 .. HeadIndex
  BY InvNumbers
<1>4. from \in Nat
  <2>1. reviewed \subseteq 1 .. HeadIndex
    BY DEF Listed, KnownCommits
  <2> HIDE DEF reviewed
  <2>2. CASE reviewed = {}
    BY <1>2, <2>2
  <2>3. CASE reviewed # {}
    <3>1. Max(reviewed) \in reviewed
      BY <1>3, <2>1, <2>3, MaxOfCommits
    <3> QED BY <1>2, <1>3, <2>1, <2>3, <3>1
  <2> QED BY <2>2, <2>3
<1>5. PICK shown : shown = <<HeadIndex, from>>
  OBVIOUS
<1>6. shown \in Seq(Nat) /\ shown # << >> /\ shown[1] = HeadIndex
  BY <1>3, <1>4, <1>5
<1>7. /\ calls' = [calls EXCEPT ![i].at = "told", ![i].shown = shown]
      /\ UNCHANGED <<commits, tags, pushing, clients, queue>>
  BY <1>2, <1>5 DEF Diff
<1>8. PICK next : next = [call EXCEPT !.at = "told", !.shown = shown]
  OBVIOUS
<1>9. calls' = [calls EXCEPT ![i] = next]
  BY <1>7, <1>8
<1>10. /\ next \in Calls /\ next.at = "told" /\ next.kind = "diff" /\ next.shown = shown
       /\ next.commit = call.commit /\ next.pinned = call.pinned /\ next.name = call.name
       /\ next.tree = call.tree /\ next.upTo = call.upTo /\ next.ref = call.ref
  BY <1>1, <1>6, <1>8 DEF Calls
<1>11. HistorySound
  BY <1>7, NothingMoves
<1>12. calls'[i] = next /\ UNCHANGED <<commits, acks>> /\ HeadIndex' = HeadIndex
  <2>1. calls \in Seq(Calls)
    BY InvType
  <2> QED BY <1>7, <1>9, <1>10, <2>1, SeqPut DEF pushing, HeadIndex
<1>13. NamesCommit(i)'
  BY <1>1, <1>7, <1>10, <1>11, <1>12, NamesAgain
<1>14. ShowsHistory(i)'
  <2>1. 1 .. call.upTo \subseteq UNION {commits[j].ops : j \in 1 .. HeadIndex}
    <3>1. CASE call.shown = << >>
      BY <1>1, <3>1, Flushed DEF OpsUpTo
    <3>2. CASE call.shown # << >>
      <4>1. 1 .. call.upTo \subseteq OpsUpTo(call.shown[1]) /\ call.shown[1] \in 1 .. HeadIndex
        BY <1>1, <3>2 DEF ShowsHistory
      <4> QED BY <4>1, OpsInOrder, InvType, InvNumbers DEF OpsUpTo
    <3> QED BY <3>1, <3>2
  <2> QED BY <1>3, <1>6, <1>10, <1>12, <2>1 DEF ShowsHistory, OpsUpTo
<1>15. CallsSound /\ DOMAIN calls' = DOMAIN calls
  BY <1>7, <1>9, <1>10, <1>11, <1>13, <1>14, CallPut
<1>16. QueueSound
  BY <1>7, <1>15, InvType DEF QueueSound
<1> QED BY <1>7, <1>11, <1>15, <1>16, InvType, InvAgain

LEMMA InitHolds == HistoryInit => HistoryInv
<1> SUFFICES ASSUME HistoryInit PROVE HistoryInv
  OBVIOUS
<1>1. PICK commit : commit = [tree |-> EmptyTree, ops |-> {}]
  OBVIOUS
<1>2. /\ commit \in Commits /\ commits = <<commit>> /\ commit.tree = EmptyTree
  BY <1>1, EmptyTreeType DEF HistoryInit, Commits
<1>3. HeadIndex = 1 /\ HeadOf(commits) = EmptyTree
  BY <1>2 DEF HeadIndex, HeadOf, Last
<1>4. HistoryTypeOK
  <2>1. commits \in Seq(Commits) /\ commits # << >>
    BY <1>2
  <2>2. tags \in [RefNames -> Nat] /\ acks \in Nat
    BY DEF HistoryInit
  <2>3. pending \in [Peers -> StagedOps]
    BY EmptyTreeType DEF HistoryInit
  <2>4. frames \in [Peers -> Seq(Frames)] /\ view \in [Peers -> Trees]
    BY EmptyTreeType DEF HistoryInit
  <2>5. calls \in Seq(Calls) /\ queue \in Seq(Nat) /\ DOMAIN queue = {}
    BY DEF HistoryInit
  <2> QED BY <2>1, <2>2, <2>3, <2>4, <2>5 DEF HistoryTypeOK
<1>5. AckedOnce
  <2>1. \A c \in Peers : pending[c] = NoPending
    BY DEF HistoryInit
  <2>2. 1 .. acks = {}
    BY DEF HistoryInit
  <2> QED BY <2>1, <2>2 DEF AckedOnce
<1>6. ViewsFollowHead
  <2> SUFFICES ASSUME NEW c \in Peers, NEW p \in Notes PROVE Follows(c, p)
    BY DEF ViewsFollowHead
  <2>1. frames[c] = << >> /\ view[c] = EmptyTree /\ pending[c] = NoPending
    BY DEF HistoryInit
  <2>2. News(c, p) = {}
    BY <2>1 DEF News
  <2>3. p # pending[c].path
    BY <2>1, RefNameType DEF NoPending
  <2>4. Due(c, p) = EmptyTree[p]
    BY <1>3, <2>3 DEF Due
  <2> QED BY <2>1, <2>2, <2>4 DEF Follows
<1>7. DOMAIN calls = {}
  BY DEF HistoryInit
<1> QED BY <1>4, <1>5, <1>6, <1>7 DEF HistoryInv

\* The requests of users.
LEMMA RequestSound ==
  ASSUME HistoryInv, NoGap, Request
  PROVE  HistoryInv'
<1>1. HeadIndex \in Nat
  BY InvNumbers
<1>2. Targets \subseteq 0 .. HeadIndex /\ KnownCommits = 1 .. HeadIndex
  BY <1>1 DEF Targets, KnownCommits, NoGap
<1>3. /\ Names \subseteq RefNames /\ Reviews[1] \in RefNames /\ NoName \notin RefNames
  BY RefNameType DEF RefNames
<1>4. CASE SubmitTag
  <2>1. PICK n \in Names, k \in Targets : Submit(Call("tag", "queued", n, k))
    BY <1>4 DEF SubmitTag
  <2>2. n \in RefNames /\ n # NoName /\ k \in 0 .. HeadIndex
    BY <1>2, <1>3
  <2> QED BY <2>1, <2>2, SubmitSound
<1>5. CASE SubmitReview
  <2>1. PICK k \in Targets : Submit(Call("review", "queued", Reviews[1], k))
    BY <1>5 DEF SubmitReview
  <2>2. PICK n : n = Reviews[1]
    OBVIOUS
  <2>3. n \in RefNames /\ n # NoName /\ k \in 0 .. HeadIndex
    BY <1>2, <1>3, <2>2
  <2> QED BY <2>1, <2>2, <2>3, SubmitSound
<1>6. CASE SubmitRevert
  <2>1. PICK k \in KnownCommits : Submit(Call("revert", "queued", NoName, k))
    BY <1>6 DEF SubmitRevert
  <2>2. k \in 0 .. HeadIndex /\ k # 0
    BY <1>1, <1>2
  <2> QED BY <2>1, <2>2, SubmitSound
<1>7. CASE SubmitRestore
  <2>1. PICK k \in KnownCommits : Submit(Call("restore", "queued", NoName, k))
    BY <1>7 DEF SubmitRestore
  <2>2. k \in 0 .. HeadIndex /\ k # 0
    BY <1>1, <1>2
  <2> QED BY <2>1, <2>2, SubmitSound
<1>8. CASE SubmitDeleteTag
  <2>1. PICK n \in RefNames : Submit(Call("untag", "queued", n, 0))
    BY <1>8 DEF SubmitDeleteTag
  <2>2. 0 \in 0 .. HeadIndex
    BY <1>1
  <2> QED BY <2>1, <2>2, SubmitSound
<1>9. CASE SubmitDeleteTagsByCommit
  <2>1. PICK k \in KnownCommits : Submit(Call("untag", "queued", NoName, k))
    BY <1>9 DEF SubmitDeleteTagsByCommit
  <2>2. k \in 0 .. HeadIndex
    BY <1>1, <1>2
  <2> QED BY <2>1, <2>2, SubmitSound
<1>10. CASE Publish
  BY <1>10, PublishSound
<1>11. CASE Read("log")
  BY <1>11, ReadSound
<1>12. CASE Read("diff")
  BY <1>12, ReadSound
<1> QED BY <1>4, <1>5, <1>6, <1>7, <1>8, <1>9, <1>10, <1>11, <1>12 DEF Request

\* The commit loop.
LEMMA HandledSound ==
  ASSUME HistoryInv, NoGap, HandleCommitRequest
  PROVE  HistoryInv'
<1>1. queue # << >>
  BY DEF HandleCommitRequest
<1>2. PICK i \in DOMAIN calls : i = Head(queue)
  BY <1>1, QueueHead
<1>3. HandleTag(i) \/ HandleUntag(i) \/ HandleRevert(i) \/ HandleRestore(i)
  BY <1>2 DEF HandleCommitRequest
<1> QED BY <1>1, <1>2, <1>3, TagSound, UntagSound, RevertSound, RestoreSound

\* What clients do.
LEMMA ClientStepSound ==
  ASSUME HistoryInv, NEW c \in Peers, ClientStep(c)
  PROVE  HistoryInv'
<1>1. CASE \E p \in Notes, text \in Texts : PushOp(c, p, text)
  <2>1. PICK p \in Notes, text \in Texts : PushOp(c, p, text)
    BY <1>1
  <2>2. UNCHANGED <<calls, tags, queue>>
    BY <2>1 DEF PushOp
  <2> QED BY <2>1, <2>2, PushSound, ClientSound
<1>2. CASE CommitStage(c)
  <2>1. CommitPending(c) /\ UNCHANGED <<acks, view>> /\ UNCHANGED <<calls, tags, queue>>
    BY <1>2 DEF CommitStage
  <2> QED BY <2>1, CommitSound, ClientSound
<1>3. CASE Recv(c)
  <2>1. UNCHANGED <<calls, tags, queue>>
    BY <1>3 DEF Recv
  <2> QED BY <1>3, <2>1, RecvSound, ClientSound
<1> QED BY <1>1, <1>2, <1>3 DEF ClientStep

LEMMA StepHolds ==
  ASSUME NoGap, HistoryInv, [HistoryNext]_historyVars
  PROVE  HistoryInv'
<1>1. CASE Request
  BY <1>1, RequestSound
<1>2. CASE HandleCommitRequest
  BY <1>2, HandledSound
<1>3. ASSUME NEW i \in DOMAIN calls, Resubmit(i) \/ FlushOne(i) \/ Log(i) \/ Diff(i)
      PROVE  HistoryInv'
  BY <1>3, ResubmitSound, FlushSound, LogSound, DiffSound
<1>4. ASSUME NEW c \in Peers, ClientStep(c)
      PROVE  HistoryInv'
  BY <1>4, ClientStepSound
<1>5. CASE UNCHANGED historyVars
  <2>1. UNCHANGED <<commits, pushing, clients>> /\ UNCHANGED <<calls, tags, queue>>
    BY <1>5 DEF historyVars
  <2> QED BY <2>1, NothingMoves, ClientSound
<1> QED BY <1>1, <1>2, <1>3, <1>4, <1>5 DEF HistoryNext

\* HistoryInv holds throughout, whatever the number of files, clients, commits
\* and requests, when none of the known defects is let loose.
THEOREM HistoryInvariant ==
  ASSUME NoGap PROVE HistorySpec => []HistoryInv
<1>1. HistoryInv /\ [HistoryNext]_historyVars => HistoryInv'
  BY StepHolds
<1> QED BY <1>1, InitHolds, PTL DEF HistorySpec

\* What a client has read and what is on its way make the files of HEAD with its
\* own stage over them, through reverts, restores and publishes of others.
THEOREM ViewsFollowHeadAlways ==
  ASSUME NoGap PROVE HistorySpec => []ViewsFollowHead
<1>1. HistoryInv => ViewsFollowHead
  BY DEF HistoryInv
<1> QED BY <1>1, HistoryInvariant, PTL

\* The invariant says of every call more than the answer needs.
LEMMA AnswersStand == HistoryInv => AnswersHold
<1> SUFFICES ASSUME HistoryInv, NEW i \in DOMAIN calls
             PROVE  /\ calls[i].ref # NoName => TagHolds(calls[i])
                    /\ calls[i].kind \in {"log", "diff"} /\ calls[i].at = "told"
                         => LogHolds(calls[i])
  BY DEF AnswersHold
<1> DEFINE call == calls[i]
<1>1. /\ NamesCommit(i) /\ ShowsHistory(i) /\ HeadIndex \in Nat /\ call.commit \in Nat
      /\ call.shown \in Seq(Nat) /\ call.upTo \in Nat
  BY InvType, CallFields
<1>2. call.ref # NoName => TagHolds(call)
  <2> SUFFICES ASSUME call.ref # NoName PROVE TagHolds(call)
    OBVIOUS
  <2>1. /\ call.commit # 0 /\ tags[call.ref] = call.commit /\ call.commit <= HeadIndex
        /\ call.tree # EmptyTree => commits[call.commit].tree = call.tree
        /\ ~call.pinned => 1 .. call.upTo \subseteq OpsUpTo(call.commit)
    BY <1>1 DEF NamesCommit
  <2>2. Listed(call.ref)
    BY <1>1, <2>1 DEF Listed, KnownCommits
  <2> QED BY <2>1, <2>2 DEF TagHolds
<1>3. call.kind \in {"log", "diff"} /\ call.at = "told" => LogHolds(call)
  <2> SUFFICES ASSUME call.kind \in {"log", "diff"}, call.at = "told" PROVE LogHolds(call)
    OBVIOUS
  <2>1. /\ call.shown # << >> /\ 1 .. call.upTo \subseteq OpsUpTo(call.shown[1])
        /\ call.kind = "log" =>
             /\ Len(call.shown) = call.shown[1]
             /\ \A j \in 1 .. Len(call.shown) : call.shown[j] = call.shown[1] + 1 - j
    BY <1>1 DEF ShowsHistory
  <2>2. call.kind = "log" =>
          call.shown = [j \in 1 .. call.shown[1] |-> call.shown[1] + 1 - j]
    <3> SUFFICES ASSUME call.kind = "log"
                 PROVE  call.shown = [j \in 1 .. call.shown[1] |-> call.shown[1] + 1 - j]
      OBVIOUS
    <3>1. PICK shown \in Seq(Nat) : shown = call.shown
      BY <1>1
    <3>2. shown = [j \in DOMAIN shown |-> shown[j]] /\ DOMAIN shown = 1 .. Len(shown)
      BY <3>1
    <3>3. Len(shown) = shown[1] /\ \A j \in 1 .. Len(shown) : shown[j] = shown[1] + 1 - j
      BY <2>1, <3>1
    <3> HIDE DEF call
    <3>4. shown = [j \in 1 .. shown[1] |-> shown[1] + 1 - j]
      BY <3>2, <3>3
    <3> QED BY <3>1, <3>4
  <2> QED BY <2>1, <2>2 DEF LogHolds
<1> QED BY <1>2, <1>3

\* A tag, a review and a publish are where the answer said, as long as nobody
\* deletes them, and a log and a diff have what was acked before they were asked
\* for: every request passes commitCh, a review under as many names as it needs.
THEOREM AnswersAlwaysHold ==
  ASSUME NoGap PROVE HistorySpec => []AnswersHold
BY HistoryInvariant, AnswersStand, PTL
-----------------------------------------------------------------------------
(***************************************************************************)
(* PDFs                                                                    *)
(***************************************************************************)
\* A request takes a step: its record is replaced.
LEMMA PutRequest ==
  ASSUME asked \in Seq(Requests), NEW r \in DOMAIN asked, NEW rec \in Requests, Put(r, rec)
  PROVE  /\ asked' \in Seq(Requests) /\ DOMAIN asked' = DOMAIN asked
         /\ asked'[r] = rec /\ \A s \in DOMAIN asked : s # r => asked'[s] = asked[s]
BY DEF Put

\* A request, field by field, and with one of them replaced.
LEMMA RequestType ==
  ASSUME NEW q \in Requests
  PROVE  /\ q.artifact \in Phases /\ q.since \in Nat /\ q.phase \in {"meta", "page"} /\ q.at \in Steps
         /\ q.key \in Nat /\ q.doc \in Int /\ q.wait \in Nat /\ q.png \in Nat
         /\ q.failed \in BOOLEAN /\ q.got \in Answers
         /\ \A a \in Steps : [q EXCEPT !.at = a] \in Requests
         /\ \A k \in Nat : /\ [q EXCEPT !.key = k] \in Requests /\ [q EXCEPT !.wait = k] \in Requests
                           /\ [q EXCEPT !.png = k] \in Requests
         /\ \A d \in Int : [q EXCEPT !.doc = d] \in Requests
BY DEF Requests, Phases

\* The end of a phase changes no more than where the request is.
LEMMA FoundType ==
  ASSUME NEW q \in Requests, NEW doc \in Int
  PROVE  /\ Found(q, doc) \in Requests
         /\ Found(q, doc).since = q.since /\ Found(q, doc).key = q.key
         /\ Found(q, doc).failed = q.failed
         /\ \/ /\ q.phase = "page" /\ Found(q, doc).at = "serve" /\ Found(q, doc).phase = "page"
            \/ /\ q.phase = "meta" /\ Found(q, doc).at = "told" /\ Found(q, doc).phase = "meta"
               /\ Found(q, doc).got = [version |-> doc, whole |-> TRUE]
            \/ /\ q.phase = "meta" /\ Found(q, doc).at = "stat"
<1>1. CASE q.phase = "page"
  BY <1>1 DEF Found, Requests, Steps
<1>2. CASE q.phase = "meta" /\ q.artifact = "meta"
  BY <1>2 DEF Found, Requests, Steps, Answers
<1>3. CASE q.phase = "meta" /\ q.artifact # "meta"
  BY <1>3 DEF Found, Requests, Steps, Phases
<1> QED BY <1>1, <1>2, <1>3, RequestType

\* What the invariant says of a request and of the caches, without the sequence.
LEMMA AskedType ==
  ASSUME PdfInv, NEW r \in DOMAIN asked
  PROVE  /\ asked \in Seq(Requests) /\ asked[r] \in Requests /\ r \in Nat \ {0}
         /\ source \in Versions /\ source \in Nat /\ MaxVersions \in Nat /\ asked[r].since \in 1 .. source
         /\ asked[r].at # "stat" =>
              asked[r].key \in Versions /\ asked[r].key \in asked[r].since .. source
<1>1. asked \in Seq(Requests) /\ source \in Versions
  BY DEF PdfInv, PdfTypeOK
<1>2. asked[r] \in Requests /\ r \in Nat \ {0}
  BY <1>1
<1>3. asked[r].since \in 1 .. source /\ (asked[r].at # "stat" => asked[r].key \in asked[r].since .. source)
  BY DEF PdfInv, KeysSince
<1> QED BY <1>1, <1>2, <1>3, RequestType, PdfBoundsAssumption DEF Versions

\* The table of producers, with one entry replaced.
LEMMA InFlightType ==
  ASSUME NEW f \in [Phases -> [Versions -> Nat]], NEW p \in Phases, NEW v \in Versions, NEW n \in Nat
  PROVE  LET g == [f EXCEPT ![p][v] = n] IN
         /\ g \in [Phases -> [Versions -> Nat]] /\ g[p][v] = n
         /\ \A o \in Phases, w \in Versions : o # p \/ w # v => g[o][w] = f[o][w]
<1>1. [f[p] EXCEPT ![v] = n] \in [Versions -> Nat]
  OBVIOUS
<1> DEFINE h == [f[p] EXCEPT ![v] = n]
<1> HIDE DEF h
<1>2. [f EXCEPT ![p] = h] \in [Phases -> [Versions -> Nat]]
  BY <1>1 DEF h
<1> QED BY <1>2 DEF h

LEMMA StatStep ==
  ASSUME PdfInv, NEW r \in DOMAIN asked, Stat(r)
  PROVE  PdfInv'
<1> DEFINE q == [asked[r] EXCEPT !.key = CacheKey]
    rec == IF Hit(q.phase, q.key) THEN Found(q, meta[q.key]) ELSE [q EXCEPT !.at = "acquire"]
<1>1. /\ asked \in Seq(Requests) /\ asked[r] \in Requests /\ source \in Versions /\ source \in Nat
      /\ asked[r].at = "stat" /\ asked[r].since \in 1 .. source
  BY AskedType DEF Stat
<1>2. q \in Requests /\ q.key = source /\ q.since = asked[r].since /\ q.at = "stat"
      /\ q.failed = asked[r].failed
  BY <1>1, RequestType DEF CacheKey, Requests
<1>3. rec \in Requests
  <2> HIDE DEF q
  <2>1. meta[q.key] \in Int
    BY <1>1, <1>2 DEF PdfInv, PdfTypeOK
  <2> QED BY <1>2, <2>1, FoundType DEF Requests, Steps
<1>4. Put(r, rec)
  BY DEF Stat
<1>5. /\ asked' \in Seq(Requests) /\ DOMAIN asked' = DOMAIN asked
      /\ asked'[r] = rec /\ \A s \in DOMAIN asked : s # r => asked'[s] = asked[s]
  BY <1>1, <1>3, <1>4, PutRequest
<1>6. UNCHANGED <<source, long, meta, drawn, image, pngs, inFlight, broken>>
  BY DEF Stat, cache
<1>7. /\ rec.key = source /\ rec.since = asked[r].since /\ rec.failed = asked[r].failed
      /\ \/ rec.at = "acquire"
         \/ rec.at = "stat"
         \/ rec.at = "told" /\ rec.got = [version |-> meta[source], whole |-> TRUE] /\ meta[source] > 0
         \/ rec.at = "serve" /\ rec.phase = "page" /\ image[source] # 0
  <2> HIDE DEF q
  <2>1. meta[q.key] \in Int
    BY <1>1, <1>2 DEF PdfInv, PdfTypeOK
  <2> QED BY <1>2, <2>1, FoundType DEF Hit, Requests
<1> HIDE DEF rec, q
<1> USE <1>5, <1>6, <1>7
<1>11. PdfTypeOK'
  BY DEF PdfInv, PdfTypeOK
<1>12. KeysSince'
  BY <1>1 DEF PdfInv, KeysSince
<1>13. MetaCurrent'
  BY DEF PdfInv, MetaCurrent
<1>14. PageCurrent'
  BY DEF PdfInv, PageCurrent
<1>15. OneName'
  BY DEF PdfInv, OneName
<1>16. OneProducer'
  BY DEF PdfInv, OneProducer, AtPage, Whole
<1>17. ToldCurrent'
  <2>1. meta[source] \in Int /\ (meta[source] > 0 => meta[source] >= source)
    BY <1>1 DEF PdfInv, PdfTypeOK, MetaCurrent
  <2>2. rec.at = "told" => rec.got.version = meta[source] /\ rec.got.whole
    OBVIOUS
  <2>3. rec.at = "told" => rec.got.version >= rec.since
    BY <1>1, <2>1, <2>2
  <2> QED BY <2>2, <2>3 DEF PdfInv, ToldCurrent
<1> QED
  BY <1>11, <1>12, <1>13, <1>14, <1>15, <1>16, <1>17 DEF PdfInv

LEMMA AcquireStep ==
  ASSUME PdfInv, NEW r \in DOMAIN asked, Acquire(r)
  PROVE  PdfInv'
<1> DEFINE q == asked[r]
    channel == inFlight[q.phase][q.key]
    rec == IF channel = 0 THEN [q EXCEPT !.at = "produce"]
                          ELSE [q EXCEPT !.at = "wait", !.wait = channel]
<1>1. asked \in Seq(Requests) /\ q \in Requests /\ q.at = "acquire" /\ q.key \in Versions
      /\ q.phase \in Phases /\ channel \in Nat /\ r \in Nat
  BY AskedType, RequestType DEF PdfInv, PdfTypeOK, Acquire, Phases
<1>2. rec \in Requests /\ Put(r, rec)
  BY <1>1 DEF Acquire, Requests, Steps
<1>3. /\ asked' \in Seq(Requests) /\ DOMAIN asked' = DOMAIN asked
      /\ asked'[r] = rec /\ \A s \in DOMAIN asked : s # r => asked'[s] = asked[s]
  BY <1>1, <1>2, PutRequest
<1>4. UNCHANGED <<source, long, meta, drawn, image, pngs, broken>>
  BY DEF Acquire, cache
<1>5. /\ rec.key = q.key /\ rec.since = q.since /\ rec.phase = q.phase /\ rec.failed = q.failed
      /\ \/ /\ rec.at = "produce" /\ channel = 0
            /\ inFlight' = [inFlight EXCEPT ![q.phase][q.key] = r]
         \/ rec.at = "wait" /\ rec.wait = channel /\ inFlight' = inFlight
  BY <1>1 DEF Acquire, Requests
<1> HIDE DEF rec, channel
<1> USE <1>3, <1>4
<1>11. PdfTypeOK'
  <2>1. inFlight \in [Phases -> [Versions -> Nat]]
    BY DEF PdfInv, PdfTypeOK
  <2>2. inFlight' \in [Phases -> [Versions -> Nat]]
    <3>1. inFlight' = inFlight \/ inFlight' = [inFlight EXCEPT ![q.phase][q.key] = r]
      BY <1>5
    <3>2. [inFlight EXCEPT ![q.phase][q.key] = r] \in [Phases -> [Versions -> Nat]]
      <4>1. q.phase \in Phases /\ q.key \in Versions /\ r \in Nat
        BY <1>1
      <4> HIDE DEF q
      <4> QED BY <2>1, <4>1, InFlightType
    <3> QED BY <2>1, <3>1, <3>2
  <2> QED BY <1>2, <2>2 DEF PdfInv, PdfTypeOK
<1>12. KeysSince'
  BY <1>1, <1>5 DEF PdfInv, KeysSince
<1>13. MetaCurrent'
  BY <1>5 DEF PdfInv, MetaCurrent
<1>14. PageCurrent'
  BY <1>5 DEF PdfInv, PageCurrent
<1>15. OneName'
  BY DEF PdfInv, OneName
<1>16. OneProducer'
  <2>1. \A s \in DOMAIN asked : s # r => (AtPage(s)' <=> AtPage(s))
    BY <1>5 DEF AtPage, Whole
  <2>2. inFlight \in [Phases -> [Versions -> Nat]]
    BY DEF PdfInv, PdfTypeOK
  <2>3. ASSUME NEW s \in DOMAIN asked, s # r, AtPage(s), asked[s].at # "acquire"
        PROVE  inFlight'["page"][asked[s].key] = inFlight["page"][asked[s].key]
               \/ (asked[s].key = q.key /\ q.phase = "page" /\ channel = 0)
    <3>1. asked[s].key \in Versions
      BY <2>3, AskedType DEF AtPage
    <3> QED BY <1>1, <1>5, <2>2, <3>1 DEF channel, Phases
  <2>4. AtPage(r)' => /\ AtPage(r)
                      /\ rec.at = "produce" => inFlight'["page"][q.key] = r
                      /\ rec.at = "wait" => inFlight'["page"][q.key] = rec.wait /\ rec.wait # 0
    <3>1. AtPage(r)' => AtPage(r) /\ q.phase = "page"
      BY <1>1, <1>5 DEF AtPage, Whole
    <3>2. q.phase = "page" /\ rec.at = "produce" => inFlight'["page"][q.key] = r
      <4> HIDE DEF q
      <4> QED BY <1>1, <1>5, <2>2 DEF Phases
    <3>3. q.phase = "page" /\ rec.at = "wait" => inFlight'["page"][q.key] = rec.wait /\ rec.wait # 0
      BY <1>1, <1>5 DEF channel, rec
    <3> QED BY <3>1, <3>2, <3>3
  <2> QED BY <1>1, <1>5, <2>1, <2>3, <2>4 DEF PdfInv, OneProducer, Whole, AtPage, channel
<1>17. ToldCurrent'
  BY <1>5 DEF PdfInv, ToldCurrent
<1> QED
  BY <1>11, <1>12, <1>13, <1>14, <1>15, <1>16, <1>17 DEF PdfInv

LEMMA WakeStep ==
  ASSUME PdfInv, NEW r \in DOMAIN asked, Wake(r)
  PROVE  PdfInv'
<1> DEFINE q == asked[r]
    rec == IF Hit(q.phase, q.key) THEN Found(q, meta[q.key]) ELSE [q EXCEPT !.at = "produce"]
<1>1. /\ asked \in Seq(Requests) /\ q \in Requests /\ q.at = "wait" /\ q.key \in Versions
      /\ q.key \in q.since .. source /\ q.since \in Nat /\ q.since >= 1 /\ source \in Nat
      /\ inFlight[q.phase][q.key] # q.wait
  BY AskedType, RequestType DEF Wake
<1>2. meta[q.key] \in Int /\ (meta[q.key] > 0 => meta[q.key] >= q.key)
  BY <1>1 DEF PdfInv, PdfTypeOK, MetaCurrent
<1>3. rec \in Requests
  BY <1>1, <1>2, FoundType, RequestType DEF Steps
<1>4. Put(r, rec)
  BY DEF Wake
<1>5. /\ asked' \in Seq(Requests) /\ DOMAIN asked' = DOMAIN asked
      /\ asked'[r] = rec /\ \A s \in DOMAIN asked : s # r => asked'[s] = asked[s]
  BY <1>1, <1>3, <1>4, PutRequest
<1>6. UNCHANGED <<source, long, meta, drawn, image, pngs, inFlight, broken>>
  BY DEF Wake, cache
<1>7. /\ rec.key = q.key /\ rec.since = q.since /\ rec.failed = q.failed
      /\ \/ rec.at = "produce" /\ rec.phase = q.phase /\ (q.phase = "page" => image[q.key] = 0)
         \/ rec.at = "stat"
         \/ /\ rec.at = "told" /\ rec.got.version = meta[q.key] /\ rec.got.whole /\ meta[q.key] > 0
         \/ rec.at = "serve" /\ rec.phase = "page" /\ image[q.key] # 0
  <2> DEFINE found == Found(q, meta[q.key])
  <2>1. CASE Hit(q.phase, q.key)
    <3>1. rec = found
      BY <2>1
    <3>2. /\ found.since = q.since /\ found.key = q.key /\ found.failed = q.failed
          /\ \/ /\ q.phase = "page" /\ found.at = "serve" /\ found.phase = "page"
             \/ /\ q.phase = "meta" /\ found.at = "told"
                /\ found.got = [version |-> meta[q.key], whole |-> TRUE]
             \/ /\ q.phase = "meta" /\ found.at = "stat"
      BY <1>1, <1>2, FoundType
    <3> HIDE DEF rec, found
    <3> QED BY <1>1, <2>1, <3>1, <3>2 DEF Hit
  <2>2. CASE ~Hit(q.phase, q.key)
    <3>1. rec = [q EXCEPT !.at = "produce"]
      BY <2>2
    <3> QED BY <1>1, <2>2, <3>1 DEF Hit, Requests
  <2> QED BY <2>1, <2>2
<1> HIDE DEF rec
<1> USE <1>5, <1>6
<1>11. PdfTypeOK'
  BY DEF PdfInv, PdfTypeOK
<1>12. KeysSince'
  BY <1>1, <1>7 DEF PdfInv, KeysSince
<1>13. MetaCurrent'
  BY <1>7 DEF PdfInv, MetaCurrent
<1>14. PageCurrent'
  BY <1>7 DEF PdfInv, PageCurrent
<1>15. OneName'
  BY DEF PdfInv, OneName
<1>16. OneProducer'
  \* Who waited in vain for the page waited for an attempt that ended early.
  <2>1. AtPage(r)' => rec.at # "produce"
    BY <1>1, <1>7 DEF PdfInv, OneProducer, AtPage, Whole
  <2> QED BY <1>7, <2>1 DEF PdfInv, OneProducer, AtPage, Whole
<1>17. ToldCurrent'
  <2>1. rec.at = "told" => rec.got.version >= rec.since
    BY <1>1, <1>2, <1>7
  <2> QED BY <1>7, <2>1 DEF PdfInv, ToldCurrent
<1> QED
  BY <1>11, <1>12, <1>13, <1>14, <1>15, <1>16, <1>17 DEF PdfInv

LEMMA ReleaseStep ==
  ASSUME PdfInv, NEW r \in DOMAIN asked, Release(r)
  PROVE  PdfInv'
<1> DEFINE q == asked[r]
    rec == IF q.failed THEN [q EXCEPT !.at = "error"] ELSE Found(q, q.doc)
<1>1. /\ asked \in Seq(Requests) /\ q \in Requests /\ q.at = "release" /\ q.key \in Versions
      /\ q.key \in q.since .. source /\ q.since \in Nat /\ q.since >= 1 /\ source \in Nat
      /\ q.phase \in Phases /\ q.doc \in Int
      /\ inFlight' = [inFlight EXCEPT ![q.phase][q.key] = 0]
  BY AskedType, RequestType DEF Release, Phases
<1>2. rec \in Requests
  BY <1>1, FoundType, RequestType DEF Steps
<1>3. Put(r, rec)
  BY DEF Release
<1>4. /\ asked' \in Seq(Requests) /\ DOMAIN asked' = DOMAIN asked
      /\ asked'[r] = rec /\ \A s \in DOMAIN asked : s # r => asked'[s] = asked[s]
  BY <1>1, <1>2, <1>3, PutRequest
<1>5. UNCHANGED <<source, long, meta, drawn, image, pngs, broken>>
  BY DEF Release, cache
<1>6. /\ rec.key = q.key /\ rec.since = q.since /\ rec.failed = q.failed
      /\ \/ rec.at = "error"
         \/ rec.at = "stat" /\ ~q.failed
         \/ /\ rec.at = "told" /\ rec.got.version = q.doc /\ rec.got.whole
            /\ rec.phase = "meta" /\ q.phase = "meta" /\ ~q.failed
         \/ rec.at = "serve" /\ rec.phase = "page" /\ q.phase = "page" /\ ~q.failed
  <2> DEFINE found == Found(q, q.doc)
  <2>1. CASE ~q.failed
    <3>1. rec = found
      BY <2>1
    <3>2. /\ found.since = q.since /\ found.key = q.key /\ found.failed = q.failed
          /\ \/ /\ q.phase = "page" /\ found.at = "serve" /\ found.phase = "page"
             \/ /\ q.phase = "meta" /\ found.at = "told" /\ found.phase = "meta"
                /\ found.got = [version |-> q.doc, whole |-> TRUE]
             \/ /\ q.phase = "meta" /\ found.at = "stat"
      BY <1>1, FoundType
    <3> HIDE DEF rec, found
    <3> QED BY <1>1, <2>1, <3>1, <3>2
  <2>2. CASE q.failed
    <3>1. rec = [q EXCEPT !.at = "error"]
      BY <2>2
    <3> QED BY <1>1, <2>2, <3>1 DEF Requests
  <2> QED BY <2>1, <2>2
<1>7. inFlight \in [Phases -> [Versions -> Nat]]
  BY DEF PdfInv, PdfTypeOK
<1>8. /\ inFlight' \in [Phases -> [Versions -> Nat]]
      /\ \A o \in Phases, w \in Versions :
           o # q.phase \/ w # q.key => inFlight'[o][w] = inFlight[o][w]
  <2>1. q.phase \in Phases /\ q.key \in Versions /\ 0 \in Nat
    BY <1>1
  <2> HIDE DEF q
  <2> QED BY <1>1, <1>7, <2>1, InFlightType
<1> HIDE DEF rec
<1> USE <1>4, <1>5
<1>11. PdfTypeOK'
  BY <1>8 DEF PdfInv, PdfTypeOK
<1>12. KeysSince'
  BY <1>1, <1>6 DEF PdfInv, KeysSince
<1>13. MetaCurrent'
  BY <1>6 DEF PdfInv, MetaCurrent
<1>14. PageCurrent'
  BY <1>1, <1>6 DEF PdfInv, PageCurrent
<1>15. OneName'
  BY DEF PdfInv, OneName
<1>16. OneProducer'
  <2>1. \A s \in DOMAIN asked : s # r => (AtPage(s)' <=> AtPage(s))
    BY DEF AtPage, Whole
  <2>2. ~AtPage(r)' \/ rec.at = "serve" \/ rec.at = "error"
    BY <1>6 DEF AtPage
  <2>3. ASSUME NEW s \in DOMAIN asked, s # r, AtPage(s)
        PROVE  \/ inFlight'["page"][asked[s].key] = inFlight["page"][asked[s].key]
               \/ asked[s].key = q.key /\ q.phase = "page" /\ AtPage(r)
    <3>1. asked[s].key \in Versions /\ "page" \in Phases
      BY <2>3, AskedType DEF AtPage, Phases
    <3> QED BY <1>1, <1>8, <2>3, <3>1 DEF AtPage
  <2>4. AtPage(r) => inFlight["page"][q.key] = r /\ (~q.failed => image[q.key] # 0)
    BY <1>1 DEF PdfInv, OneProducer, PageCurrent, AtPage
  <2>5. AtPage(r) => ~q.failed
    BY <1>1 DEF PdfInv, OneProducer, AtPage, Whole
  <2> QED BY <1>1, <1>6, <2>1, <2>2, <2>3, <2>4, <2>5 DEF PdfInv, OneProducer, Whole
<1>17. ToldCurrent'
  <2>1. rec.at = "told" => rec.got.version >= rec.since
    BY <1>1, <1>6 DEF PdfInv, MetaCurrent
  <2> QED BY <1>6, <2>1 DEF PdfInv, ToldCurrent
<1> QED
  BY <1>11, <1>12, <1>13, <1>14, <1>15, <1>16, <1>17 DEF PdfInv

LEMMA ServeFileStep ==
  ASSUME PdfInv, NEW r \in DOMAIN asked, ServeFile(r)
  PROVE  PdfInv'
<1> DEFINE q == asked[r]
    png == pngs[image[q.key]]
    got == [version |-> png.version, whole |-> png.done]
    rec == [q EXCEPT !.at = "told", !.got = got]
<1>1. /\ asked \in Seq(Requests) /\ q \in Requests /\ q.at = "serve" /\ q.key \in Versions
      /\ q.key \in q.since .. source /\ q.since \in Nat /\ q.since >= 1 /\ source \in Nat
  BY AskedType, RequestType DEF ServeFile
<1>2. image[q.key] \in DOMAIN pngs /\ png \in Images /\ png.version >= q.key /\ q.phase = "page"
  BY <1>1 DEF PdfInv, PageCurrent, PdfTypeOK, KeysSince
<1>3. got \in Answers /\ png.version \in Int
  BY <1>2, PdfBoundsAssumption DEF Images, Answers, Versions
<1>4. rec \in Requests /\ Put(r, rec)
  BY <1>1, <1>3 DEF ServeFile, Requests, Steps
<1>5. /\ asked' \in Seq(Requests) /\ DOMAIN asked' = DOMAIN asked
      /\ asked'[r] = rec /\ \A s \in DOMAIN asked : s # r => asked'[s] = asked[s]
  BY <1>1, <1>4, PutRequest
<1>6. UNCHANGED <<source, long, meta, drawn, image, pngs, inFlight, broken>>
  BY DEF ServeFile, cache
<1>7. /\ rec.key = q.key /\ rec.since = q.since /\ rec.phase = q.phase /\ rec.at = "told"
      /\ rec.failed = q.failed
      /\ rec.got.version >= q.key /\ rec.got.whole = png.done
  BY <1>1, <1>2, <1>3 DEF Requests
<1> HIDE DEF rec, png
<1> USE <1>5, <1>6, <1>7
<1>11. PdfTypeOK'
  BY DEF PdfInv, PdfTypeOK
<1>12. KeysSince'
  BY <1>1 DEF PdfInv, KeysSince
<1>13. MetaCurrent'
  BY DEF PdfInv, MetaCurrent
<1>14. PageCurrent'
  BY DEF PdfInv, PageCurrent
<1>15. OneName'
  BY DEF PdfInv, OneName
<1>16. OneProducer'
  BY DEF PdfInv, OneProducer, AtPage, Whole
<1>17. ToldCurrent'
  <2>1. rec.got.version >= rec.since
    BY <1>1, <1>2, <1>3 DEF rec
  <2>2. long \/ q.key \in broken \/ rec.got.whole
    BY <1>1, <1>2 DEF PdfInv, OneProducer, PageCurrent, Whole, png
  <2> QED BY <2>1, <2>2 DEF PdfInv, ToldCurrent
<1> QED
  BY <1>11, <1>12, <1>13, <1>14, <1>15, <1>16, <1>17 DEF PdfInv

LEMMA ExtractStep ==
  ASSUME PdfInv, NEW r \in DOMAIN asked, ExtractMetadata(r)
  PROVE  PdfInv'
<1> DEFINE q == asked[r]
    rec == [q EXCEPT !.at = "write", !.doc = source]
<1>1. /\ asked \in Seq(Requests) /\ q \in Requests /\ q.at = "produce" /\ q.phase = "meta"
      /\ q.key \in Versions /\ q.key \in q.since .. source /\ q.since \in Nat /\ source \in Nat
      /\ source \in Int
  BY AskedType, RequestType DEF ExtractMetadata
<1>2. rec \in Requests /\ Put(r, rec)
  BY <1>1 DEF ExtractMetadata, Requests, Steps
<1>3. /\ asked' \in Seq(Requests) /\ DOMAIN asked' = DOMAIN asked
      /\ asked'[r] = rec /\ \A s \in DOMAIN asked : s # r => asked'[s] = asked[s]
  BY <1>1, <1>2, PutRequest
<1>4. UNCHANGED <<source, long, meta, drawn, image, pngs, inFlight, broken>>
  BY DEF ExtractMetadata, cache
<1>5. /\ rec.key = q.key /\ rec.since = q.since /\ rec.phase = "meta" /\ rec.at = "write"
      /\ rec.doc = source /\ rec.failed = q.failed
  BY <1>1 DEF Requests
<1> HIDE DEF rec
<1> USE <1>3, <1>4, <1>5
<1>11. PdfTypeOK'
  BY DEF PdfInv, PdfTypeOK
<1>12. KeysSince'
  BY <1>1 DEF PdfInv, KeysSince
<1>13. MetaCurrent'
  BY <1>1 DEF PdfInv, MetaCurrent
<1>14. PageCurrent'
  BY DEF PdfInv, PageCurrent
<1>15. OneName'
  BY DEF PdfInv, OneName
<1>16. OneProducer'
  BY DEF PdfInv, OneProducer, AtPage, Whole
<1>17. ToldCurrent'
  BY DEF PdfInv, ToldCurrent
<1> QED
  BY <1>11, <1>12, <1>13, <1>14, <1>15, <1>16, <1>17 DEF PdfInv

LEMMA WriteMetaStep ==
  ASSUME PdfInv, NEW r \in DOMAIN asked, WriteMeta(r)
  PROVE  PdfInv'
<1> DEFINE q == asked[r]
    rec == [q EXCEPT !.at = IF q.at = "write" THEN "writing" ELSE "release"]
    n == IF q.at = "write" THEN -1 ELSE q.doc
<1>1. /\ asked \in Seq(Requests) /\ q \in Requests /\ q.at \in {"write", "writing"}
      /\ q.phase = "meta" /\ q.key \in Versions /\ q.key \in q.since .. source
      /\ q.since \in Nat /\ source \in Nat /\ q.doc \in Int
  BY AskedType, RequestType DEF WriteMeta, PdfInv, KeysSince
<1>2. rec \in Requests /\ Put(r, rec) /\ meta' = [meta EXCEPT ![q.key] = n]
  BY <1>1, RequestType DEF WriteMeta, Steps
<1>3. /\ asked' \in Seq(Requests) /\ DOMAIN asked' = DOMAIN asked
      /\ asked'[r] = rec /\ \A s \in DOMAIN asked : s # r => asked'[s] = asked[s]
  BY <1>1, <1>2, PutRequest
<1>4. UNCHANGED <<source, long, drawn, image, pngs, inFlight, broken>>
  BY DEF WriteMeta
<1>5. /\ rec.key = q.key /\ rec.since = q.since /\ rec.phase = "meta"
      /\ rec.at \in {"writing", "release"} /\ rec.doc = q.doc /\ rec.failed = q.failed
  BY <1>1 DEF Requests
<1>6. q.doc >= q.key
  BY <1>1 DEF PdfInv, MetaCurrent
<1>7. n \in Int /\ (n > 0 => n >= q.key)
  BY <1>1, <1>6
<1> HIDE DEF rec, n
<1> USE <1>3, <1>4, <1>5
<1>11. PdfTypeOK'
  BY <1>2, <1>7 DEF PdfInv, PdfTypeOK
<1>12. KeysSince'
  BY <1>1 DEF PdfInv, KeysSince
<1>13. MetaCurrent'
  <2>1. meta \in [Versions -> Int]
    BY DEF PdfInv, PdfTypeOK
  <2> QED BY <1>1, <1>2, <1>6, <1>7, <2>1 DEF PdfInv, MetaCurrent
<1>14. PageCurrent'
  BY DEF PdfInv, PageCurrent
<1>15. OneName'
  BY DEF PdfInv, OneName
<1>16. OneProducer'
  BY DEF PdfInv, OneProducer, AtPage, Whole
<1>17. ToldCurrent'
  BY DEF PdfInv, ToldCurrent
<1> QED
  BY <1>11, <1>12, <1>13, <1>14, <1>15, <1>16, <1>17 DEF PdfInv

LEMMA BreakStep ==
  ASSUME PdfInv, NEW r \in DOMAIN asked, Break(r)
  PROVE  PdfInv'
<1> DEFINE q == asked[r]
    rec == [q EXCEPT !.at = "release", !.failed = TRUE]
<1>1. /\ asked \in Seq(Requests) /\ q \in Requests /\ q.phase \in Phases
      /\ q.at \in {"produce", "writing", "drawing"}
      /\ q.key \in Versions /\ q.key \in q.since .. source /\ q.since \in Nat /\ source \in Nat
  BY AskedType, RequestType DEF Break, Phases
<1>2. rec \in Requests /\ Put(r, rec)
  BY <1>1 DEF Break, Requests, Steps
<1>3. /\ asked' \in Seq(Requests) /\ DOMAIN asked' = DOMAIN asked
      /\ asked'[r] = rec /\ \A s \in DOMAIN asked : s # r => asked'[s] = asked[s]
  BY <1>1, <1>2, PutRequest
<1>4. /\ UNCHANGED <<source, long, meta, drawn, image, pngs, inFlight>>
      /\ broken \subseteq broken' /\ broken' \subseteq broken \cup {q.key}
      /\ q.phase = "page" => q.key \in broken'
  BY DEF Break, cache
<1>5. /\ rec.key = q.key /\ rec.since = q.since /\ rec.phase = q.phase
      /\ rec.at = "release" /\ rec.failed
  BY <1>1 DEF Requests
<1> HIDE DEF rec
<1> USE <1>3, <1>4, <1>5
<1>11. PdfTypeOK'
  BY <1>1 DEF PdfInv, PdfTypeOK
<1>12. KeysSince'
  BY <1>1 DEF PdfInv, KeysSince
<1>13. MetaCurrent'
  BY <1>1 DEF PdfInv, MetaCurrent
<1>14. PageCurrent'
  BY DEF PdfInv, PageCurrent
<1>15. OneName'
  BY DEF PdfInv, OneName
<1>16. OneProducer'
  BY DEF PdfInv, OneProducer, AtPage, Whole
<1>17. ToldCurrent'
  BY DEF PdfInv, ToldCurrent
<1> QED
  BY <1>11, <1>12, <1>13, <1>14, <1>15, <1>16, <1>17 DEF PdfInv

LEMMA SwapStep ==
  ASSUME PdfInv, Swap
  PROVE  PdfInv'
<1> USE DEF Swap, cache
<1>1. source \in Nat /\ source' = source + 1 /\ source' \in Versions
  BY PdfBoundsAssumption DEF PdfInv, PdfTypeOK, Versions
<1>2. KeysSince'
  <2> SUFFICES ASSUME NEW r \in DOMAIN asked
               PROVE  /\ asked[r].since \in 1 .. source'
                      /\ asked[r].at # "stat" => asked[r].key \in asked[r].since .. source'
    BY DEF PdfInv, KeysSince
  <2> QED BY <1>1, AskedType, RequestType
<1>3. PageCurrent'
  <2>1. \A v \in Versions : v <= source => v <= source'
    BY <1>1 DEF Versions
  <2> QED BY <2>1 DEF PdfInv, PageCurrent
<1> QED
  BY <1>1, <1>2, <1>3 DEF PdfInv, PdfTypeOK, MetaCurrent, OneName, OneProducer, AtPage,
                    Whole, ToldCurrent

LEMMA AskStep ==
  ASSUME PdfInv, NEW artifact \in Phases, Ask(artifact)
  PROVE  PdfInv'
<1> DEFINE rec == [artifact |-> artifact, since |-> source, phase |-> "meta", at |-> "stat",
                   key |-> 0, doc |-> 0, wait |-> 0, png |-> 0, failed |-> FALSE,
                   got |-> [version |-> 0, whole |-> FALSE]]
<1>1. asked \in Seq(Requests) /\ source \in Nat /\ source >= 1
  BY PdfBoundsAssumption DEF PdfInv, PdfTypeOK, Versions
<1>2. rec \in Requests /\ asked' = Append(asked, rec)
  BY <1>1 DEF Ask, Requests, Phases, Steps, Answers
<1>3. rec.at = "stat" /\ rec.since = source /\ ~rec.failed
  OBVIOUS
<1> HIDE DEF rec
<1>4. /\ asked' \in Seq(Requests) /\ DOMAIN asked \subseteq DOMAIN asked'
      /\ \A s \in DOMAIN asked' : IF s \in DOMAIN asked THEN asked'[s] = asked[s] ELSE asked'[s] = rec
  BY <1>1, <1>2
<1>5. UNCHANGED <<source, long, meta, drawn, image, pngs, inFlight, broken>>
  BY DEF Ask, cache
<1> USE <1>3, <1>4, <1>5
<1>11. PdfTypeOK'
  BY DEF PdfInv, PdfTypeOK
<1>12. KeysSince'
  BY <1>1 DEF PdfInv, KeysSince
<1>13. MetaCurrent'
  BY DEF PdfInv, MetaCurrent
<1>14. PageCurrent'
  BY DEF PdfInv, PageCurrent
<1>15. OneName'
  BY DEF PdfInv, OneName
<1>16. OneProducer'
  BY DEF PdfInv, OneProducer, AtPage, Whole
<1>17. ToldCurrent'
  BY DEF PdfInv, ToldCurrent
<1> QED
  BY <1>11, <1>12, <1>13, <1>14, <1>15, <1>16, <1>17 DEF PdfInv

LEMMA RasterizeStep ==
  ASSUME PdfInv, NEW r \in DOMAIN asked, Rasterize(r)
  PROVE  PdfInv'
<1> DEFINE q == asked[r]
    there == IF long THEN image[q.key] ELSE drawn[q.key]
    png == IF there = 0 THEN Len(pngs) + 1 ELSE there
    emptied == [version |-> source, by |-> r, done |-> FALSE]
    rec == [q EXCEPT !.at = "drawing", !.png = png]
<1>1. /\ asked \in Seq(Requests) /\ q \in Requests /\ q.at = "produce" /\ q.phase = "page"
      /\ q.key \in Versions /\ q.key \in q.since .. source /\ q.since \in Nat /\ source \in Nat
      /\ r \in Nat /\ source \in Versions
  BY AskedType, RequestType DEF Rasterize
<1>2. /\ pngs \in Seq(Images) /\ Len(pngs) \in Nat /\ DOMAIN pngs = 1 .. Len(pngs)
      /\ drawn \in [Versions -> 0 .. Len(pngs)] /\ image \in [Versions -> 0 .. Len(pngs)]
      /\ long \in BOOLEAN
  BY DEF PdfInv, PdfTypeOK
<1>3. there \in 0 .. Len(pngs) /\ png \in Nat /\ png # 0 /\ emptied \in Images
  BY <1>1, <1>2 DEF Images
<1>4. /\ pngs' \in Seq(Images) /\ Len(pngs') \in Nat /\ Len(pngs') >= Len(pngs)
      /\ png \in 1 .. Len(pngs') /\ pngs'[png] = emptied
      /\ \A i \in 1 .. Len(pngs) : i # png => pngs'[i] = pngs[i]
      /\ there # 0 => png = there
      /\ there = 0 => png \notin 1 .. Len(pngs)
  <2>1. CASE there = 0
    <3>1. pngs' = Append(pngs, emptied)
      BY <2>1 DEF Rasterize
    <3> HIDE DEF emptied, there
    <3> QED BY <1>2, <1>3, <2>1, <3>1
  <2>2. CASE there # 0
    <3>1. pngs' = [pngs EXCEPT ![png] = emptied]
      BY <2>2 DEF Rasterize
    <3> HIDE DEF emptied, there
    <3> QED BY <1>2, <1>3, <2>2, <3>1
  <2> QED BY <2>1, <2>2
<1>5. /\ IF long THEN image' = [image EXCEPT ![q.key] = png] /\ drawn' = drawn
                 ELSE drawn' = [drawn EXCEPT ![q.key] = png] /\ image' = image
      /\ UNCHANGED <<source, long, meta, inFlight, broken>>
  BY DEF Rasterize
<1>6. rec \in Requests /\ Put(r, rec)
  BY <1>1, <1>3 DEF Rasterize, Requests, Steps
<1>7. /\ asked' \in Seq(Requests) /\ DOMAIN asked' = DOMAIN asked
      /\ asked'[r] = rec /\ \A s \in DOMAIN asked : s # r => asked'[s] = asked[s]
  BY <1>1, <1>6, PutRequest
<1>8. /\ rec.key = q.key /\ rec.since = q.since /\ rec.phase = "page" /\ rec.at = "drawing"
      /\ rec.png = png /\ rec.failed = q.failed
  BY <1>1, <1>3 DEF Requests
<1>9. emptied.version = source /\ emptied.by = r
  OBVIOUS
<1>10. ASSUME ~long, NEW w \in Versions
       PROVE  png # image[w] /\ (w # q.key => drawn[w] # png)
  <2>1. there = drawn[q.key]
    BY <1>10
  <2>2. drawn[w] \in 0 .. Len(pngs) /\ image[w] \in 0 .. Len(pngs)
    BY <1>2
  <2> HIDE DEF png, there, emptied
  <2>3. CASE there = 0
    BY <1>2, <1>3, <1>4, <2>2, <2>3
  <2>4. CASE there # 0
    BY <1>1, <1>4, <2>1, <2>4 DEF PdfInv, OneName
  <2> QED BY <2>3, <2>4
<1> HIDE DEF rec, emptied, png, there
<1> USE <1>7, <1>8
<1>11. PdfTypeOK'
  <2>1. 0 .. Len(pngs) \subseteq 0 .. Len(pngs') /\ png \in 0 .. Len(pngs')
    BY <1>2, <1>4
  <2>2. /\ drawn \in [Versions -> 0 .. Len(pngs')] /\ image \in [Versions -> 0 .. Len(pngs')]
    BY <1>2, <2>1
  <2>3. drawn' \in [Versions -> 0 .. Len(pngs')] /\ image' \in [Versions -> 0 .. Len(pngs')]
    BY <1>1, <1>2, <1>5, <2>1, <2>2
  <2> QED BY <1>4, <1>5, <2>3 DEF PdfInv, PdfTypeOK
<1>12. KeysSince'
  BY <1>1, <1>5 DEF PdfInv, KeysSince
<1>13. MetaCurrent'
  BY <1>5 DEF PdfInv, MetaCurrent
<1>14. PageCurrent'
  <2>1. ASSUME NEW v \in Versions
        PROVE  /\ drawn'[v] # 0 => v <= source /\ pngs'[drawn'[v]].version >= v
               /\ image'[v] # 0 => v <= source /\ pngs'[image'[v]].version >= v
    <3>1. drawn[v] \in 0 .. Len(pngs) /\ image[v] \in 0 .. Len(pngs) /\ v \in Nat
      BY <1>2 DEF Versions
    <3>2. (drawn'[v] = drawn[v] \/ (drawn'[v] = png /\ v = q.key))
          /\ (image'[v] = image[v] \/ (image'[v] = png /\ v = q.key))
      BY <1>1, <1>2, <1>5
    <3>3. \A i \in 1 .. Len(pngs) :
            v <= source /\ pngs[i].version >= v => pngs'[i].version >= v
      BY <1>1, <1>4, <1>9, <3>1
    <3>4. q.key <= source /\ pngs'[png].version = source
      BY <1>1, <1>4, <1>9
    <3>5. /\ drawn[v] # 0 => v <= source /\ pngs[drawn[v]].version >= v
          /\ image[v] # 0 => v <= source /\ pngs[image[v]].version >= v
      BY DEF PdfInv, PageCurrent
    <3>7. drawn'[v] # 0 => v <= source /\ pngs'[drawn'[v]].version >= v
      <4>1. CASE drawn'[v] = png /\ v = q.key
        BY <1>1, <3>1, <3>4, <4>1
      <4>2. CASE drawn'[v] = drawn[v] /\ drawn[v] # 0
        <5>1. drawn[v] \in 1 .. Len(pngs)
          BY <1>2, <3>1, <4>2
        <5> QED BY <3>3, <3>5, <4>2, <5>1
      <4> QED BY <3>2, <4>1, <4>2
    <3>8. image'[v] # 0 => v <= source /\ pngs'[image'[v]].version >= v
      <4>1. CASE image'[v] = png /\ v = q.key
        BY <1>1, <3>1, <3>4, <4>1
      <4>2. CASE image'[v] = image[v] /\ image[v] # 0
        <5>1. image[v] \in 1 .. Len(pngs)
          BY <1>2, <3>1, <4>2
        <5> QED BY <3>3, <3>5, <4>2, <5>1
      <4> QED BY <3>2, <4>1, <4>2
    <3> QED BY <3>7, <3>8
  <2>2. \A v \in Versions : /\ image[v] # 0 => image'[v] # 0
                            /\ drawn[v] # 0 => drawn'[v] # 0
    BY <1>1, <1>2, <1>3, <1>5
  <2>3. image'[q.key] # 0 \/ (~long /\ drawn'[q.key] # 0)
    BY <1>1, <1>2, <1>3, <1>5
  <2>4. \A s \in DOMAIN asked : asked[s].at # "stat" => asked[s].key \in Versions
    BY AskedType
  <2> QED BY <1>5, <2>1, <2>2, <2>3, <2>4 DEF PdfInv, PageCurrent
<1>15. OneName'
  <2>1. CASE long
    <3>1. \A v \in Versions : drawn[v] = 0
      BY <2>1 DEF PdfInv, OneName
    <3> QED BY <1>5, <2>1, <3>1 DEF OneName
  <2>2. CASE ~long
    <3>1. /\ image' = image /\ drawn'[q.key] = png
          /\ \A w \in Versions : w # q.key => drawn'[w] = drawn[w]
      BY <1>1, <1>2, <1>5, <2>2
    <3>2. ~long'
      BY <1>5, <2>2
    <3>3. \A v, w \in Versions :
            drawn'[v] # 0 => drawn'[v] # image[w] /\ (v # w => drawn'[v] # drawn'[w])
      <4> SUFFICES ASSUME NEW v \in Versions, NEW w \in Versions, drawn'[v] # 0
                   PROVE  drawn'[v] # image[w] /\ (v # w => drawn'[v] # drawn'[w])
        OBVIOUS
      <4>1. CASE v = q.key
        BY <1>10, <2>2, <3>1, <4>1
      <4>2. CASE v # q.key
        BY <1>10, <2>2, <3>1, <4>2 DEF PdfInv, OneName
      <4> QED BY <4>1, <4>2
    <3> QED BY <3>1, <3>2, <3>3 DEF OneName
  <2> QED BY <2>1, <2>2
<1>16. OneProducer'
  <2>1. CASE long
    BY <1>5, <2>1 DEF OneProducer, AtPage, Whole
  <2>2. CASE ~long
    <3>1. \A v \in Versions : image[v] # 0 => pngs'[image[v]] = pngs[image[v]]
      <4>1. \A v \in Versions : image[v] \in 0 .. Len(pngs)
        BY <1>2
      <4> QED BY <1>2, <1>4, <1>10, <2>2, <4>1
    <3>2. \A s \in DOMAIN asked : s # r => (AtPage(s)' <=> AtPage(s))
      BY <1>5 DEF AtPage, Whole
    <3>3. AtPage(r)' => AtPage(r)
      BY <1>1, <1>5 DEF AtPage, Whole
    <3>4. ASSUME NEW s \in DOMAIN asked, s # r, AtPage(s), asked[s].at = "drawing"
          PROVE  drawn'[asked[s].key] = drawn[asked[s].key] /\ pngs'[asked[s].png] = pngs[asked[s].png]
      <4>1. asked[s].key \in Versions /\ asked[s].key # q.key
        BY <1>1, <3>4, AskedType DEF PdfInv, OneProducer, AtPage
      <4>2. asked[s].png = drawn[asked[s].key] /\ asked[s].png # 0
        BY <3>4 DEF PdfInv, OneProducer
      <4>3. drawn'[asked[s].key] = drawn[asked[s].key]
        BY <1>1, <1>2, <1>5, <2>2, <4>1
      <4>4. drawn[asked[s].key] # png /\ drawn[asked[s].key] \in 0 .. Len(pngs)
        BY <1>2, <1>10, <2>2, <4>1
      <4> QED BY <1>2, <1>4, <4>1, <4>2, <4>3, <4>4
    <3>5. drawn'[q.key] = png /\ png # 0 /\ pngs'[png].by = r
      BY <1>1, <1>2, <1>3, <1>4, <1>5, <1>9, <2>2
    <3>6. image' = image /\ UNCHANGED <<long, inFlight, broken>>
      BY <1>5, <2>2
    <3>7. \A v \in Versions : Whole(v)' /\ image'[v] # 0 => pngs'[image'[v]].done
      BY <3>1, <3>6 DEF PdfInv, OneProducer, Whole
    <3>8. ASSUME NEW s \in DOMAIN asked, AtPage(s)', s # r
          PROVE  LET p == asked[s] IN
                 /\ p.at = "release" => ~p.failed
                 /\ p.at \in {"produce", "drawing", "release"} => inFlight["page"][p.key] = s
                 /\ p.at = "wait" =>
                      p.wait # 0 /\ (inFlight["page"][p.key] = p.wait \/ image[p.key] # 0)
                 /\ p.at = "drawing" => /\ p.png = drawn'[p.key] /\ p.png # 0
                                        /\ pngs'[p.png].by = s
      BY <3>2, <3>4, <3>8 DEF PdfInv, OneProducer
    <3>9. AtPage(r)' => inFlight["page"][q.key] = r
      BY <1>1, <3>3 DEF PdfInv, OneProducer
    <3> QED BY <3>5, <3>6, <3>7, <3>8, <3>9 DEF OneProducer
  <2> QED BY <1>2, <2>1, <2>2
<1>17. ToldCurrent'
  BY <1>5 DEF PdfInv, ToldCurrent
<1> QED
  BY <1>11, <1>12, <1>13, <1>14, <1>15, <1>16, <1>17 DEF PdfInv

LEMMA RasterizedStep ==
  ASSUME PdfInv, NEW r \in DOMAIN asked, Rasterized(r)
  PROVE  PdfInv'
<1> DEFINE q == asked[r]
    rec == [q EXCEPT !.at = "release"]
<1>1. /\ asked \in Seq(Requests) /\ q \in Requests /\ q.at = "drawing" /\ q.phase = "page"
      /\ q.key \in Versions /\ q.key \in q.since .. source /\ q.since \in Nat /\ source \in Nat
  BY AskedType, RequestType DEF Rasterized, PdfInv, KeysSince
<1>2. /\ pngs \in Seq(Images) /\ Len(pngs) \in Nat /\ DOMAIN pngs = 1 .. Len(pngs)
      /\ drawn \in [Versions -> 0 .. Len(pngs)] /\ image \in [Versions -> 0 .. Len(pngs)]
      /\ long \in BOOLEAN
  BY DEF PdfInv, PdfTypeOK
<1>3. /\ pngs' \in Seq(Images) /\ DOMAIN pngs' = DOMAIN pngs /\ Len(pngs') = Len(pngs)
      /\ \A i \in DOMAIN pngs : /\ pngs'[i].version = pngs[i].version /\ pngs'[i].by = pngs[i].by
                                /\ pngs[i].done => pngs'[i].done
      /\ q.png \in DOMAIN pngs /\ pngs[q.png].by = r => pngs'[q.png].done
  <2>1. pngs' = pngs \/ pngs' = [pngs EXCEPT ![q.png].done = TRUE]
    BY DEF Rasterized
  <2>2. pngs[q.png].by = r => pngs' = [pngs EXCEPT ![q.png].done = TRUE]
    BY DEF Rasterized
  <2>3. \A i \in DOMAIN pngs : pngs[i] \in Images
    BY <1>2
  <2>4. CASE pngs' = pngs /\ pngs[q.png].by # r
    BY <1>2, <2>4
  <2>5. CASE pngs' = [pngs EXCEPT ![q.png].done = TRUE]
    <3> DEFINE n == q.png
    <3>1. pngs' = [pngs EXCEPT ![n].done = TRUE]
      BY <2>5
    <3> HIDE DEF n
    <3>2. \A i \in DOMAIN pngs : i # n => pngs'[i] = pngs[i]
      BY <1>2, <3>1
    <3>3. n \in DOMAIN pngs => pngs'[n] = [pngs[n] EXCEPT !.done = TRUE]
      BY <1>2, <3>1
    <3>4. \A i \in DOMAIN pngs : [pngs[i] EXCEPT !.done = TRUE] \in Images
      BY <2>3 DEF Images
    <3>5. DOMAIN pngs' = DOMAIN pngs /\ \A i \in DOMAIN pngs : pngs'[i] \in Images
      BY <2>3, <3>1, <3>2, <3>3, <3>4
    <3>6. pngs' \in Seq(Images) /\ Len(pngs') = Len(pngs)
      <4>1. pngs' = [i \in 1 .. Len(pngs) |-> pngs'[i]]
        BY <1>2, <3>1
      <4>2. \A i \in 1 .. Len(pngs) : pngs'[i] \in Images
        BY <1>2, <3>5
      <4> HIDE <3>1
      <4> QED BY <1>2, <4>1, <4>2
    <3>7. \A i \in DOMAIN pngs : /\ pngs'[i].version = pngs[i].version /\ pngs'[i].by = pngs[i].by
                                 /\ pngs[i].done => pngs'[i].done
      BY <2>3, <3>2, <3>3 DEF Images
    <3>8. n \in DOMAIN pngs => pngs'[n].done
      BY <2>3, <3>3 DEF Images
    <3> QED BY <3>5, <3>6, <3>7, <3>8 DEF n
  <2> QED BY <2>1, <2>2, <2>4, <2>5
<1>4. /\ IF image[q.key] = 0
         THEN image' = [image EXCEPT ![q.key] = drawn[q.key]] /\ drawn' = [drawn EXCEPT ![q.key] = 0]
         ELSE image' = image /\ drawn' = drawn
      /\ UNCHANGED <<source, long, meta, inFlight, broken>>
  BY DEF Rasterized
<1>5. rec \in Requests /\ Put(r, rec)
  BY <1>1, RequestType DEF Rasterized, Steps
<1>6. /\ asked' \in Seq(Requests) /\ DOMAIN asked' = DOMAIN asked
      /\ asked'[r] = rec /\ \A s \in DOMAIN asked : s # r => asked'[s] = asked[s]
  BY <1>1, <1>5, PutRequest
<1>7. /\ rec.key = q.key /\ rec.since = q.since /\ rec.phase = "page" /\ rec.at = "release"
      /\ rec.failed = q.failed
  BY <1>1 DEF Requests
<1>8. image[q.key] # 0 \/ (~long /\ drawn[q.key] # 0)
  BY <1>1 DEF PdfInv, PageCurrent
<1> HIDE DEF rec
<1> USE <1>6, <1>7
<1>11. PdfTypeOK'
  <2>1. drawn' \in [Versions -> 0 .. Len(pngs')] /\ image' \in [Versions -> 0 .. Len(pngs')]
    BY <1>1, <1>2, <1>3, <1>4
  <2> QED BY <1>3, <1>4, <2>1 DEF PdfInv, PdfTypeOK
<1>12. KeysSince'
  BY <1>1, <1>4 DEF PdfInv, KeysSince
<1>13. MetaCurrent'
  BY <1>4 DEF PdfInv, MetaCurrent
<1>14. PageCurrent'
  <2>1. ASSUME NEW v \in Versions
        PROVE  /\ drawn'[v] # 0 => v <= source /\ pngs'[drawn'[v]].version >= v
               /\ image'[v] # 0 => v <= source /\ pngs'[image'[v]].version >= v
    <3>1. drawn[v] \in 0 .. Len(pngs) /\ image[v] \in 0 .. Len(pngs)
      BY <1>2
    <3>2. drawn'[v] \in {0, drawn[v]} /\ image'[v] \in {image[v], drawn[v]}
      BY <1>1, <1>2, <1>4
    <3> QED BY <1>2, <1>3, <3>1, <3>2 DEF PdfInv, PageCurrent
  <2>2. \A v \in Versions : /\ image[v] # 0 => image'[v] # 0
                            /\ drawn'[v] # drawn[v] => image'[v] # 0
    BY <1>1, <1>2, <1>4, <1>8
  <2>3. image'[q.key] # 0
    BY <1>1, <1>2, <1>4, <1>8
  <2>4. \A s \in DOMAIN asked : asked[s].at # "stat" => asked[s].key \in Versions
    BY AskedType
  <2> QED BY <1>4, <2>1, <2>2, <2>3, <2>4 DEF PdfInv, PageCurrent
<1>15. OneName'
  <2>1. CASE image[q.key] # 0
    BY <1>4, <2>1 DEF PdfInv, OneName
  <2>2. CASE image[q.key] = 0
    <3>1. \A v \in Versions : /\ drawn'[v] = IF v = q.key THEN 0 ELSE drawn[v]
                              /\ image'[v] = IF v = q.key THEN drawn[v] ELSE image[v]
      BY <1>1, <1>2, <1>4, <2>2
    <3> QED BY <1>1, <1>4, <3>1 DEF PdfInv, OneName
  <2> QED BY <2>1, <2>2
<1>16. OneProducer'
  <2>1. CASE long
    BY <1>4, <2>1 DEF OneProducer, AtPage, Whole
  <2>2. CASE ~long
    <3>1. \A s \in DOMAIN asked : s # r => (AtPage(s)' <=> AtPage(s))
      BY <1>4 DEF AtPage, Whole
    <3>2. AtPage(r) <=> Whole(q.key)
      BY <1>1 DEF AtPage
    <3>3. ASSUME NEW v \in Versions, Whole(v), image'[v] # 0
          PROVE  pngs'[image'[v]].done
      <4>1. CASE image'[v] = image[v]
        BY <1>2, <1>3, <3>3, <4>1 DEF PdfInv, OneProducer
      <4>2. CASE image'[v] # image[v]
        <5>1. v = q.key /\ image'[v] = drawn[v]
          BY <1>1, <1>2, <1>4, <4>2
        <5>2. drawn[v] = q.png /\ pngs[q.png].by = r
          BY <1>1, <3>2, <3>3, <5>1 DEF PdfInv, OneProducer
        <5> QED BY <1>2, <1>3, <3>3, <5>1, <5>2
      <4> QED BY <4>1, <4>2
    <3>4. ASSUME NEW s \in DOMAIN asked, s # r, AtPage(s), asked[s].at = "drawing"
          PROVE  /\ drawn'[asked[s].key] = drawn[asked[s].key] /\ asked[s].png \in DOMAIN pngs
      <4>1. asked[s].key \in Versions /\ asked[s].key # q.key
        BY <1>1, <3>4, AskedType DEF PdfInv, OneProducer, AtPage
      <4>2. asked[s].png = drawn[asked[s].key] /\ asked[s].png # 0
        BY <3>4 DEF PdfInv, OneProducer
      <4> QED BY <1>1, <1>2, <1>4, <4>1, <4>2
    <3>5. \A s \in DOMAIN asked : asked[s].at # "stat" => asked[s].key \in Versions
      BY AskedType
    <3>6. \A v \in Versions : image[v] # 0 => image'[v] # 0
      BY <1>1, <1>2, <1>4, <1>8
    <3>7. ~q.failed \/ ~AtPage(r)
      BY <1>1 DEF PdfInv, KeysSince
    <3>8. AtPage(r)' <=> AtPage(r)
      BY <1>1, <1>4 DEF AtPage, Whole
    <3>9. Whole(1)' <=> Whole(1)
      BY <1>4 DEF Whole
    <3> QED BY <1>1, <1>3, <1>4, <2>2, <3>1, <3>3, <3>4, <3>5, <3>6, <3>7, <3>8 DEF PdfInv, OneProducer, Whole, AtPage
  <2> QED BY <1>2, <2>1, <2>2
<1>17. ToldCurrent'
  BY <1>4 DEF PdfInv, ToldCurrent
<1> QED
  BY <1>11, <1>12, <1>13, <1>14, <1>15, <1>16, <1>17 DEF PdfInv

LEMMA PdfStarts == PdfInit => PdfInv
<1> SUFFICES ASSUME PdfInit PROVE PdfInv
  OBVIOUS
<1>1. 1 \in Versions /\ asked = << >> /\ pngs = << >> /\ asked \in Seq(Requests) /\ pngs \in Seq(Images)
  BY PdfBoundsAssumption DEF PdfInit, Versions
<1>2. Len(pngs) = 0 /\ DOMAIN asked = {}
  BY <1>1
<1>3. PdfTypeOK
  BY <1>1, <1>2 DEF PdfInit, PdfTypeOK
<1> QED
  BY <1>2, <1>3 DEF PdfInit, PdfInv, KeysSince, MetaCurrent, PageCurrent, OneName, OneProducer, ToldCurrent

\* Whatever the number of requests, versions and crashes: a directory is named
\* after a version that the PDF had since the request came, whatever lies in it is
\* of that version or a later one, and, unless an attempt at a page ended early,
\* whoever works on it is registered and whoever waits for it finds it.
THEOREM PdfInvariant == PdfSpec => []PdfInv
<1>1. ASSUME PdfInv, [PdfNext]_pdfVars
      PROVE  PdfInv'
  <2>1. CASE UNCHANGED pdfVars
    BY <1>1, <2>1 DEF pdfVars, PdfInv, PdfTypeOK, KeysSince, MetaCurrent, PageCurrent, OneName,
                      OneProducer, AtPage, Whole, ToldCurrent
  <2>2. CASE PdfNext
    BY <1>1, <2>2, StatStep, AcquireStep, WakeStep, ReleaseStep, ServeFileStep, ExtractStep,
       WriteMetaStep, RasterizeStep, RasterizedStep, BreakStep, SwapStep, AskStep
    DEF PdfNext, PdfDispatch
  <2> QED BY <1>1, <2>1, <2>2
<1> QED
  BY <1>1, PdfStarts, PTL DEF PdfSpec

\* From it: what a request is told is of a version that the PDF had while it was
\* under way, and a page is drawn by one process at a time (Metadata,
\* RenderPageWithMeta).
THEOREM PdfPagesAreServed == PdfSpec => []PdfPagesServed
<1>1. PdfInv => PdfPagesServed
  <2> SUFFICES ASSUME PdfInv PROVE PdfPagesServed
    OBVIOUS
  <2>1. ASSUME NEW r \in DOMAIN asked, NEW s \in DOMAIN asked,
               asked[r].at = "drawing", asked[s].at = "drawing", asked[r].key = asked[s].key
        PROVE  r = s \/ long \/ asked[r].key \in broken
    BY <2>1 DEF PdfInv, OneProducer, AtPage, Whole, KeysSince
  <2> QED BY <2>1 DEF PdfInv, PdfPagesServed, ToldCurrent
<1> QED
  BY <1>1, PdfInvariant, PTL
-----------------------------------------------------------------------------
(***************************************************************************)
(* Merges of a client                                                      *)
(***************************************************************************)
NoRisk == Risks = {}

\* What a path holds of edits is in the tree.
LEMMA EditsThere ==
  ASSUME NEW t \in FileTrees, NEW p \in Paths, t[p] # Absent
  PROVE  t[p] \subseteq EditsIn(t)
BY DEF EditsIn

\* The ops that may meet.
LEMMA OpsThatMeet ==
  ASSUME NoRisk, in \in Inputs
  PROVE  /\ in.base \in {Absent, {1}} /\ in.binary \in BOOLEAN /\ in.format \in Formats
         /\ in.meet \in BOOLEAN
         /\ \/ \E c \in {{1, 2}, {2}} : in.theirs = Write("x", c, in.base)
            \/ in.theirs = Delete("x", in.base) /\ in.base = {1}
            \/ in.theirs = Rename("x", "y", in.base) /\ in.base = {1}
         /\ \/ in.ours = NoOp
            \/ \E c \in {{1, 3}, {3}, {1, 2}} : in.ours = Write("x", c, in.base)
            \/ in.ours = Delete("x", in.base) /\ in.base = {1}
         /\ in.theirs.type = "rename" => in.ours.type # "write"
         /\ in.theirs.type = "delete" => in.ours.type # "delete"
         /\ BothWrite => ~in.binary /\ (in.meet => in.format # "sidecar")
<1>1. in.theirs.pre = in.base /\ (in.ours.type # "none" => in.ours.pre = in.base) /\ ~Risky(in)
  BY DEF Inputs
<1>2. in.ours \in {NoOp, Write("x", {1, 3}, {1}), Write("x", {3}, Absent),
                  Write("x", {1, 2}, {1}), Delete("x", {1}), Rename("x", "n", {1})}
  BY DEF Inputs
<1>3. in.theirs \in {Write("x", c, b) : c \in {{1, 2}, {2}}, b \in {Absent, {1}}} \cup
                   {Delete("x", {1}), Rename("x", "y", {1})}
  BY DEF Inputs
<1>4. /\ in.base \in {Absent, {1}} /\ in.binary \in BOOLEAN /\ in.format \in Formats
      /\ in.meet \in BOOLEAN
  BY DEF Inputs
<1>5. in.ours.type # "rename"
  BY <1>1 DEF NoRisk, Risky
<1>6. \/ in.ours = NoOp
      \/ \E c \in {{1, 3}, {3}, {1, 2}} : in.ours = Write("x", c, in.base)
      \/ in.ours = Delete("x", in.base) /\ in.base = {1}
  BY <1>1, <1>2, <1>5 DEF NoOp, Write, Delete, Rename
<1>7. \/ \E c \in {{1, 2}, {2}} : in.theirs = Write("x", c, in.base)
      \/ in.theirs = Delete("x", in.base) /\ in.base = {1}
      \/ in.theirs = Rename("x", "y", in.base) /\ in.base = {1}
  <2>1. CASE in.theirs \in {Write("x", c, b) : c \in {{1, 2}, {2}}, b \in {Absent, {1}}}
    <3>1. PICK c \in {{1, 2}, {2}}, b \in {Absent, {1}} : in.theirs = Write("x", c, b)
      BY <2>1
    <3>2. b = in.base
      BY <3>1, <1>1 DEF Write
    <3> QED BY <3>1, <3>2
  <2>2. CASE in.theirs \in {Delete("x", {1}), Rename("x", "y", {1})}
    BY <2>2, <1>1 DEF Delete, Rename
  <2> QED BY <2>1, <2>2, <1>3
<1>8. /\ in.theirs.type = "rename" => in.ours.type # "write"
      /\ in.theirs.type = "delete" => in.ours.type # "delete"
      /\ BothWrite => ~in.binary /\ (in.meet => in.format # "sidecar")
  BY <1>1 DEF NoRisk, Risky, BothWrite
<1> QED BY <1>4, <1>6, <1>7, <1>8
-----------------------------------------------------------------------------
\* What is to be shown of the files after an op is classified and applied.
DecideHolds ==
  /\ LeftIsDrift' /\ DOMAIN server' = Paths /\ DOMAIN bstore' = Paths
  /\ disk' \in FileTrees /\ manifest' \in FileTrees
  /\ \A p \in Notable : manifest'[p] = server'[p] /\ bstore'[p] = server'[p]
  /\ Edited' \subseteq EditsIn(disk')
  /\ BothWrite' => disk'["x"] # Absent /\ Edited' \subseteq disk'["x"]

\* The decisions, one case for each pair of ops that may meet.
LEMMA DecideStep ==
  ASSUME NoRisk, ConflictInv, Decide
  PROVE  DecideHolds
<1> DEFINE d == Classified
           m == [p \in Paths |-> IF p = "x" THEN in.base ELSE Absent]
<1>1. /\ in \in Inputs /\ Unclassified /\ UNCHANGED <<in, server>>
      /\ disk' = OnDisk(d) /\ bstore' = Known(bstore, d) /\ staged' = d.staged
      /\ manifest' = IF d.action = "sidecar"
                     THEN [Known(manifest, d) EXCEPT ![d.sidecar] = d.content]
                     ELSE Known(manifest, d)
  BY DEF ConflictInv, Decide
<1>2. /\ manifest = m /\ bstore = m /\ staged = in.ours
      /\ disk = Done(m, in.ours) /\ server = Done(m, in.theirs)
  BY <1>1, Zenon DEF Unclassified
<1>3. \A p \in Paths : m[p] = IF p = "x" THEN in.base ELSE Absent
  OBVIOUS
<1>4. m \in [Paths -> {Absent, {1}}]
  BY <1>1, OpsThatMeet
<1>5. {1} # Absent /\ {2} # Absent /\ {3} # Absent /\ {1, 2} # Absent /\ {1, 3} # Absent
  BY AbsentAssumption
<1>t. /\ m \in FileTrees
      /\ \A t \in FileTrees, p \in Paths, c \in {Absent} \cup SUBSET (0 .. 3) :
            [t EXCEPT ![p] = c] \in FileTrees
      /\ {Absent, {1}, {2}, {3}, {1, 2}, {1, 3}} \subseteq {Absent} \cup SUBSET (0 .. 3)
      /\ "x" \in Paths /\ "y" \in Paths /\ "xs" \in Paths
  <2>1. {Absent, {1}, {2}, {3}, {1, 2}, {1, 3}} \subseteq {Absent} \cup SUBSET (0 .. 3)
    OBVIOUS
  <2>2. m \in FileTrees
    BY <1>4, <2>1 DEF FileTrees
  <2>3. ASSUME NEW t \in FileTrees, NEW p \in Paths, NEW c \in {Absent} \cup SUBSET (0 .. 3)
        PROVE  [t EXCEPT ![p] = c] \in FileTrees
    BY DEF FileTrees
  <2> QED BY <2>1, <2>2, <2>3 DEF Paths
<1> HIDE DEF m, d
<1>6. CASE \E c \in {{1, 2}, {2}} : in.theirs = Write("x", c, in.base)
  <2>1. PICK c \in {{1, 2}, {2}} : in.theirs = Write("x", c, in.base)
    BY <1>6
  <2>2. /\ in.theirs.type = "write" /\ in.theirs.path = "x" /\ in.theirs.data = c
        /\ in.theirs.pre = in.base /\ EditsOf(in.theirs) = c
    BY <2>1 DEF Write, EditsOf
  <2>3. server = [m EXCEPT !["x"] = c]
    BY <1>2, <2>2 DEF Done
  <2>4. CASE in.ours = NoOp
    <3>1. d = Decision("apply", c, NoOp) /\ EditsOf(in.ours) = {} /\ in.ours.type = "none"
      BY <2>2, <2>4 DEF d, Classified, NoOp, EditsOf
    <3>2. disk = m
      BY <1>2, <3>1 DEF Done
    <3>3. Known(m, d) = [m EXCEPT !["x"] = c] /\ d.action = "apply" /\ d.content = c /\ d.staged = NoOp
      BY <3>1, <2>2 DEF Known, Done, Decision
    <3>4. disk' = [m EXCEPT !["x"] = c]
      BY <1>1, <3>2, <3>3 DEF OnDisk
    <3>5. manifest' = [m EXCEPT !["x"] = c] /\ bstore' = [m EXCEPT !["x"] = c] /\ staged' = NoOp
      BY <1>1, <1>2, <3>3
    <3>6. disk' \in FileTrees /\ "x" \in Paths
      BY <3>4, <1>4, AbsentAssumption DEF FileTrees, Paths
    <3>7. c \subseteq EditsIn(disk')
      <4>1. disk'["x"] = c /\ c # Absent
        BY <3>4, <1>4, <1>5 DEF Paths
      <4> QED BY <4>1, <3>6, EditsThere
    <3>8. server' = [m EXCEPT !["x"] = c] /\ in' = in
      BY <1>1, <2>3
    <3>9. LeftIsDrift'
      BY <3>4, <3>5 DEF LeftIsDrift, Fits, NoOp, Done
    <3>10. DOMAIN server' = Paths /\ DOMAIN bstore' = Paths /\ disk' \in FileTrees /\ manifest' \in FileTrees
      BY <3>4, <3>5, <3>6, <3>8 DEF FileTrees
    <3>11. Edited' \subseteq EditsIn(disk') /\ ~BothWrite'
      BY <3>1, <3>7, <3>8, <2>2 DEF Edited, BothWrite
    <3> QED
      BY <3>5, <3>8, <3>9, <3>10, <3>11 DEF DecideHolds
  <2>5. CASE \E e \in {{1, 3}, {3}, {1, 2}} : in.ours = Write("x", e, in.base)
    <3>1. PICK e \in {{1, 3}, {3}, {1, 2}} : in.ours = Write("x", e, in.base)
      BY <2>5
    <3>2. /\ in.ours.type = "write" /\ in.ours.data = e /\ in.ours.path = "x"
          /\ EditsOf(in.ours) = e /\ BothWrite
      BY <2>2, <3>1 DEF Write, EditsOf, BothWrite
    <3> DEFINE cc == IF Clean THEN Both ELSE Both \cup {0}
    <3>3. cc \in SUBSET (0 .. 3) /\ c \cup e \subseteq cc
      BY <2>2, <3>2 DEF Both
    <3>4. ~in.binary /\ (~Clean => in.format # "sidecar")
      BY <1>1, <3>2, OpsThatMeet DEF Clean
    <3>5. d = Decision("merge", cc, Write("x", cc, c))
      BY <2>2, <3>2, <3>4 DEF d, Classified, WriteWrite
    <3> HIDE DEF cc
    <3>6. d.action = "merge" /\ d.content = cc /\ d.staged = Write("x", cc, c)
      BY <3>5 DEF Decision
    <3>7. disk = [m EXCEPT !["x"] = e] /\ Known(m, d) = [m EXCEPT !["x"] = c]
      BY <1>2, <3>2, <2>2, <3>6 DEF Done, Known
    <3>8. disk' = [m EXCEPT !["x"] = cc]
      BY <1>1, <1>4, <3>6, <3>7 DEF OnDisk
    <3>9. /\ manifest' = [m EXCEPT !["x"] = c] /\ bstore' = [m EXCEPT !["x"] = c]
          /\ staged' = Write("x", cc, c) /\ server' = [m EXCEPT !["x"] = c] /\ in' = in
      BY <1>1, <1>2, <2>3, <3>6, <3>7
    <3>10. disk' \in FileTrees /\ manifest' \in FileTrees /\ "x" \in Paths
      BY <3>3, <3>8, <3>9, <1>t
    <3>11. LeftIsDrift'
      BY <3>8, <3>9, <3>10, <1>4 DEF LeftIsDrift, Fits, Write, Done, Paths
    <3>12. DOMAIN server' = Paths /\ DOMAIN bstore' = Paths
      BY <3>8, <3>9, <1>4
    <3>13. disk'["x"] = cc /\ cc # Absent
      BY <3>3, <3>8, <1>4, AbsentAssumption DEF Paths
    <3>14. Edited' \subseteq cc
      BY <3>2, <2>2, <3>3, <3>9 DEF Edited
    <3>15. Edited' \subseteq EditsIn(disk')
      BY <3>10, <3>13, <3>14, EditsThere
    <3> QED
      BY <3>9, <3>10, <3>11, <3>12, <3>13, <3>14, <3>15 DEF DecideHolds
  <2>6. CASE in.ours = Delete("x", in.base) /\ in.base = {1}
    <3>1. in.ours.type = "delete" /\ in.ours.path = "x" /\ EditsOf(in.ours) = {} /\ in.ours.data = Absent
      BY <2>6 DEF Delete, EditsOf
    <3>2. d = WithSidecar(Decision("sidecar", c, Delete("x", c)), "x")
      BY <2>2, <3>1 DEF d, Classified
    <3>3. d.action = "sidecar" /\ d.content = c /\ d.staged = Delete("x", c) /\ d.sidecar = "xs"
      BY <3>2 DEF Decision, WithSidecar, SidecarPath
    <3>4. disk = [m EXCEPT !["x"] = Absent] /\ Known(m, d) = [m EXCEPT !["x"] = c]
      BY <1>2, <3>1, <2>2, <3>3 DEF Done, Known
    <3>5. disk' = [m EXCEPT !["x"] = Absent, !["xs"] = c]
      BY <1>1, <1>4, <2>2, <3>3, <3>4 DEF OnDisk, Paths
    <3>6. /\ manifest' = [m EXCEPT !["x"] = c, !["xs"] = c] /\ bstore' = [m EXCEPT !["x"] = c]
          /\ staged' = Delete("x", c) /\ server' = [m EXCEPT !["x"] = c] /\ in' = in
      BY <1>1, <1>2, <2>3, <3>3, <3>4
    <3>7. disk' \in FileTrees /\ manifest' \in FileTrees
      BY <3>5, <3>6, <1>t
    <3>8. LeftIsDrift'
      BY <3>5, <3>6, <1>4 DEF LeftIsDrift, Fits, Delete, Done, Paths
    <3>9. DOMAIN server' = Paths /\ DOMAIN bstore' = Paths
      BY <3>5, <3>6, <1>4
    <3>10. disk'["xs"] = c /\ c # Absent /\ "xs" \in Paths
      BY <3>5, <1>4, <1>5 DEF Paths
    <3>11. Edited' \subseteq EditsIn(disk') /\ ~BothWrite'
      BY <3>1, <2>2, <3>6, <3>7, <3>10, EditsThere DEF Edited, BothWrite
    <3>12. \A p \in Notable : manifest'[p] = server'[p] /\ bstore'[p] = server'[p]
      BY <3>6, <1>4 DEF Notable, Paths
    <3> QED
      BY <3>7, <3>8, <3>9, <3>11, <3>12 DEF DecideHolds
  <2> QED BY <1>1, <2>4, <2>5, <2>6, OpsThatMeet
<1>7. CASE in.theirs = Delete("x", in.base) /\ in.base = {1}
  <2>1. /\ in.theirs.type = "delete" /\ in.theirs.path = "x" /\ in.theirs.data = Absent
        /\ EditsOf(in.theirs) = {}
    BY <1>7 DEF Delete, EditsOf
  <2>2. server = [m EXCEPT !["x"] = Absent] /\ server' = server /\ in' = in /\ ~BothWrite'
    BY <1>1, <1>2, <2>1 DEF Done, BothWrite
  <2>3. CASE in.ours = NoOp
    <3>1. d = Decision("applyDelete", Absent, NoOp) /\ EditsOf(in.ours) = {} /\ in.ours.type = "none"
      BY <2>1, <2>3 DEF d, Classified, NoOp, EditsOf
    <3>2. d.action = "applyDelete" /\ d.staged = NoOp /\ disk = m
      BY <1>2, <3>1 DEF Decision, Done
    <3>3. Known(m, d) = [m EXCEPT !["x"] = Absent]
      BY <3>2, <2>1 DEF Known, Done
    <3>4. /\ disk' = [m EXCEPT !["x"] = Absent] /\ manifest' = [m EXCEPT !["x"] = Absent]
          /\ bstore' = [m EXCEPT !["x"] = Absent] /\ staged' = NoOp
      BY <1>1, <1>2, <3>2, <3>3 DEF OnDisk
    <3>5. LeftIsDrift'
      BY <3>4 DEF LeftIsDrift, Fits, NoOp, Done
    <3>6. DOMAIN server' = Paths /\ DOMAIN bstore' = Paths /\ disk' \in FileTrees /\ manifest' \in FileTrees
      BY <3>4, <2>2, <1>4, <1>t
    <3>7. Edited' = {}
      BY <3>1, <2>1, <2>2 DEF Edited
    <3> QED BY <2>2, <3>4, <3>5, <3>6, <3>7 DEF DecideHolds
  <2>4. CASE \E e \in {{1, 3}, {3}, {1, 2}} : in.ours = Write("x", e, in.base)
    <3>1. PICK e \in {{1, 3}, {3}, {1, 2}} : in.ours = Write("x", e, in.base)
      BY <2>4
    <3>2. /\ in.ours.type = "write" /\ in.ours.data = e /\ in.ours.path = "x"
          /\ EditsOf(in.ours) = e
      BY <3>1 DEF Write, EditsOf
    <3>3. d = DeleteWrite /\ disk = [m EXCEPT !["x"] = e]
      BY <1>2, <2>1, <3>2 DEF d, Classified, Done
    <3>4. CASE in.binary \/ in.format = "sidecar"
      <4>1. d = WithSidecar(Decision("sidecar", e, Write("xs", e, Absent)), "x")
        BY <3>2, <3>3, <3>4 DEF DeleteWrite, Rehomed, SidecarPath
      <4>2. /\ d.action = "sidecar" /\ d.content = e /\ d.staged = Write("xs", e, Absent)
            /\ d.sidecar = "xs"
        BY <4>1 DEF Decision, WithSidecar, SidecarPath
      <4>3. Known(m, d) = [m EXCEPT !["x"] = Absent]
        BY <4>2, <2>1 DEF Known, Done
      <4>4. disk' = [m EXCEPT !["x"] = Absent, !["xs"] = e]
        BY <1>1, <1>4, <2>1, <3>3, <4>2 DEF OnDisk, Paths
      <4>5. /\ manifest' = [m EXCEPT !["x"] = Absent, !["xs"] = e]
            /\ bstore' = [m EXCEPT !["x"] = Absent] /\ staged' = Write("xs", e, Absent)
        BY <1>1, <1>2, <4>2, <4>3
      <4>6. disk' \in FileTrees /\ manifest' \in FileTrees
        BY <4>4, <4>5, <1>t
      <4>7. server'["xs"] = Absent
        BY <2>2, <1>3, <1>4 DEF Paths
      <4>8. LeftIsDrift'
        BY <4>4, <4>5, <4>7, <1>4 DEF LeftIsDrift, Fits, Write, Done, Paths
      <4>9. DOMAIN server' = Paths /\ DOMAIN bstore' = Paths
        BY <4>4, <4>5, <2>2, <1>4
      <4>10. disk'["xs"] = e /\ e # Absent /\ "xs" \in Paths
        BY <4>4, <1>4, <1>5 DEF Paths
      <4>11. Edited' \subseteq EditsIn(disk')
        BY <3>2, <2>1, <2>2, <4>6, <4>10, EditsThere DEF Edited
      <4>12. \A p \in Notable : manifest'[p] = server'[p] /\ bstore'[p] = server'[p]
        BY <4>5, <2>2, <1>4 DEF Notable, Paths
      <4> QED BY <2>2, <4>6, <4>8, <4>9, <4>11, <4>12 DEF DecideHolds
    <3>5. CASE ~(in.binary \/ in.format = "sidecar")
      <4> DEFINE cc == e \cup {0}
      <4>1. d = Decision("merge", cc, Write("x", cc, Absent))
        BY <3>2, <3>3, <3>5 DEF DeleteWrite
      <4>2. cc \in SUBSET (0 .. 3) /\ e \subseteq cc
        OBVIOUS
      <4> HIDE DEF cc
      <4>3. d.action = "merge" /\ d.content = cc /\ d.staged = Write("x", cc, Absent)
        BY <4>1 DEF Decision
      <4>4. Known(m, d) = [m EXCEPT !["x"] = Absent]
        BY <4>3, <2>1 DEF Known, Done
      <4>5. disk' = [m EXCEPT !["x"] = cc]
        BY <1>1, <1>4, <3>3, <4>3 DEF OnDisk
      <4>6. /\ manifest' = [m EXCEPT !["x"] = Absent] /\ bstore' = [m EXCEPT !["x"] = Absent]
            /\ staged' = Write("x", cc, Absent)
        BY <1>1, <1>2, <4>3, <4>4
      <4>7. disk' \in FileTrees /\ manifest' \in FileTrees
        BY <4>2, <4>5, <4>6, <1>t
      <4>8. LeftIsDrift'
        BY <4>5, <4>6, <2>2, <1>4 DEF LeftIsDrift, Fits, Write, Done, Paths
      <4>9. DOMAIN server' = Paths /\ DOMAIN bstore' = Paths
        BY <4>5, <4>6, <2>2, <1>4
      <4>10. disk'["x"] = cc /\ cc # Absent /\ "x" \in Paths
        BY <4>2, <4>5, <1>4, AbsentAssumption DEF Paths
      <4>11. Edited' \subseteq EditsIn(disk')
        BY <3>2, <2>1, <2>2, <4>2, <4>7, <4>10, EditsThere DEF Edited
      <4> QED BY <2>2, <4>6, <4>7, <4>8, <4>9, <4>11 DEF DecideHolds
    <3> QED BY <3>4, <3>5
  <2> QED BY <1>1, <2>1, <2>3, <2>4, OpsThatMeet DEF Delete
<1>8. CASE in.theirs = Rename("x", "y", in.base) /\ in.base = {1}
  <2>1. /\ in.theirs.type = "rename" /\ in.theirs.path = "x" /\ in.theirs.to = "y"
        /\ EditsOf(in.theirs) = {}
    BY <1>8 DEF Rename, EditsOf
  <2> DEFINE moved == [m EXCEPT !["y"] = {1}, !["x"] = Absent]
  <2>2. m["x"] = {1}
    BY <1>3, <1>8 DEF Paths
  <2>3. Done(m, in.theirs) = moved /\ Moved(m, in.theirs) = moved
    BY <2>1, <2>2, <1>5 DEF Done, Moved
  <2>4. server' = moved /\ in' = in /\ ~BothWrite'
    BY <1>1, <1>2, <2>1, <2>3 DEF BothWrite
  <2>5. moved \in FileTrees /\ DOMAIN moved = Paths
    <3>1. {1} \in {Absent} \cup SUBSET (0 .. 3) /\ Absent \in {Absent} \cup SUBSET (0 .. 3)
      OBVIOUS
    <3>2. [m EXCEPT !["y"] = {1}] \in FileTrees
      BY <3>1, <1>t
    <3>3. moved \in FileTrees
      BY <3>1, <3>2, <1>t
    <3> QED BY <3>3 DEF FileTrees
  <2> HIDE DEF moved
  <2>6. CASE in.ours = NoOp
    <3>1. d = Decision("applyRename", Absent, NoOp) /\ EditsOf(in.ours) = {} /\ in.ours.type = "none"
      BY <2>1, <2>6 DEF d, Classified, NoOp, EditsOf
    <3>2. d.action = "applyRename" /\ d.staged = NoOp /\ disk = m /\ Known(m, d) = moved
      BY <1>2, <2>3, <3>1 DEF Decision, Done, Known
    <3>3. disk' = moved /\ manifest' = moved /\ bstore' = moved /\ staged' = NoOp
      BY <1>1, <1>2, <2>3, <3>2 DEF OnDisk
    <3>4. LeftIsDrift'
      BY <3>3 DEF LeftIsDrift, Fits, NoOp, Done
    <3>5. Edited' = {}
      BY <3>1, <2>1, <2>4 DEF Edited
    <3> QED BY <2>4, <2>5, <3>3, <3>4, <3>5 DEF DecideHolds
  <2>7. CASE in.ours = Delete("x", in.base)
    <3>1. /\ in.ours.type = "delete" /\ in.ours.path = "x" /\ EditsOf(in.ours) = {}
          /\ in.ours.data = Absent /\ in.ours.pre = {1}
      BY <2>7, <1>8 DEF Delete, EditsOf
    <3>2. d = Decision("applyRename", Absent, Delete("y", {1}))
      BY <2>1, <3>1 DEF d, Classified
    <3>3. d.action = "applyRename" /\ d.staged = Delete("y", {1}) /\ Known(m, d) = moved
      BY <2>3, <3>2 DEF Decision, Known
    <3>4. disk = [m EXCEPT !["x"] = Absent]
      BY <1>2, <3>1 DEF Done
    <3>5. disk' = [m EXCEPT !["x"] = Absent]
      BY <1>1, <1>4, <2>1, <3>3, <3>4 DEF OnDisk, Moved, Paths
    <3>6. manifest' = moved /\ bstore' = moved /\ staged' = Delete("y", {1})
      BY <1>1, <1>2, <3>3
    <3>7. [moved EXCEPT !["y"] = Absent] = [m EXCEPT !["x"] = Absent]
      BY <1>3, <1>4 DEF moved, Paths
    <3>8. moved["y"] = {1}
      BY <1>4 DEF moved, Paths
    <3>9. LeftIsDrift'
      BY <2>4, <3>5, <3>6, <3>7, <3>8 DEF LeftIsDrift, Fits, Delete, Done, Paths
    <3>10. Edited' = {} /\ disk' \in FileTrees
      BY <3>1, <3>5, <1>4, <1>t, <2>1, <2>4 DEF Edited
    <3> QED BY <2>4, <2>5, <3>6, <3>9, <3>10 DEF DecideHolds
  <2> QED BY <1>1, <2>1, <2>6, <2>7, OpsThatMeet DEF Write
<1> QED BY <1>1, <1>6, <1>7, <1>8, OpsThatMeet
-----------------------------------------------------------------------------
\* The op that is left reaches the server, and all that is known agrees on it.
LEMMA PushStep ==
  ASSUME ConflictInv, Push
  PROVE  ConflictInv'
<1>1. /\ pc = "push" /\ pc' = "reconcile" /\ UNCHANGED <<in, disk>>
      /\ server' = Done(server, staged) /\ manifest' = Done(manifest, staged)
      /\ bstore' = Done(bstore, staged)
  BY DEF Push
<1>2. /\ in \in Inputs /\ disk = Done(manifest, staged)
      /\ staged = NoOp \/ (staged.type \in {"write", "delete"} /\ staged.path \in Paths)
      /\ DOMAIN server = Paths /\ DOMAIN bstore = Paths
      /\ disk \in FileTrees /\ manifest \in FileTrees
      /\ \A p \in Notable : manifest[p] = server[p] /\ bstore[p] = server[p]
      /\ Edited \subseteq EditsIn(disk)
      /\ BothWrite => disk["x"] # Absent /\ Edited \subseteq disk["x"]
  BY <1>1 DEF ConflictInv, LeftIsDrift, FileTrees
<1>3. \A p \in Notable : p \in Paths
  BY DEF Notable, Paths
<1>4. manifest' = disk /\ disk' = disk
  BY <1>1, <1>2
<1>5. CASE staged = NoOp
  <2>1. manifest' = manifest /\ server' = server /\ bstore' = bstore
    BY <1>1, <1>5 DEF Done, NoOp
  <2> QED
    BY <1>1, <1>2, <1>4, <2>1
       DEF ConflictInv, FileTrees, Edited, BothWrite, EditsIn
<1>6. CASE staged.type \in {"write", "delete"} /\ staged.path \in Paths
  <2> DEFINE at == staged.path
             c == staged.data
  <2>1. /\ manifest' = [manifest EXCEPT ![at] = c] /\ server' = [server EXCEPT ![at] = c]
        /\ bstore' = [bstore EXCEPT ![at] = c]
    BY <1>1, <1>6 DEF Done
  <2> HIDE DEF at, c
  <2>2. \A p \in Notable : manifest'[p] = server'[p] /\ bstore'[p] = server'[p]
    BY <1>2, <1>3, <2>1 DEF FileTrees
  <2>3. DOMAIN server' = Paths /\ DOMAIN bstore' = Paths
    BY <1>2, <2>1
  <2>4. manifest' \in FileTrees /\ disk' \in FileTrees
    BY <1>2, <1>4
  <2>5. Edited' = Edited /\ BothWrite' = BothWrite /\ EditsIn(disk') = EditsIn(disk)
    BY <1>1, <1>4 DEF Edited, BothWrite, EditsIn
  <2> QED
    BY <1>1, <1>2, <1>4, <2>2, <2>3, <2>4, <2>5 DEF ConflictInv
<1> QED BY <1>2, <1>5, <1>6

\* The working tree is what the manifest says: the reconcile finds nothing.
LEMMA ReconcileStep ==
  ASSUME ConflictInv, Reconcile
  PROVE  ConflictInv'
<1>1. /\ pc = "reconcile" /\ pc' = "done" /\ UNCHANGED <<in, disk, staged>>
      /\ server' = [p \in Paths |-> IF p \in Drifted THEN disk[p] ELSE server[p]]
      /\ manifest' = disk
      /\ bstore' = [p \in Paths |-> IF p \in Drifted THEN disk[p] ELSE bstore[p]]
  BY DEF Reconcile
<1>2. /\ in \in Inputs /\ disk = manifest /\ disk \in FileTrees
      /\ \A p \in Notable : manifest[p] = server[p] /\ bstore[p] = server[p]
      /\ Edited \subseteq EditsIn(disk)
      /\ BothWrite => disk["x"] # Absent /\ Edited \subseteq disk["x"]
  BY <1>1 DEF ConflictInv
<1>3. \A p \in Paths : server'[p] = server[p] /\ bstore'[p] = bstore[p]
  BY <1>1, <1>2 DEF Drifted
<1>4. \A p \in Notable : manifest'[p] = server'[p] /\ bstore'[p] = server'[p]
  BY <1>1, <1>2, <1>3 DEF Notable, Paths
<1>5. DOMAIN server' = Paths /\ DOMAIN bstore' = Paths
  BY <1>1
<1>6. Edited' = Edited /\ BothWrite' = BothWrite /\ EditsIn(disk') = EditsIn(disk)
  BY <1>1 DEF Edited, BothWrite, EditsIn
<1> QED BY <1>1, <1>2, <1>4, <1>5, <1>6 DEF ConflictInv

\* Where no combination that goes wrong is let loose, an op of a peer that
\* meets a staged one of the client leaves, after Classify and applyDecision, an
\* op that is just what the working tree has and the server has not; both edits
\* of two writes are in one file of it.
THEOREM ConflictInvariant ==
  ASSUME NoRisk
  PROVE  Spec => []ConflictInv
<1>1. Init => ConflictInv
  BY DEF Init, ConflictInv, Unclassified
<1>2. ConflictInv /\ [Next]_vars => ConflictInv'
  <2> SUFFICES ASSUME ConflictInv, [Next]_vars PROVE ConflictInv'
    OBVIOUS
  <2>1. CASE Decide
    <3>1. DecideHolds
      BY <2>1, DecideStep
    <3>2. in' = in /\ in \in Inputs /\ pc' = "push"
      BY <2>1 DEF Decide, ConflictInv
    <3> QED BY <3>1, <3>2 DEF DecideHolds, ConflictInv
  <2>2. CASE Push
    BY <2>2, PushStep
  <2>3. CASE Reconcile
    BY <2>3, ReconcileStep
  <2>4. CASE UNCHANGED vars
    BY <2>4 DEF vars, ConflictInv, Unclassified, LeftIsDrift, Fits, Edited, BothWrite, EditsIn
  <2> QED BY <2>1, <2>2, <2>3, <2>4 DEF Next
<1> QED BY <1>1, <1>2, PTL DEF Spec

\* What the client takes for the server's is that: the op that Classify leaves
\* staged fits what the server holds, so that its push is taken, manifest and
\* base/ follow the server, and nothing is left for the next reconcile to find.
THEOREM ClientKnowsServer ==
  ASSUME NoRisk
  PROVE  Spec => []KnownAsOnServer
<1>1. ConflictInv => KnownAsOnServer
  BY DEF ConflictInv, LeftIsDrift, KnownAsOnServer, Drifted, Notable
<1> QED BY <1>1, ConflictInvariant, PTL

\* No step of a merge loses an edit, of the peer or of the client; after it, two
\* edits of one file are both in the vault and in the working tree.
THEOREM EditsAreKept ==
  ASSUME NoRisk
  PROVE  Spec => []EditsKept
<1>1. ConflictInv => EditsKept
  <2> SUFFICES ASSUME ConflictInv PROVE EditsKept
    OBVIOUS
  <2>1. CASE pc = "decide"
    <3>1. in \in Inputs /\ staged = in.ours /\ server = Done(manifest, in.theirs)
          /\ manifest = [p \in Paths |-> IF p = "x" THEN in.base ELSE Absent]
      BY <2>1 DEF ConflictInv, Unclassified
    <3>2. EditsOf(in.ours) \subseteq EditsOf(staged)
      BY <3>1
    <3>3. CASE in.theirs.type # "write"
      BY <2>1, <3>2, <3>3 DEF EditsKept, EditsOf
    <3>4. CASE in.theirs.type = "write"
      <4>1. PICK c \in {{1, 2}, {2}} : in.theirs = Write("x", c, in.base)
        BY <3>1, <3>4, OpsThatMeet DEF Delete, Rename
      <4>2. in.theirs.type = "write" /\ in.theirs.path = "x" /\ in.theirs.data = c
        BY <4>1 DEF Write
      <4>3. server = [manifest EXCEPT !["x"] = c]
        BY <3>1, <4>2 DEF Done
      <4>4. server["x"] = c /\ c # Absent /\ "x" \in Paths
        BY <3>1, <4>3, AbsentAssumption DEF Paths
      <4>5. c \subseteq EditsIn(server)
        BY <4>4 DEF EditsIn
      <4> QED BY <2>1, <3>2, <4>2, <4>5 DEF EditsKept, EditsOf
    <3> QED BY <3>3, <3>4
  <2>2. CASE pc # "decide"
    <3>1. /\ Edited \subseteq EditsIn(disk) /\ "x" \in Paths /\ "x" \in Notable
          /\ BothWrite => disk["x"] # Absent /\ Edited \subseteq disk["x"]
          /\ pc = "done" => disk = manifest
          /\ \A p \in Notable : manifest[p] = server[p]
      BY <2>2 DEF ConflictInv, Paths, Notable
    <3>2. CASE pc = "done" /\ BothWrite
      <4>1. /\ server["x"] = disk["x"] /\ disk["x"] # Absent /\ Edited \subseteq disk["x"]
            /\ Edited = in.theirs.data \cup in.ours.data
        BY <3>1, <3>2 DEF Edited, BothWrite, EditsOf
      <4>2. Edited \subseteq EditsIn(server) /\ Edited \subseteq EditsIn(disk)
        BY <3>1, <4>1 DEF EditsIn
      <4> QED BY <3>1, <4>1, <4>2 DEF EditsKept, Edited
    <3>3. CASE ~(pc = "done" /\ BothWrite)
      BY <3>1, <3>3 DEF EditsKept, Edited, BothWrite
    <3> QED BY <3>2, <3>3
  <2> QED BY <2>1, <2>2
<1> QED BY <1>1, ConflictInvariant, PTL
-----------------------------------------------------------------------------
(***************************************************************************)
(* Tags and the versions of a page                                         *)
(***************************************************************************)
\* An order in which any two members of a set are.
StrictOrder(S, before) ==
  /\ \A x, y \in S : x # y => <<x, y>> \in before \/ <<y, x>> \in before
  /\ \A x, y \in S : <<x, y>> \in before => <<y, x>> \notin before
  /\ \A x, y, z \in S :
       <<x, y>> \in before /\ <<y, z>> \in before => <<x, z>> \in before

\* A finite set has a last member.
LEMMA LastOf ==
  ASSUME NEW S, IsFiniteSet(S), S # {}, NEW before, StrictOrder(S, before)
  PROVE  \E x \in S : \A y \in S : y # x => <<y, x>> \in before
<1> DEFINE HasLast(T) == T # {} => \E x \in T : \A y \in T : y # x => <<y, x>> \in before
           G == {n \in Nat : \A T \in SUBSET S : Cardinality(T) = n => HasLast(T)}
           N == Cardinality(S)
<1>1. N \in Nat
  BY FS_CardinalityType
<1>2. \A T \in SUBSET S : IsFiniteSet(T) /\ Cardinality(T) \in Nat
  BY FS_Subset, FS_CardinalityType
<1>3. 0 \in G
  <2>1. \A T \in SUBSET S : Cardinality(T) = 0 => T = {}
    BY <1>2, FS_EmptySet
  <2> QED BY <2>1
<1>4. ASSUME NEW n \in Nat, n < N, n \in G PROVE n + 1 \in G
  <2> SUFFICES ASSUME NEW T \in SUBSET S, Cardinality(T) = n + 1, T # {}
               PROVE  \E x \in T : \A y \in T : y # x => <<y, x>> \in before
    BY <1>4
  <2>1. PICK e \in T : TRUE
    OBVIOUS
  <2> DEFINE U == T \ {e}
  <2>2. U \in SUBSET S /\ Cardinality(U) = n
    BY <1>2, <2>1, FS_RemoveElement
  <2>3. HasLast(U)
    BY <1>4, <2>2
  <2>4. CASE U = {}
    BY <2>1, <2>4
  <2>5. CASE U # {}
    <3>1. PICK x \in U : \A y \in U : y # x => <<y, x>> \in before
      BY <2>3, <2>5
    <3>2. x \in S /\ e \in S /\ x # e /\ \A y \in T : y = e \/ y \in U
      BY <2>1, <3>1
    <3>3. CASE <<e, x>> \in before
      BY <3>1, <3>2, <3>3
    <3>4. CASE <<x, e>> \in before
      <4>1. ASSUME NEW y \in T, y # e PROVE <<y, e>> \in before
        <5>1. y \in S /\ (y = x \/ <<y, x>> \in before)
          BY <3>1, <3>2, <4>1
        <5> QED BY <3>2, <3>4, <5>1 DEF StrictOrder
      <4> QED BY <2>1, <4>1
    <3> QED BY <3>2, <3>3, <3>4 DEF StrictOrder
  <2> QED BY <2>4, <2>5
<1>5. \A n \in 0 .. N : n \in G
  <2> HIDE DEF G, N
  <2> QED BY <1>1, <1>3, <1>4, UpTo, Zenon
<1>6. N \in G
  BY <1>1, <1>5
<1> QED BY <1>6

\* s names the members of S, one before the other.
Arranges(s, S, before) ==
  /\ s \in [1 .. Cardinality(S) -> S]
  /\ \A i, j \in DOMAIN s : i < j => <<s[i], s[j]>> \in before

LEMMA ArrangementExists ==
  ASSUME NEW S, IsFiniteSet(S), NEW before, StrictOrder(S, before)
  PROVE  \E s : Arranges(s, S, before)
<1> DEFINE G == {n \in Nat : \A T \in SUBSET S :
                    Cardinality(T) = n => \E s : Arranges(s, T, before)}
           N == Cardinality(S)
<1>1. N \in Nat
  BY FS_CardinalityType
<1>2. \A T \in SUBSET S : IsFiniteSet(T) /\ Cardinality(T) \in Nat
  BY FS_Subset, FS_CardinalityType
<1>3. 0 \in G
  <2>1. \A T \in SUBSET S : Cardinality(T) = 0 => Arranges(<< >>, T, before)
    BY DEF Arranges
  <2> QED BY <2>1
<1>4. ASSUME NEW n \in Nat, n < N, n \in G PROVE n + 1 \in G
  <2> SUFFICES ASSUME NEW T \in SUBSET S, Cardinality(T) = n + 1
               PROVE  \E s : Arranges(s, T, before)
    BY <1>4
  <2>1. T # {} /\ StrictOrder(T, before)
    <3>1. StrictOrder(T, before)
      BY DEF StrictOrder
    <3> QED BY <3>1, FS_EmptySet
  <2>2. PICK e \in T : \A y \in T : y # e => <<y, e>> \in before
    BY <1>2, <2>1, LastOf
  <2> DEFINE U == T \ {e}
  <2>3. U \in SUBSET S /\ Cardinality(U) = n
    <3>1. IsFiniteSet(T) /\ e \in T /\ Cardinality(T) = n + 1
      BY <1>2, <2>2
    <3>2. Cardinality(U) = Cardinality(T) - 1
      BY <3>1, FS_RemoveElement
    <3> QED BY <3>1, <3>2
  <2>4. PICK s : Arranges(s, U, before)
    BY <1>4, <2>3
  <2>5. s \in [1 .. n -> U] /\ \A i, j \in 1 .. n : i < j => <<s[i], s[j]>> \in before
    BY <2>3, <2>4 DEF Arranges
  <2> DEFINE t == [i \in 1 .. (n + 1) |-> IF i = n + 1 THEN e ELSE s[i]]
  <2>6. \A i \in 1 .. (n + 1) : i # n + 1 => i \in 1 .. n
    OBVIOUS
  <2>7. t \in [1 .. (n + 1) -> T]
    BY <2>2, <2>5, <2>6
  <2>8. ASSUME NEW i \in 1 .. (n + 1), NEW j \in 1 .. (n + 1), i < j
        PROVE  <<t[i], t[j]>> \in before
    <3>1. i \in 1 .. n /\ t[i] = s[i] /\ s[i] \in U
      BY <2>5, <2>6, <2>8
    <3>2. CASE j = n + 1
      BY <2>2, <3>1, <3>2
    <3>3. CASE j # n + 1
      <4>1. j \in 1 .. n /\ t[j] = s[j]
        BY <2>6, <3>3
      <4> QED BY <2>5, <2>8, <3>1, <4>1
    <3> QED BY <3>2, <3>3
  <2>9. Arranges(t, T, before)
    <3> HIDE DEF t
    <3> QED BY <2>7, <2>8 DEF Arranges
  <2> QED BY <2>9
<1>5. \A n \in 0 .. N : n \in G
  <2> HIDE DEF G, N
  <2> QED BY <1>1, <1>3, <1>4, UpTo, Zenon
<1>6. N \in G
  BY <1>1, <1>5
<1> QED BY <1>6

\* Arranged is such a sequence; it has every member.
LEMMA ArrangedArranges ==
  ASSUME NEW S, IsFiniteSet(S), NEW before, StrictOrder(S, before)
  PROVE  /\ Arranges(Arranged(S, before), S, before)
         /\ \A x \in S : \E i \in 1 .. Cardinality(S) : Arranged(S, before)[i] = x
<1> DEFINE a == CHOOSE s \in [1 .. Cardinality(S) -> S] :
                  \A i, j \in DOMAIN s : i < j => <<s[i], s[j]>> \in before
<1>1. Arranged(S, before) = a
  BY Zenon DEF Arranged
<1>2. \E s \in [1 .. Cardinality(S) -> S] :
        \A i, j \in DOMAIN s : i < j => <<s[i], s[j]>> \in before
  BY ArrangementExists, Zenon DEF Arranges
<1>3. Arranges(a, S, before)
  BY <1>2, Zenon DEF Arranges
<1> HIDE DEF a
<1>4. Cardinality(S) \in Nat
  BY FS_CardinalityType
<1>5. IsFiniteSet(1 .. Cardinality(S)) /\ Cardinality(1 .. Cardinality(S)) = Cardinality(S)
  <2>1. 1 \in Int /\ Cardinality(S) \in Int
    BY <1>4
  <2>2. /\ IsFiniteSet(1 .. Cardinality(S))
        /\ Cardinality(1 .. Cardinality(S)) =
             IF 1 > Cardinality(S) THEN 0 ELSE Cardinality(S) - 1 + 1
    BY <2>1, FS_Interval, Zenon
  <2> QED BY <1>4, <2>2
<1>6. a \in Injection(1 .. Cardinality(S), S)
  <2>1. ASSUME NEW i \in 1 .. Cardinality(S), NEW j \in 1 .. Cardinality(S), a[i] = a[j], i # j
        PROVE  FALSE
    <3>1. <<a[i], a[j]>> \in before \/ <<a[j], a[i]>> \in before
      BY <1>3, <1>4, <2>1 DEF Arranges
    <3>2. a[i] \in S
      BY <1>3 DEF Arranges
    <3> QED BY <2>1, <3>1, <3>2 DEF StrictOrder
  <2> QED BY <1>3, <2>1 DEF Arranges, Injection, IsInjective
<1>7. a \in Surjection(1 .. Cardinality(S), S)
  BY <1>5, <1>6, FS_Injection
<1> QED BY <1>1, <1>3, <1>7 DEF Surjection

\* There is one arrangement only.
LEMMA OneArrangement ==
  ASSUME NEW S, IsFiniteSet(S), NEW before, StrictOrder(S, before),
         NEW n \in Nat, NEW s \in [1 .. n -> S],
         \A i, j \in 1 .. n : i < j => <<s[i], s[j]>> \in before,
         \A x \in S : \E i \in 1 .. n : s[i] = x
  PROVE  Arranged(S, before) = s
<1> DEFINE t == Arranged(S, before)
<1>1. n = Cardinality(S)
  <2>1. IsFiniteSet(1 .. n) /\ Cardinality(1 .. n) = n
    <3>1. 1 \in Int /\ n \in Int
      OBVIOUS
    <3>2. IsFiniteSet(1 .. n) /\ Cardinality(1 .. n) = IF 1 > n THEN 0 ELSE n - 1 + 1
      BY <3>1, FS_Interval, Zenon
    <3> QED BY <3>2
  <2>2. ASSUME NEW i \in 1 .. n, NEW j \in 1 .. n, s[i] = s[j], i # j PROVE FALSE
    <3>1. <<s[i], s[j]>> \in before \/ <<s[j], s[i]>> \in before
      BY <2>2
    <3> QED BY <2>2, <3>1 DEF StrictOrder
  <2>3. s \in Injection(1 .. n, S)
    BY <2>2 DEF Injection, IsInjective
  <2>4. s \in Surjection(1 .. n, S)
    BY DEF Surjection
  <2> QED BY <2>1, <2>3, <2>4, FS_Surjection
<1>2. /\ t \in [1 .. n -> S] /\ \A x \in S : \E i \in 1 .. n : t[i] = x
      /\ \A i, j \in 1 .. n : i < j => <<t[i], t[j]>> \in before
  <2>1. Arranges(t, S, before) /\ \A x \in S : \E i \in 1 .. Cardinality(S) : t[i] = x
    BY ArrangedArranges
  <2> HIDE DEF t
  <2> QED BY <1>1, <2>1 DEF Arranges
<1> HIDE DEF t
<1> DEFINE G == {k \in Nat : \A i \in 1 .. n : i <= k => s[i] = t[i]}
<1>3. 0 \in G
  OBVIOUS
<1>4. ASSUME NEW k \in Nat, k < n, k \in G PROVE k + 1 \in G
  <2>1. k + 1 \in 1 .. n /\ \A i \in 1 .. n : i <= k => s[i] = t[i]
    BY <1>4
  <2>2. s[k + 1] \in S /\ t[k + 1] \in S
    BY <1>2, <2>1
  <2>3. PICK i \in 1 .. n : t[i] = s[k + 1]
    BY <1>2, <2>2
  <2>4. PICK j \in 1 .. n : s[j] = t[k + 1]
    BY <2>2
  <2>5. i > k
    <3> SUFFICES ASSUME i <= k PROVE FALSE
      OBVIOUS
    <3>1. s[i] = s[k + 1] /\ i < k + 1
      BY <2>1, <2>3
    <3>2. <<s[i], s[k + 1]>> \in before
      BY <2>1, <3>1
    <3> QED BY <2>2, <3>1, <3>2 DEF StrictOrder
  <2>6. j > k
    <3> SUFFICES ASSUME j <= k PROVE FALSE
      OBVIOUS
    <3>1. t[j] = t[k + 1] /\ j < k + 1
      BY <2>1, <2>4
    <3>2. <<t[j], t[k + 1]>> \in before
      BY <1>2, <2>1, <3>1
    <3> QED BY <2>2, <3>1, <3>2 DEF StrictOrder
  <2>7. s[k + 1] = t[k + 1]
    <3> SUFFICES ASSUME s[k + 1] # t[k + 1] PROVE FALSE
      OBVIOUS
    <3>1. i > k + 1 /\ j > k + 1
      BY <2>3, <2>4, <2>5, <2>6
    <3>2. <<t[k + 1], s[k + 1]>> \in before
      BY <1>2, <2>1, <2>3, <3>1
    <3>3. <<s[k + 1], t[k + 1]>> \in before
      BY <2>1, <2>4, <3>1
    <3> QED BY <2>2, <3>2, <3>3 DEF StrictOrder
  <2> QED BY <2>1, <2>7
<1>5. \A k \in 0 .. n : k \in G
  <2> HIDE DEF G
  <2> QED BY <1>3, <1>4, UpTo, Zenon
<1>6. n \in G
  BY <1>5
<1>7. \A i \in 1 .. n : s[i] = t[i]
  BY <1>6
<1> QED BY <1>2, <1>7 DEF t
-----------------------------------------------------------------------------
\* Lists of tags, with the trees they name.
TagEntries == [name : TagNames, tree : FileTreesAt]
TagLists == Seq(TagEntries)

LEMMA TagListEntries ==
  ASSUME NEW list \in TagLists
  PROVE  /\ Len(list) \in Nat /\ DOMAIN list = 1 .. Len(list)
         /\ \A i \in 1 .. Len(list) :
              /\ list[i].name \in TagNames /\ list[i].name \in Nat /\ list[i].name # 0
              /\ list[i].tree \in FileTreesAt
<1>1. Len(list) \in Nat /\ DOMAIN list = 1 .. Len(list)
  BY DEF TagLists
<1>2. ASSUME NEW i \in 1 .. Len(list)
      PROVE  list[i].name \in TagNames /\ list[i].tree \in FileTreesAt
  <2>1. list[i] \in TagEntries
    BY <1>1 DEF TagLists
  <2> QED BY <2>1 DEF TagEntries
<1> QED BY <1>1, <1>2, TagNamesAssumption

LEMMA WalkedType ==
  ASSUME NEW list \in TagLists, NEW f \in Files, NEW fh \in Histories, NEW i \in 1 .. Len(list)
  PROVE  Walked(list, f, fh, i) \in Histories
<1>1. list[i].name \in Nat
  BY TagListEntries
<1>2. i # 1 => list[i - 1].name \in Nat
  <2>1. i # 1 => i - 1 \in 1 .. Len(list)
    BY TagListEntries
  <2> QED BY <2>1, TagListEntries
<1>3. fh.FirstTag \in Nat /\ fh.LastTag \in Nat /\ fh.ChangedAt \in SUBSET Nat
  BY DEF Histories
<1> DEFINE here == list[i].tree[f]
           newer == IF i = 1 THEN here ELSE list[i - 1].tree[f]
           last == IF newer = NoFile /\ fh.LastTag = 0 THEN list[i].name ELSE fh.LastTag
           places == IF newer \notin {NoFile, here} THEN fh.ChangedAt \cup {list[i - 1].name}
                                                     ELSE fh.ChangedAt
<1>4. last \in Nat
  BY <1>1, <1>3
<1>5. places \in SUBSET Nat
  BY <1>2, <1>3
<1>6. Walked(list, f, fh, i) =
        IF here = NoFile THEN fh
        ELSE [FirstTag |-> list[i].name, LastTag |-> last, ChangedAt |-> places]
  BY DEF Walked
<1> HIDE DEF here, newer, last, places
<1> QED BY <1>1, <1>4, <1>5, <1>6 DEF Histories

\* The function that Walk is.
Walks(w, list, f) ==
  w = [i \in 0 .. Len(list) |-> IF i = 0 THEN NoHistory ELSE Walked(list, f, w[i - 1], i)]

LEMMA WalkExists ==
  ASSUME NEW list \in TagLists, NEW f \in Files
  PROVE  \E w : Walks(w, list, f) /\ w \in [0 .. Len(list) -> Histories]
<1> DEFINE N == Len(list)
    next == [i \in 1 .. N |-> [fh \in Histories |-> Walked(list, f, fh, i)]]
<1>1. N \in Nat /\ NoHistory \in Histories
  BY TagListEntries DEF NoHistory, Histories
<1>2. next \in [1 .. N -> [Histories -> Histories]]
  <2>1. \A i \in 1 .. N : \A fh \in Histories : Walked(list, f, fh, i) \in Histories
    BY WalkedType
  <2> QED BY <2>1
<1>3. PICK w : Recurses(w, N, Histories, NoHistory, next)
  <2> HIDE DEF N, next
  <2> QED BY <1>1, <1>2, RecursionExists
<1>4. ASSUME NEW i \in 1 .. N PROVE w[i] = Walked(list, f, w[i - 1], i)
  <2>1. w[i - 1] \in Histories
    BY <1>1, <1>3 DEF Recurses
  <2> QED BY <1>3, <2>1 DEF Recurses
<1>5. Walks(w, list, f)
  <2> HIDE DEF next
  <2>1. \A i \in 0 .. N : i = 0 \/ i \in 1 .. N
    BY <1>1
  <2>2. ASSUME NEW i \in 0 .. N
        PROVE  w[i] = IF i = 0 THEN NoHistory ELSE Walked(list, f, w[i - 1], i)
    BY <1>1, <1>3, <1>4, <2>1 DEF Recurses
  <2> QED BY <1>3, <2>2 DEF Walks, Recurses
<1> QED BY <1>3, <1>5 DEF Recurses

\* Walk goes from the newest tag to the oldest.
LEMMA WalkSteps ==
  ASSUME NEW list \in TagLists, NEW f \in Files
  PROVE  /\ Walk(list, f)[0] = NoHistory
         /\ \A i \in 1 .. Len(list) : Walk(list, f)[i] = Walked(list, f, Walk(list, f)[i - 1], i)
<1> DEFINE w == CHOOSE v : Walks(v, list, f)
<1>1. Walk(list, f) = w
  BY DEF Walk, Walks
<1>2. Walks(w, list, f)
  BY WalkExists, Zenon
<1> HIDE DEF w
<1> QED BY <1>1, <1>2, TagListEntries DEF Walks

\* A file is at the tags from place first to place last of those up to k, and
\* the walk has noted that.
Noted(list, f, fh, k, first, last) ==
  /\ first \in 1 .. last /\ last \in 1 .. k
  /\ \A j \in 1 .. k : list[j].tree[f] # NoFile <=> first <= j /\ j <= last
  /\ fh = [FirstTag |-> fh.FirstTag, LastTag |-> fh.LastTag, ChangedAt |-> fh.ChangedAt]
  /\ fh.FirstTag = list[last].name
  /\ fh.LastTag = IF first = 1 THEN 0 ELSE list[first].name
  /\ \A t : t \in fh.ChangedAt <=>
       \E j \in first .. (last - 1) :
         t = list[j].name /\ list[j + 1].tree[f] # list[j].tree[f]
Unseen(list, f, fh, k) ==
  fh = NoHistory /\ \A j \in 1 .. k : list[j].tree[f] = NoFile
WalkedTo(list, f, fh, k) ==
  Unseen(list, f, fh, k) \/ \E first, last \in 1 .. k : Noted(list, f, fh, k, first, last)

LEMMA WalkOn ==
  ASSUME NEW list \in TagLists, NEW f \in Files, Unbroken(list, f), NEW k \in Nat,
         k < Len(list), NEW fh, WalkedTo(list, f, fh, k)
  PROVE  WalkedTo(list, f, Walked(list, f, fh, k + 1), k + 1)
<1> DEFINE next == Walked(list, f, fh, k + 1)
           here == list[k + 1].tree[f]
<1>1. k + 1 \in 1 .. Len(list) /\ (k + 1) - 1 = k /\ Len(list) \in Nat /\ DOMAIN list = 1 .. Len(list)
  BY TagListEntries
<1>2. \A j \in 1 .. (k + 1) : j \in 1 .. k \/ j = k + 1
  OBVIOUS
<1>3. list[k + 1].name # 0
  BY <1>1, TagListEntries
<1>4. CASE here = NoFile
  <2>1. next = fh
    BY <1>4 DEF Walked
  <2>2. CASE Unseen(list, f, fh, k)
    <3>1. Unseen(list, f, next, k + 1)
      BY <1>2, <1>4, <2>1, <2>2 DEF Unseen
    <3> QED BY <3>1 DEF WalkedTo
  <2>3. ASSUME NEW first \in 1 .. k, NEW last \in 1 .. k, Noted(list, f, fh, k, first, last)
        PROVE  Noted(list, f, next, k + 1, first, last)
    <3> HIDE DEF next
    <3>1. last \in 1 .. (k + 1) /\ ~(k + 1 <= last)
      OBVIOUS
    <3>2. ASSUME NEW j \in 1 .. (k + 1)
          PROVE  list[j].tree[f] # NoFile <=> first <= j /\ j <= last
      BY <1>2, <1>4, <2>3, <3>1 DEF Noted
    <3> QED BY <2>1, <2>3, <3>1, <3>2 DEF Noted
  <2>4. WalkedTo(list, f, next, k + 1)
    <3>1. CASE Unseen(list, f, fh, k)
      BY <2>2, <3>1
    <3>2. CASE \E first, last \in 1 .. k : Noted(list, f, fh, k, first, last)
      <4>1. PICK first \in 1 .. k, last \in 1 .. k : Noted(list, f, fh, k, first, last)
        BY <3>2
      <4>2. first \in 1 .. (k + 1) /\ last \in 1 .. (k + 1)
        OBVIOUS
      <4> HIDE DEF next
      <4> QED BY <2>3, <4>1, <4>2 DEF WalkedTo
    <3> QED BY <3>1, <3>2 DEF WalkedTo
  <2> QED BY <2>4
<1>5. CASE here # NoFile
  <2> DEFINE newer == IF k + 1 = 1 THEN here ELSE list[k].tree[f]
  <2>1. next = [FirstTag |-> list[k + 1].name,
                LastTag |-> IF newer = NoFile /\ fh.LastTag = 0 THEN list[k + 1].name ELSE fh.LastTag,
                ChangedAt |-> IF newer \notin {NoFile, here} THEN fh.ChangedAt \cup {list[k].name}
                                                             ELSE fh.ChangedAt]
    BY <1>1, <1>5 DEF Walked
  <2> HIDE DEF next
  <2>2. CASE Unseen(list, f, fh, k)
    <3>1. /\ fh.LastTag = 0 /\ fh.ChangedAt = {}
          /\ \A j \in 1 .. k : list[j].tree[f] = NoFile
      BY <2>2 DEF Unseen, NoHistory
    <3>2. newer \in {NoFile, here} /\ (newer = NoFile <=> k + 1 # 1)
      <4>1. k + 1 # 1 => k \in 1 .. k
        OBVIOUS
      <4> QED BY <1>5, <3>1, <4>1
    <3>3. /\ next.FirstTag = list[k + 1].name /\ next.ChangedAt = {}
          /\ next.LastTag = IF k + 1 = 1 THEN 0 ELSE list[k + 1].name
      <4> HIDE DEF newer
      <4> QED BY <2>1, <3>1, <3>2
    <3>4. k + 1 \in 1 .. (k + 1) /\ \A j \in (k + 1) .. ((k + 1) - 1) : FALSE
      OBVIOUS
    <3>5. ASSUME NEW j \in 1 .. (k + 1)
          PROVE  list[j].tree[f] # NoFile <=> k + 1 <= j /\ j <= k + 1
      <4>1. CASE j = k + 1
        BY <1>5, <4>1
      <4>2. CASE j \in 1 .. k
        BY <3>1, <4>2
      <4> QED BY <1>2, <4>1, <4>2
    <3>6. Noted(list, f, next, k + 1, k + 1, k + 1)
      <4>1. next = [FirstTag |-> next.FirstTag, LastTag |-> next.LastTag, ChangedAt |-> next.ChangedAt]
        <5> HIDE DEF newer, here
        <5> QED BY <2>1
      <4> QED BY <3>3, <3>4, <3>5, <4>1 DEF Noted
    <3>7. WalkedTo(list, f, next, k + 1)
      BY <3>4, <3>6 DEF WalkedTo
    <3> QED BY <3>7 DEF next
  <2>3. CASE \E first, last \in 1 .. k : Noted(list, f, fh, k, first, last)
    <3>1. PICK first \in 1 .. k, last \in 1 .. k : Noted(list, f, fh, k, first, last)
      BY <2>3
    <3>2. /\ first \in Nat /\ first # 0 /\ k # 0 /\ k + 1 # 1 /\ first <= k
          /\ first \in 1 .. (k + 1) /\ k + 1 \in 1 .. (k + 1) /\ first < k + 1
          /\ first \in 1 .. Len(list) /\ k \in 1 .. Len(list) /\ k \in 1 .. k
      BY <1>1
    <3>3. first <= last /\ last \in Nat /\ list[first].tree[f] # NoFile
      BY <3>1, <3>2 DEF Noted
    <3>4. ASSUME NEW j \in 1 .. k, first <= j PROVE list[j].tree[f] # NoFile
      <4>1. CASE j = first
        BY <3>3, <4>1
      <4>2. CASE j # first
        <5>1. first < j /\ j < k + 1 /\ j \in DOMAIN list /\ first \in DOMAIN list /\ k + 1 \in DOMAIN list
          BY <1>1, <3>2, <3>4, <4>2
        <5> QED BY <1>5, <3>3, <5>1 DEF Unbroken
      <4> QED BY <4>1, <4>2
    <3>5. last = k
      <4>1. list[k].tree[f] # NoFile
        BY <3>2, <3>4
      <4> QED BY <3>1, <3>2, <3>3, <4>1 DEF Noted
    <3>6. ASSUME NEW j \in 1 .. (k + 1)
          PROVE  list[j].tree[f] # NoFile <=> first <= j /\ j <= k + 1
      <4>1. CASE j = k + 1
        BY <1>5, <3>2, <4>1
      <4>2. CASE j \in 1 .. k
        BY <3>1, <3>4, <4>2 DEF Noted
      <4> QED BY <1>2, <4>1, <4>2
    <3>7. newer = list[k].tree[f] /\ newer # NoFile
      BY <3>2, <3>4
    <3>8. next.FirstTag = list[k + 1].name /\ next.LastTag = IF first = 1 THEN 0 ELSE list[first].name
      <4> HIDE DEF newer
      <4> QED BY <2>1, <3>1, <3>7 DEF Noted
    <3>9. next.ChangedAt = IF newer # here THEN fh.ChangedAt \cup {list[k].name} ELSE fh.ChangedAt
      <4> HIDE DEF newer
      <4> QED BY <2>1, <3>7
    <3>10. \A j \in first .. ((k + 1) - 1) : j \in first .. (last - 1) \/ j = k
      BY <3>2, <3>5
    <3>11. k \in first .. ((k + 1) - 1) /\ \A j \in first .. (last - 1) : j \in first .. ((k + 1) - 1)
      BY <3>2, <3>5
    <3>12. ASSUME NEW t
           PROVE  t \in next.ChangedAt <=>
                    \E j \in first .. ((k + 1) - 1) :
                      t = list[j].name /\ list[j + 1].tree[f] # list[j].tree[f]
      <4>1. t \in fh.ChangedAt <=>
              \E j \in first .. (last - 1) :
                t = list[j].name /\ list[j + 1].tree[f] # list[j].tree[f]
        BY <3>1 DEF Noted
      <4> HIDE DEF newer
      <4>2. newer # here <=> list[k + 1].tree[f] # list[k].tree[f]
        BY <3>7
      <4> HIDE DEF here
      <4> QED BY <3>9, <3>10, <3>11, <4>1, <4>2
    <3>13. Noted(list, f, next, k + 1, first, k + 1)
      <4>1. next = [FirstTag |-> next.FirstTag, LastTag |-> next.LastTag, ChangedAt |-> next.ChangedAt]
        <5> HIDE DEF newer, here
        <5> QED BY <2>1
      <4> QED BY <3>2, <3>6, <3>8, <3>12, <4>1 DEF Noted
    <3>14. WalkedTo(list, f, next, k + 1)
      BY <3>2, <3>13 DEF WalkedTo
    <3> QED BY <3>14 DEF next
  <2> QED BY <2>2, <2>3 DEF WalkedTo
<1> QED BY <1>4, <1>5

\* What the index says of a file that did not go and come back.
LEMMA WalkNotes ==
  ASSUME NEW list \in TagLists, NEW f \in Files, Unbroken(list, f)
  PROVE  WalkedTo(list, f, Walk(list, f)[Len(list)], Len(list))
<1> DEFINE N == Len(list)
           w == Walk(list, f)
           G == {k \in Nat : k <= N => WalkedTo(list, f, w[k], k)}
<1>1. N \in Nat /\ w[0] = NoHistory /\ \A i \in 1 .. N : w[i] = Walked(list, f, w[i - 1], i)
  BY TagListEntries, WalkSteps
<1> HIDE DEF w
<1>2. 0 \in G
  BY <1>1 DEF WalkedTo, Unseen
<1>3. ASSUME NEW k \in Nat, k < N, k \in G PROVE k + 1 \in G
  <2>1. k + 1 \in 1 .. N /\ (k + 1) - 1 = k /\ k <= N
    BY <1>1, <1>3
  <2>2. w[k + 1] = Walked(list, f, w[k], k + 1)
    BY <1>1, <2>1
  <2>3. WalkedTo(list, f, w[k], k)
    BY <1>3, <2>1
  <2> QED BY <1>3, <2>2, <2>3, WalkOn
<1>4. \A k \in 0 .. N : k \in G
  <2> HIDE DEF G, N
  <2> QED BY <1>1, <1>2, <1>3, UpTo, Zenon
<1>5. N \in G
  BY <1>1, <1>4
<1> QED BY <1>1, <1>5 DEF w
-----------------------------------------------------------------------------
\* What is answered from the index
Distinct(list) == \A i, j \in 1 .. Len(list) : list[i].name = list[j].name => i = j

LEMMA PlaceOfName ==
  ASSUME NEW list \in TagLists, Distinct(list), index = Rebuilt(list), NEW i \in 1 .. Len(list)
  PROVE  IndexOfTag(list[i].name) = i
<1>1. DOMAIN list = 1 .. Len(list) /\ Len(list) \in Nat
  BY TagListEntries
<1>2. index.tags = [j \in 1 .. Len(list) |-> list[j].name]
  BY <1>1 DEF Rebuilt
<1> DEFINE at == {j \in DOMAIN index.tags : index.tags[j] = list[i].name}
<1>3. at = {i}
  BY <1>2 DEF Distinct
<1>4. Min({i}) = i
  BY DEF Min
<1> HIDE DEF at
<1>5. IndexOfTag(list[i].name) = IF at = {} THEN -1 ELSE Min(at)
  BY DEF IndexOfTag, at
<1> QED BY <1>3, <1>4, <1>5

\* A file of the list: where it is, and what index.files says.
LEMMA FileNotes ==
  ASSUME NEW list \in TagLists, index = Rebuilt(list), NEW f \in Files, Unbroken(list, f)
  PROVE  LET fh == index.files[f]
             N == Len(list)
         IN \/ /\ fh = NoHistory /\ \A j \in 1 .. N : list[j].tree[f] = NoFile
            \/ \E first, last \in 1 .. N :
                 /\ first <= last
                 /\ \A j \in 1 .. N : list[j].tree[f] # NoFile <=> first <= j /\ j <= last
                 /\ fh.FirstTag = list[last].name
                 /\ fh.LastTag = IF first = 1 THEN 0 ELSE list[first].name
                 /\ \A t : t \in fh.ChangedAt <=>
                      \/ \E j \in first .. (last - 1) :
                           t = list[j].name /\ list[j + 1].tree[f] # list[j].tree[f]
                      \/ last = N /\ t = list[N].name
<1> DEFINE N == Len(list)
           w == Walk(list, f)[N]
           fh == index.files[f]
<1>1. N \in Nat /\ DOMAIN list = 1 .. N
  BY TagListEntries
<1>2. WalkedTo(list, f, w, N)
  BY WalkNotes
<1> HIDE DEF w
<1>3. fh = Introduced(list, f, w)
  BY DEF Rebuilt, w
<1> HIDE DEF fh
<1>4. list # << >> => N \in 1 .. N
  BY <1>1 DEF TagLists
<1>5. CASE Unseen(list, f, w, N)
  <2>1. list # << >> => list[N].tree[f] = NoFile
    BY <1>4, <1>5 DEF Unseen
  <2>2. fh = w
    BY <1>3, <2>1 DEF Introduced, Last
  <2> QED BY <1>5, <2>2 DEF Unseen, fh
<1>6. CASE \E first, last \in 1 .. N : Noted(list, f, w, N, first, last)
  <2>1. PICK first \in 1 .. N, last \in 1 .. N : Noted(list, f, w, N, first, last)
    BY <1>6
  <2>2. /\ first <= last /\ N \in 1 .. N /\ list # << >> /\ first \in Nat /\ last \in Nat /\ last <= N
        /\ \A j \in 1 .. N : list[j].tree[f] # NoFile <=> first <= j /\ j <= last
    BY <1>1, <2>1 DEF Noted
  <2>3. list[N].tree[f] # NoFile <=> last = N
    <3>1. N \in 1 .. N /\ first <= N
      BY <1>1, <2>2
    <3>2. list[N].tree[f] # NoFile <=> first <= N /\ N <= last
      BY <2>2, <3>1
    <3>3. N \in Nat /\ last \in Nat /\ last <= N
      BY <1>1, <2>2
    <3>4. (first <= N /\ N <= last) <=> last = N
      <4> HIDE DEF N
      <4> QED BY <3>1, <3>3
    <3> QED BY <3>2, <3>4
  <2>4. fh = IF last = N THEN [w EXCEPT !.ChangedAt = @ \cup {list[N].name}] ELSE w
    BY <1>3, <2>2, <2>3 DEF Introduced, Last
  <2>5. w = [FirstTag |-> w.FirstTag, LastTag |-> w.LastTag, ChangedAt |-> w.ChangedAt]
    BY <2>1 DEF Noted
  <2>6. /\ fh.FirstTag = w.FirstTag /\ fh.LastTag = w.LastTag
        /\ fh.ChangedAt = IF last = N THEN w.ChangedAt \cup {list[N].name} ELSE w.ChangedAt
    BY <2>4, <2>5
  <2>7. \A t : t \in fh.ChangedAt <=>
                      \/ \E j \in first .. (last - 1) :
                           t = list[j].name /\ list[j + 1].tree[f] # list[j].tree[f]
                      \/ last = N /\ t = list[N].name
    BY <2>1, <2>6 DEF Noted
  <2>8. fh.FirstTag = list[last].name /\ fh.LastTag = IF first = 1 THEN 0 ELSE list[first].name
    BY <2>1, <2>6 DEF Noted
  <2> QED BY <2>2, <2>7, <2>8 DEF fh
<1> QED BY <1>2, <1>5, <1>6 DEF WalkedTo

\* HasFile finds the files of a tag, and the marks are those of the trees.
LEMMA IndexSays ==
  ASSUME NEW list \in TagLists, Distinct(list), index = Rebuilt(list),
         NEW f \in Files, Unbroken(list, f), NEW i \in 1 .. Len(list)
  PROVE  /\ HasFile(list[i].name, f) <=> list[i].tree[f] # NoFile
         /\ VersionMarker(list[i].name, f) = Mark(list, i, f)
<1> DEFINE N == Len(list)
           fh == index.files[f]
           t == list[i].name
<1>1. /\ N \in Nat /\ DOMAIN list = 1 .. N /\ i \in 1 .. N
      /\ i \in Nat /\ i # 0 /\ i <= N
      /\ \A j \in 1 .. N : list[j].name # 0
  BY TagListEntries
<1>2. \A j \in 1 .. N : IndexOfTag(list[j].name) = j
  BY PlaceOfName
<1>3. IndexOfTag(t) = i /\ \A j \in 1 .. N : t = list[j].name => j = i
  BY <1>2 DEF Distinct
<1>4. HasFile(t, f) <=> /\ fh.FirstTag # 0 /\ IndexOfTag(fh.FirstTag) >= i
                        /\ fh.LastTag # 0 => i >= IndexOfTag(fh.LastTag)
  BY <1>1, <1>3 DEF HasFile
<1>5. VersionMarker(t, f) =
        IF fh.FirstTag = 0 THEN "default"
        ELSE IF HasFile(t, f) THEN IF t \in fh.ChangedAt THEN "changed_here" ELSE "default"
        ELSE IF i > IndexOfTag(fh.FirstTag) THEN "not_yet" ELSE "deleted"
  BY <1>3 DEF VersionMarker
<1> DEFINE has(j) == list[j].tree[f] # NoFile
<1>6. Mark(list, i, f) =
        IF \A j \in 1 .. N : ~has(j) THEN "default"
        ELSE IF ~has(i) THEN IF \E j \in i + 1 .. N : has(j) THEN "deleted" ELSE "not_yet"
        ELSE IF i = N \/ (has(i + 1) /\ list[i + 1].tree[f] # list[i].tree[f])
        THEN "changed_here" ELSE "default"
  BY <1>1 DEF Mark
<1>7. CASE fh = NoHistory /\ \A j \in 1 .. N : list[j].tree[f] = NoFile
  <2>1. fh.FirstTag = 0
    BY <1>7 DEF NoHistory
  <2>2. ~HasFile(t, f) /\ VersionMarker(t, f) = "default"
    BY <1>4, <1>5, <2>1
  <2>3. Mark(list, i, f) = "default"
    BY <1>6, <1>7
  <2> QED BY <1>7, <2>2, <2>3
<1>8. ASSUME NEW first \in 1 .. N, NEW last \in 1 .. N, first <= last,
             \A j \in 1 .. N : list[j].tree[f] # NoFile <=> first <= j /\ j <= last,
             fh.FirstTag = list[last].name,
             fh.LastTag = IF first = 1 THEN 0 ELSE list[first].name,
             \A u : u \in fh.ChangedAt <=>
                      \/ \E j \in first .. (last - 1) :
                           u = list[j].name /\ list[j + 1].tree[f] # list[j].tree[f]
                      \/ last = N /\ u = list[N].name
      PROVE  /\ HasFile(t, f) <=> has(i)
             /\ VersionMarker(t, f) = Mark(list, i, f)
  <2> HIDE DEF fh, N
  <2>1. first \in Nat /\ last \in Nat /\ first # 0 /\ last <= N
    BY <1>1
  <2>2. fh.FirstTag # 0 /\ IndexOfTag(fh.FirstTag) = last
    BY <1>1, <1>2, <1>8
  <2>3. first # 1 => fh.LastTag # 0 /\ IndexOfTag(fh.LastTag) = first
    BY <1>1, <1>2, <1>8
  <2>4. first = 1 => fh.LastTag = 0
    BY <1>8
  <2>5. HasFile(t, f) <=> first <= i /\ i <= last
    <3>1. CASE first = 1
      BY <1>1, <1>4, <2>1, <2>2, <2>4, <3>1
    <3>2. CASE first # 1
      BY <1>1, <1>4, <2>1, <2>2, <2>3, <3>2
    <3> QED BY <3>1, <3>2
  <2>6. has(i) <=> first <= i /\ i <= last
    BY <1>1, <1>8
  <2>7. has(last)
    <3>1. has(last) <=> first <= last /\ last <= last
      BY <1>8
    <3> QED BY <1>8, <2>1, <3>1
  <2>8. CASE ~has(i)
    <3>1. VersionMarker(t, f) = IF i > last THEN "not_yet" ELSE "deleted"
      BY <1>5, <2>2, <2>5, <2>6, <2>8
    <3>2. i > last => \A j \in i + 1 .. N : ~has(j)
      <4>1. ASSUME i > last, NEW j \in i + 1 .. N PROVE ~has(j)
        <5>1. j \in 1 .. N /\ ~(j <= last)
          BY <1>1, <2>1, <4>1
        <5> QED BY <1>8, <5>1
      <4> QED BY <4>1
    <3>3. ~(i > last) => last \in i + 1 .. N
      BY <1>1, <1>8, <2>1, <2>6, <2>8
    <3>4. Mark(list, i, f) = IF \E j \in i + 1 .. N : has(j) THEN "deleted" ELSE "not_yet"
      BY <1>6, <2>7, <2>8
    <3>5. (\E j \in i + 1 .. N : has(j)) <=> ~(i > last)
      <4> HIDE DEF has
      <4> QED BY <2>7, <3>2, <3>3
    <3> QED BY <2>5, <2>6, <2>8, <3>1, <3>4, <3>5
  <2>9. CASE has(i)
    <3>1. VersionMarker(t, f) = IF t \in fh.ChangedAt THEN "changed_here" ELSE "default"
      BY <1>5, <2>2, <2>5, <2>6, <2>9
    <3>2. Mark(list, i, f) = IF i = N \/ (has(i + 1) /\ list[i + 1].tree[f] # list[i].tree[f])
                             THEN "changed_here" ELSE "default"
      BY <1>1, <1>6, <2>9
    <3>3. \A j \in 1 .. N : t = list[j].name => j = i
      BY <1>3
    <3>4. i # N => i + 1 \in 1 .. N /\ (has(i + 1) <=> first <= i + 1 /\ i + 1 <= last)
      <4>1. i # N => i + 1 \in 1 .. N
        BY <1>1
      <4> QED BY <1>8, <4>1
    <3>5. t \in fh.ChangedAt <=> \/ \E j \in first .. (last - 1) :
                                     t = list[j].name /\ list[j + 1].tree[f] # list[j].tree[f]
                                 \/ last = N /\ t = list[N].name
      BY <1>8
    <3>6. first <= i /\ i <= last
      BY <2>6, <2>9
    <3>7. \A j \in first .. (last - 1) : j \in 1 .. N
      BY <1>1, <2>1
    <3>8. N \in 1 .. N
      BY <1>1
    <3>9. t \in fh.ChangedAt <=> \/ i \in first .. (last - 1) /\ list[i + 1].tree[f] # list[i].tree[f]
                                 \/ last = N /\ i = N
      BY <3>3, <3>5, <3>7, <3>8
    <3>10. i \in first .. (last - 1) <=> i # N /\ i + 1 <= last
      BY <1>1, <2>1, <3>6
    <3>11. i = N => last = N
      BY <1>1, <2>1, <3>6
    <3>12. i # N => (has(i + 1) <=> i + 1 <= last)
      BY <1>1, <2>1, <3>4, <3>6
    <3>13. t \in fh.ChangedAt <=>
             i = N \/ (has(i + 1) /\ list[i + 1].tree[f] # list[i].tree[f])
      <4> HIDE DEF has
      <4>1. CASE i = N
        BY <3>9, <3>11, <4>1
      <4>2. CASE i # N
        BY <3>9, <3>10, <3>12, <4>2
      <4> QED BY <4>1, <4>2
    <3> QED BY <2>5, <2>6, <3>1, <3>2, <3>13
  <2> QED BY <2>8, <2>9
<1>9. \/ fh = NoHistory /\ \A j \in 1 .. N : list[j].tree[f] = NoFile
      \/ \E first, last \in 1 .. N :
                 /\ first <= last
                 /\ \A j \in 1 .. N : list[j].tree[f] # NoFile <=> first <= j /\ j <= last
                 /\ fh.FirstTag = list[last].name
                 /\ fh.LastTag = IF first = 1 THEN 0 ELSE list[first].name
                 /\ \A u : u \in fh.ChangedAt <=>
                      \/ \E j \in first .. (last - 1) :
                           u = list[j].name /\ list[j + 1].tree[f] # list[j].tree[f]
                      \/ last = N /\ u = list[N].name
  BY FileNotes, Zenon
<1> HIDE DEF fh
<1> QED BY <1>7, <1>8, <1>9, Zenon

LEMMA Addresses ==
  /\ DOMAIN NoteAt = {"x", "x/index"} /\ NoteAt["x"] = "x.md" /\ NoteAt["x/index"] = "x/index.md"
  /\ DOMAIN AddressOf = {"x.md", "x/index.md"}
  /\ Under["x"] = {"x/index.md"} /\ Under["x/index"] = {}
BY DEF NoteAt, AddressOf, Under, Files

\* A page under a tag is what the tag's tree has at the address.
LEMMA PageFound ==
  ASSUME NEW list \in TagLists, Distinct(list), index = Rebuilt(list),
         \A f \in Files : Unbroken(list, f), NEW i \in 1 .. Len(list),
         refs[list[i].name] # 0, TreeOf(list[i].name) = list[i].tree,
         NEW sub \in DOMAIN NoteAt \cup Files \cup {"x/"}
  PROVE  TaggedPage(list[i].name, sub) = PageOf(list[i].tree, sub)
<1> DEFINE t == list[i].name
           tree == list[i].tree
           d == ResolveAtTag(t, sub)
<1>1. \A f \in Files : HasFile(t, f) <=> tree[f] # NoFile
  BY IndexSays
<1>2. IndexOfTag(t) = i /\ i # -1
  BY PlaceOfName, TagListEntries
<1>3. TaggedPage(t, sub) = IF d.action # "serve" THEN d
                           ELSE IF tree[d.file] = NoFile THEN NotFound
                           ELSE d @@ [bytes |-> tree[d.file]]
  BY <1>2 DEF TaggedPage
<1> HIDE DEF t, tree
<1>4. sub \in {"x", "x/index", "x.md", "x/index.md", "x/"}
  BY Addresses DEF Files
<1>5. CASE sub \in DOMAIN AddressOf
  <2>1. sub # "x/"
    BY <1>5, Addresses
  <2>2. d = RedirectTo(AddressOf[sub])
    BY <1>5, <2>1, Zenon DEF ResolveAtTag
  <2>3. TaggedPage(t, sub) = RedirectTo(AddressOf[sub])
    BY <1>3, <2>2 DEF RedirectTo
  <2>4. PageOf(tree, sub) = RedirectTo(AddressOf[sub])
    BY <1>5, Addresses DEF PageOf
  <2> QED BY <2>3, <2>4 DEF t, tree
<1>6. CASE sub = "x/"
  <2>1. d = IF tree["x/index.md"] # NoFile THEN Serve("x/index.md") ELSE NotFound
    BY <1>1, <1>6, Addresses DEF ResolveAtTag, Files
  <2>2. TaggedPage(t, sub) = IF tree["x/index.md"] # NoFile
                             THEN Serve("x/index.md") @@ [bytes |-> tree["x/index.md"]]
                             ELSE NotFound
    <3>1. CASE tree["x/index.md"] # NoFile
      <4>1. d = Serve("x/index.md")
        BY <2>1, <3>1
      <4>2. d.action = "serve" /\ d.file = "x/index.md"
        BY <4>1 DEF Serve
      <4> HIDE DEF d
      <4> QED BY <1>3, <3>1, <4>1, <4>2, Zenon
    <3>2. CASE tree["x/index.md"] = NoFile
      <4>1. d = NotFound /\ d.action # "serve"
        BY <2>1, <3>2 DEF NotFound
      <4> HIDE DEF d
      <4> QED BY <1>3, <3>2, <4>1
    <3> QED BY <3>1, <3>2
  <2>3. PageOf(tree, sub) = IF tree["x/index.md"] # NoFile
                            THEN Serve("x/index.md") @@ [bytes |-> tree["x/index.md"]]
                            ELSE NotFound
    BY <1>6, Addresses DEF PageOf
  <2> QED BY <2>2, <2>3 DEF t, tree
<1>7. CASE sub = "x"
  <2>1. d = IF tree["x.md"] # NoFile THEN Serve("x.md")
            ELSE IF tree["x/index.md"] # NoFile THEN RedirectTo("x/") ELSE NotFound
    BY <1>1, <1>7, Addresses DEF ResolveAtTag, Files
  <2>2. TaggedPage(t, sub) = IF tree["x.md"] # NoFile
                             THEN Serve("x.md") @@ [bytes |-> tree["x.md"]]
                             ELSE IF tree["x/index.md"] # NoFile THEN RedirectTo("x/") ELSE NotFound
    <3>1. CASE tree["x.md"] # NoFile
      <4>1. d = Serve("x.md")
        BY <2>1, <3>1
      <4>2. d.action = "serve" /\ d.file = "x.md"
        BY <4>1 DEF Serve
      <4> HIDE DEF d
      <4> QED BY <1>3, <3>1, <4>1, <4>2, Zenon
    <3>2. CASE tree["x.md"] = NoFile
      <4>1. d = IF tree["x/index.md"] # NoFile THEN RedirectTo("x/") ELSE NotFound
        BY <2>1, <3>2
      <4>2. d.action # "serve"
        BY <4>1 DEF NotFound, RedirectTo
      <4> HIDE DEF d
      <4> QED BY <1>3, <3>2, <4>1, <4>2
    <3> QED BY <3>1, <3>2
  <2>3. PageOf(tree, sub) = IF tree["x.md"] # NoFile
                             THEN Serve("x.md") @@ [bytes |-> tree["x.md"]]
                             ELSE IF tree["x/index.md"] # NoFile THEN RedirectTo("x/") ELSE NotFound
    BY <1>7, Addresses DEF PageOf
  <2> QED BY <2>2, <2>3 DEF t, tree
<1>8. CASE sub = "x/index"
  <2>1. d = IF tree["x/index.md"] # NoFile THEN Serve("x/index.md") ELSE NotFound
    BY <1>1, <1>8, Addresses DEF ResolveAtTag, Files
  <2>2. TaggedPage(t, sub) = IF tree["x/index.md"] # NoFile
                             THEN Serve("x/index.md") @@ [bytes |-> tree["x/index.md"]]
                             ELSE NotFound
    <3>1. CASE tree["x/index.md"] # NoFile
      <4>1. d = Serve("x/index.md")
        BY <2>1, <3>1
      <4>2. d.action = "serve" /\ d.file = "x/index.md"
        BY <4>1 DEF Serve
      <4> HIDE DEF d
      <4> QED BY <1>3, <3>1, <4>1, <4>2, Zenon
    <3>2. CASE tree["x/index.md"] = NoFile
      <4>1. d = NotFound /\ d.action # "serve"
        BY <2>1, <3>2 DEF NotFound
      <4> HIDE DEF d
      <4> QED BY <1>3, <3>2, <4>1
    <3> QED BY <3>1, <3>2
  <2>3. PageOf(tree, sub) = IF tree["x/index.md"] # NoFile
                            THEN Serve("x/index.md") @@ [bytes |-> tree["x/index.md"]]
                            ELSE NotFound
    BY <1>8, Addresses DEF PageOf
  <2> QED BY <2>2, <2>3 DEF t, tree
<1> QED BY <1>4, <1>5, <1>6, <1>7, <1>8, Addresses

\* The places of a finite sequence can be arranged.
LEMMA PlacesOf ==
  ASSUME NEW N \in Nat, NEW S \in SUBSET (1 .. N)
  PROVE  \A n \in DOMAIN Places(S) : Places(S)[n] \in S
<1>1. IsFiniteSet(S)
  <2>1. IsFiniteSet(1 .. N)
    <3>1. 1 \in Int /\ N \in Int
      OBVIOUS
    <3> QED BY <3>1, FS_Interval, Zenon
  <2> QED BY <2>1, FS_Subset
<1> DEFINE before == {p \in S \X S : p[1] < p[2]}
<1>2. StrictOrder(S, before)
  <2>1. \A x, y \in S : <<x, y>> \in before <=> x < y
    OBVIOUS
  <2>2. \A x \in S : x \in Nat
    OBVIOUS
  <2> HIDE DEF before
  <2> QED BY <2>1, <2>2 DEF StrictOrder
<1>3. Arranges(Arranged(S, before), S, before)
  <2> HIDE DEF before
  <2> QED BY <1>1, <1>2, ArrangedArranges
<1>4. Arranged(S, before) \in [1 .. Cardinality(S) -> S]
  BY <1>3, Zenon DEF Arranges
<1> HIDE DEF before
<1>5. \A n \in DOMAIN Arranged(S, before) : Arranged(S, before)[n] \in S
  BY <1>4
<1> QED BY <1>5 DEF Places, before

Modes == {"only_reviewed", "only_versioned", "only_tags"}
EntryPlaces(list, mode) ==
  {i \in DOMAIN list : mode = "only_tags" \/ (list[i].name \in Reviewed <=> mode = "only_reviewed")}

\* The switcher has the tags of its mode, marked as their trees say.
LEMMA EntriesMarked ==
  ASSUME NEW list \in TagLists, Distinct(list), index = Rebuilt(list),
         NEW f \in Files, Unbroken(list, f), NEW mode \in Modes
  PROVE  BuildVersionEntries(mode, f) =
           LET at == Places(EntryPlaces(list, mode))
           IN [n \in DOMAIN at |-> [name |-> list[at[n]].name, to |-> f, marker |-> Mark(list, at[n], f)]]
<1> DEFINE N == Len(list)
           S == EntryPlaces(list, mode)
           at == Places(S)
           listed(t) == CASE mode = "only_reviewed" -> t \in Reviewed
                          [] mode = "only_versioned" -> t \notin Reviewed
                          [] OTHER -> TRUE
<1>1. N \in Nat /\ DOMAIN list = 1 .. N
  BY TagListEntries
<1>2. DOMAIN index.tags = 1 .. N /\ \A i \in 1 .. N : index.tags[i] = list[i].name
  BY <1>1 DEF Rebuilt
<1>3. S \in SUBSET (1 .. N)
  BY <1>1 DEF EntryPlaces
<1>4. ASSUME NEW t
      PROVE  listed(t) <=> mode = "only_tags" \/ (t \in Reviewed <=> mode = "only_reviewed")
  <2>1. CASE mode = "only_reviewed"
    BY <2>1
  <2>2. CASE mode = "only_versioned"
    BY <2>2
  <2>3. CASE mode = "only_tags"
    BY <2>3
  <2> QED BY <2>1, <2>2, <2>3 DEF Modes
<1> HIDE DEF listed
<1>5. {i \in DOMAIN index.tags : listed(index.tags[i])} = S
  BY <1>1, <1>2, <1>4 DEF EntryPlaces
<1>6. FilterTagsByMode(mode) =
        LET places == Places({i \in DOMAIN index.tags : listed(index.tags[i])})
        IN [n \in DOMAIN places |-> index.tags[places[n]]]
  BY DEF FilterTagsByMode, listed
<1>7. FilterTagsByMode(mode) = [n \in DOMAIN at |-> index.tags[at[n]]]
  BY <1>5, <1>6
<1>8. \A n \in DOMAIN at : at[n] \in S
  <2> HIDE DEF S, N
  <2> QED BY <1>1, <1>3, PlacesOf
<1>9. ASSUME NEW n \in DOMAIN at
      PROVE  index.tags[at[n]] = list[at[n]].name
             /\ VersionMarker(index.tags[at[n]], f) = Mark(list, at[n], f)
  <2>1. at[n] \in 1 .. N
    BY <1>3, <1>8
  <2> QED BY <1>2, <2>1, IndexSays
<1> HIDE DEF at, S
<1>10. BuildVersionEntries(mode, f) =
         [n \in DOMAIN at |-> [name |-> index.tags[at[n]], to |-> f,
                               marker |-> VersionMarker(index.tags[at[n]], f)]]
  BY <1>7 DEF BuildVersionEntries
<1>11. BuildVersionEntries(mode, f) =
         [n \in DOMAIN at |-> [name |-> list[at[n]].name, to |-> f, marker |-> Mark(list, at[n], f)]]
  BY <1>9, <1>10
<1> QED BY <1>11 DEF at, S
-----------------------------------------------------------------------------
\* The list that SyncTags makes
NewerPairs == {p \in Tagged \X Tagged : Newer(p[1], p[2])}

LEMMA NewerOrder ==
  ASSUME TagsTypeOK
  PROVE  /\ \A t, u \in Tagged : <<t, u>> \in NewerPairs <=> Newer(t, u)
         /\ \A t \in Tagged : /\ t \in TagNames /\ t \in Nat /\ refs[t] \in DOMAIN gitLog
                              /\ gitLog[refs[t]].second \in Nat
         /\ StrictOrder(Tagged, NewerPairs)
<1>1. \A t, u \in Tagged : <<t, u>> \in NewerPairs <=> Newer(t, u)
  BY DEF NewerPairs
<1>2. ASSUME NEW t \in Tagged
      PROVE  /\ t \in TagNames /\ t \in Nat /\ refs[t] \in DOMAIN gitLog
             /\ gitLog[refs[t]].second \in Nat
  <2>1. t \in TagNames /\ t \in Nat /\ refs[t] # 0
    BY TagNamesAssumption DEF Tagged
  <2>2. refs[t] \in 0 .. Len(gitLog) /\ Len(gitLog) \in Nat /\ DOMAIN gitLog = 1 .. Len(gitLog)
    BY <2>1 DEF TagsTypeOK
  <2>3. refs[t] \in DOMAIN gitLog
    BY <2>1, <2>2
  <2>4. gitLog[refs[t]] \in TreeCommits
    BY <2>2, <2>3 DEF TagsTypeOK
  <2> QED BY <2>1, <2>3, <2>4 DEF TreeCommits
<1>3. StrictOrder(Tagged, NewerPairs)
  <2> DEFINE at(v) == gitLog[refs[v]].second
  <2>1. \A t, u \in Tagged : <<t, u>> \in NewerPairs <=> at(t) > at(u) \/ (at(t) = at(u) /\ t > u)
    BY <1>1 DEF Newer
  <2>2. \A t \in Tagged : at(t) \in Nat /\ t \in Nat
    BY <1>2
  <2> HIDE DEF at
  <2> QED BY <2>1, <2>2 DEF StrictOrder
<1> QED BY <1>1, <1>2, <1>3

\* A list that stands.
LEMMA StandingList ==
  ASSUME TagsTypeOK, NEW names, NEW c, StandsAt(names, c)
  PROVE  /\ ListOf(names, c) \in TagLists /\ Distinct(ListOf(names, c))
         /\ Len(names) \in Nat /\ DOMAIN names = 1 .. Len(names) /\ Len(ListOf(names, c)) = Len(names)
         /\ \A i \in 1 .. Len(names) :
              /\ ListOf(names, c)[i] = [name |-> names[i], tree |-> gitLog[c[i]].tree]
              /\ names[i] \in TagNames /\ c[i] \in DOMAIN gitLog
              /\ gitLog[c[i]] \in TreeCommits
<1> DEFINE list == ListOf(names, c)
           N == Len(names)
<1>1. N \in Nat /\ DOMAIN names = 1 .. N
  BY DEF StandsAt
<1>2. ASSUME NEW i \in 1 .. N
      PROVE  /\ names[i] \in TagNames /\ c[i] \in DOMAIN gitLog
             /\ gitLog[c[i]] \in TreeCommits
  <2>1. names[i] \in TagNames /\ c[i] \in DOMAIN gitLog
    BY <1>1 DEF StandsAt
  <2>2. gitLog \in Seq(TreeCommits)
    BY DEF TagsTypeOK
  <2> QED BY <2>1, <2>2
<1>3. list = [i \in 1 .. N |-> [name |-> names[i], tree |-> gitLog[c[i]].tree]]
  BY <1>1 DEF ListOf
<1>4. \A i \in 1 .. N : list[i] \in TagEntries
  BY <1>2, <1>3 DEF TagEntries, TreeCommits
<1> HIDE DEF list
<1>5. list \in TagLists /\ Len(list) = N
  BY <1>1, <1>3, <1>4 DEF TagLists
<1>6. ASSUME NEW i \in 1 .. N, NEW j \in 1 .. N, list[i].name = list[j].name PROVE i = j
  <2>1. names[i] = names[j]
    BY <1>3, <1>6
  <2>2. ~(i < j) /\ ~(j < i)
    BY <1>1, <2>1 DEF StandsAt
  <2> QED BY <1>1, <2>2
<1>7. Distinct(list)
  BY <1>5, <1>6 DEF Distinct
<1> QED BY <1>1, <1>2, <1>3, <1>5, <1>7 DEF list

\* What ListTagsNewestFirst returns stands, and has all tags.
LEMMA ListedStands ==
  ASSUME TagsTypeOK
  PROVE  \E c \in [DOMAIN NamesNewestFirst -> DOMAIN gitLog] :
           /\ StandsAt(NamesNewestFirst, c)
           /\ ListTagsNewestFirst = ListOf(NamesNewestFirst, c)
           /\ Tagged = {NamesNewestFirst[i] : i \in DOMAIN NamesNewestFirst}
<1> DEFINE names == NamesNewestFirst
           N == Cardinality(Tagged)
           c == [i \in DOMAIN names |-> refs[names[i]]]
<1>1. IsFiniteSet(Tagged) /\ N \in Nat
  BY FS_CardinalityType DEF TagsTypeOK
<1>2. names = Arranged(Tagged, NewerPairs)
  BY DEF NamesNewestFirst, NewerPairs
<1>3. /\ Arranges(names, Tagged, NewerPairs)
      /\ \A t \in Tagged : \E i \in 1 .. N : names[i] = t
  BY <1>1, <1>2, NewerOrder, ArrangedArranges
<1> HIDE DEF names
<1>4. /\ names \in [1 .. N -> Tagged] /\ DOMAIN names = 1 .. N
      /\ \A i, j \in 1 .. N : i < j => <<names[i], names[j]>> \in NewerPairs
  BY <1>3 DEF Arranges
<1>5. \A i \in 1 .. N : /\ names[i] \in Tagged /\ names[i] \in TagNames /\ refs[names[i]] \in DOMAIN gitLog
                        /\ gitLog[refs[names[i]]].second \in Nat /\ names[i] \in Nat
  BY <1>4, NewerOrder
<1>6. names \in Seq(TagNames)
  <2>1. names \in [1 .. N -> TagNames]
    BY <1>4, <1>5
  <2> HIDE DEF N
  <2> QED BY <1>1, <2>1
<1>7. c \in [DOMAIN names -> DOMAIN gitLog] /\ \A i \in 1 .. N : c[i] = refs[names[i]]
  BY <1>4, <1>5
<1> HIDE DEF c
<1>8. ASSUME NEW i \in 1 .. N, NEW j \in 1 .. N, i < j
      PROVE  /\ names[i] # names[j]
             /\ \/ gitLog[c[i]].second > gitLog[c[j]].second
                \/ gitLog[c[i]].second = gitLog[c[j]].second /\ names[i] > names[j]
  <2>1. Newer(names[i], names[j])
    BY <1>4, <1>5, <1>8, NewerOrder
  <2>2. \/ gitLog[refs[names[i]]].second > gitLog[refs[names[j]]].second
        \/ gitLog[refs[names[i]]].second = gitLog[refs[names[j]]].second /\ names[i] > names[j]
    BY <2>1 DEF Newer
  <2> QED BY <1>5, <1>7, <2>2
<1>9. StandsAt(names, c)
  BY <1>4, <1>6, <1>7, <1>8 DEF StandsAt
<1>10. ListTagsNewestFirst = ListOf(names, c)
  <2>1. ListTagsNewestFirst = [i \in DOMAIN names |-> [name |-> names[i], tree |-> TreeOf(names[i])]]
    BY DEF ListTagsNewestFirst, names
  <2>2. \A i \in DOMAIN names : TreeOf(names[i]) = gitLog[c[i]].tree
    BY <1>4, <1>7 DEF TreeOf
  <2> QED BY <2>1, <2>2 DEF ListOf
<1>11. Tagged = {names[i] : i \in DOMAIN names}
  BY <1>3, <1>4
<1> QED BY <1>7, <1>9, <1>10, <1>11 DEF names

\* A list that stands and has all tags is that list.
LEMMA StandingIsListed ==
  ASSUME TagsTypeOK, NEW names, NEW c, StandsAt(names, c),
         Tagged = {names[i] : i \in DOMAIN names}
  PROVE  /\ ListTagsNewestFirst = ListOf(names, c)
         /\ \A i \in DOMAIN names : refs[names[i]] # 0 /\ TreeOf(names[i]) = gitLog[c[i]].tree
<1> DEFINE N == Len(names)
<1>1. N \in Nat /\ DOMAIN names = 1 .. N
  BY StandingList
<1>2. \A i \in 1 .. N : names[i] \in Tagged /\ refs[names[i]] # 0 /\ refs[names[i]] = c[i]
  BY <1>1 DEF Tagged, StandsAt
<1>3. \A i, j \in 1 .. N : i < j => <<names[i], names[j]>> \in NewerPairs
  <2>1. ASSUME NEW i \in 1 .. N, NEW j \in 1 .. N, i < j PROVE Newer(names[i], names[j])
    BY <1>1, <1>2, <2>1 DEF StandsAt, Newer
  <2> QED BY <1>2, <2>1, NewerOrder
<1>4. names \in [1 .. N -> Tagged] /\ \A t \in Tagged : \E i \in 1 .. N : names[i] = t
  <2>1. names \in [1 .. N -> TagNames]
    BY <1>1 DEF StandsAt
  <2> QED BY <1>1, <1>2, <2>1
<1>5. names = Arranged(Tagged, NewerPairs)
  <2>1. IsFiniteSet(Tagged)
    BY DEF TagsTypeOK
  <2> HIDE DEF N
  <2> QED BY <1>1, <1>3, <1>4, <2>1, NewerOrder, OneArrangement
<1>6. names = NamesNewestFirst
  BY <1>5 DEF NamesNewestFirst, NewerPairs
<1>7. \A i \in DOMAIN names : TreeOf(names[i]) = gitLog[c[i]].tree
  BY <1>1, <1>2 DEF TreeOf
<1> QED BY <1>1, <1>2, <1>6, <1>7 DEF ListTagsNewestFirst, ListOf
-----------------------------------------------------------------------------
\* Steps
NoReuse == ~NamesReused

\* Commits are added only, and no name of the list is a tag of another commit.
LEMMA StandsOn ==
  ASSUME NEW names, NEW c, StandsAt(names, c), c \in [DOMAIN names -> DOMAIN gitLog],
         \A k \in DOMAIN gitLog : k \in DOMAIN gitLog' /\ gitLog'[k] = gitLog[k],
         \A i \in DOMAIN names : refs'[names[i]] \in {0, refs[names[i]]}
  PROVE  /\ StandsAt(names, c)' /\ c \in [DOMAIN names -> DOMAIN gitLog']
         /\ ListOf(names, c)' = ListOf(names, c)
<1>1. \A i \in DOMAIN names : c[i] \in DOMAIN gitLog /\ gitLog'[c[i]] = gitLog[c[i]]
  OBVIOUS
<1>2. c \in [DOMAIN names -> DOMAIN gitLog']
  OBVIOUS
<1>3. ListOf(names, c)' = ListOf(names, c)
  BY <1>1 DEF ListOf
<1>4. \A i \in DOMAIN names : refs'[names[i]] \in {0, c[i]}
  BY DEF StandsAt
<1>5. StandsAt(names, c)'
  BY <1>1, <1>2, <1>4 DEF StandsAt
<1> QED BY <1>2, <1>3, <1>5

LEMMA TagsTypeStep ==
  ASSUME TagsTypeOK, TagsNext
  PROVE  /\ TagsTypeOK'
         /\ \A k \in DOMAIN gitLog : k \in DOMAIN gitLog' /\ gitLog'[k] = gitLog[k]
<1>1. /\ gitLog \in Seq(TreeCommits) /\ gitLog # << >> /\ Len(gitLog) \in Nat
      /\ DOMAIN gitLog = 1 .. Len(gitLog) /\ Len(gitLog) \in DOMAIN gitLog
      /\ refs \in [TagNames -> 0 .. Len(gitLog)] /\ IsFiniteSet(Tagged)
  BY DEF TagsTypeOK
<1>2. ASSUME NEW f \in Files, NEW b \in {NoFile} \cup Bytes, CommitFile(f, b)
      PROVE  /\ TagsTypeOK'
             /\ \A k \in DOMAIN gitLog : k \in DOMAIN gitLog' /\ gitLog'[k] = gitLog[k]
  <2>1. PICK sooner \in {0, 1} :
          gitLog' = Append(gitLog, [tree |-> [Last(gitLog).tree EXCEPT ![f] = b],
                                    second |-> Last(gitLog).second + sooner])
    BY <1>2 DEF CommitFile
  <2>2. Last(gitLog) \in TreeCommits
    BY <1>1 DEF Last
  <2>3. Last(gitLog).tree \in FileTreesAt /\ Last(gitLog).second \in Nat
    BY <2>2 DEF TreeCommits
  <2> DEFINE next == [tree |-> [Last(gitLog).tree EXCEPT ![f] = b],
                      second |-> Last(gitLog).second + sooner]
  <2>4. next \in TreeCommits
    <3>1. [Last(gitLog).tree EXCEPT ![f] = b] \in FileTreesAt
      BY <2>3 DEF FileTreesAt
    <3>2. Last(gitLog).second + sooner \in Nat
      BY <2>3
    <3> QED BY <3>1, <3>2 DEF TreeCommits
  <2> HIDE DEF next
  <2>5. gitLog' = Append(gitLog, next)
    BY <2>1 DEF next
  <2>6. /\ gitLog' \in Seq(TreeCommits) /\ gitLog' # << >> /\ Len(gitLog') = Len(gitLog) + 1
        /\ \A k \in DOMAIN gitLog : k \in DOMAIN gitLog' /\ gitLog'[k] = gitLog[k]
    BY <1>1, <2>4, <2>5
  <2>7. refs' \in [TagNames -> 0 .. Len(gitLog')]
    <3>1. refs' = refs
      BY <1>2 DEF CommitFile
    <3>2. 0 .. Len(gitLog) \subseteq 0 .. Len(gitLog')
      BY <1>1, <2>6
    <3> QED BY <1>1, <3>1, <3>2
  <2>8. UNCHANGED <<refs, armed, syncing>>
    BY <1>2 DEF CommitFile
  <2>9. IsFiniteSet(Tagged)'
    BY <1>1, <2>8 DEF Tagged
  <2> QED BY <2>6, <2>7, <2>8, <2>9 DEF TagsTypeOK
<1>3. ASSUME NEW t \in TagNames, NEW c \in DOMAIN gitLog, MakeTag(t, c) PROVE TagsTypeOK' /\ gitLog' = gitLog
  <2>1. refs' = [refs EXCEPT ![t] = c] /\ armed' = TRUE /\ UNCHANGED <<gitLog, syncing>>
    BY <1>3 DEF MakeTag, TagsWritten
  <2>2. refs' \in [TagNames -> 0 .. Len(gitLog)]
    BY <1>1, <2>1
  <2>3. Tagged' \subseteq Tagged \cup {t}
    BY <1>1, <2>1 DEF Tagged
  <2>4. IsFiniteSet(Tagged')
    BY <1>1, <2>3, FS_AddElement, FS_Subset
  <2> QED BY <2>1, <2>2, <2>4 DEF TagsTypeOK
<1>4. ASSUME NEW t \in TagNames, DeleteTag(t) PROVE TagsTypeOK' /\ gitLog' = gitLog
  <2>1. refs' = [refs EXCEPT ![t] = 0] /\ armed' = TRUE /\ UNCHANGED <<gitLog, syncing>>
    BY <1>4 DEF DeleteTag, TagsWritten
  <2>2. refs' \in [TagNames -> 0 .. Len(gitLog)]
    BY <1>1, <2>1
  <2>3. Tagged' \subseteq Tagged
    BY <1>1, <2>1 DEF Tagged
  <2>4. IsFiniteSet(Tagged')
    BY <1>1, <2>3, FS_Subset
  <2> QED BY <2>1, <2>2, <2>4 DEF TagsTypeOK
<1>5. CASE SyncCompares \/ SyncLists \/ SyncInstalls
  <2>1. UNCHANGED <<gitLog, refs>> /\ armed' \in BOOLEAN
    BY <1>5 DEF SyncCompares, SyncLists, SyncInstalls, TagsTypeOK
  <2>2. /\ syncing'.at \in {"idle", "changed", "listed"}
        /\ syncing'.at # "listed" => syncing'.list = << >>
        /\ syncing' = [at |-> syncing'.at, list |-> syncing'.list]
    <3>1. CASE syncing' = Idle
      BY <3>1 DEF Idle
    <3>2. CASE syncing' = [Idle EXCEPT !.at = "changed"]
      BY <3>2 DEF Idle
    <3>3. CASE syncing' = [at |-> "listed", list |-> ListTagsNewestFirst]
      BY <3>3
    <3> QED BY <1>5, <3>1, <3>2, <3>3 DEF SyncCompares, SyncLists, SyncInstalls
  <2>3. Tagged' = Tagged
    BY <2>1 DEF Tagged
  <2> QED BY <2>1, <2>2, <2>3 DEF TagsTypeOK
<1>6. CASE SyncCompares \/ SyncLists \/ SyncInstalls
  BY <1>5, <1>6 DEF SyncCompares, SyncLists, SyncInstalls
<1> QED BY <1>2, <1>3, <1>4, <1>5, <1>6 DEF TagsNext

\* No name that is listed is given to another commit.
LEMMA NamesStay ==
  ASSUME NoReuse, TagsInv, TagsNext
  PROVE  /\ \A i \in DOMAIN index.tags : refs'[index.tags[i]] \in {0, refs[index.tags[i]]}
         /\ \A i \in DOMAIN ListedNames : refs'[ListedNames[i]] \in {0, refs[ListedNames[i]]}
<1>1. refs \in [TagNames -> 0 .. Len(gitLog)]
  BY DEF TagsInv, TagsTypeOK
<1>5. /\ \A i \in DOMAIN index.tags : index.tags[i] \in TagNames
      /\ \A i \in DOMAIN ListedNames : ListedNames[i] \in TagNames
  BY DEF TagsInv, IndexStands, ListStands, StandsAt
<1>2. ASSUME NEW t \in TagNames, NEW c \in DOMAIN gitLog, MakeTag(t, c)
      PROVE  /\ \A i \in DOMAIN index.tags : index.tags[i] # t
             /\ \A i \in DOMAIN ListedNames : ListedNames[i] # t
             /\ \A u \in TagNames : u # t => refs'[u] = refs[u]
  <2>1. t \notin Range(index.tags) \cup {x.name : x \in Range(syncing.list)}
    BY <1>2 DEF MakeTag, NoReuse
  <2>2. \A i \in DOMAIN index.tags : index.tags[i] # t
    BY <2>1 DEF Range
  <2>3. \A i \in DOMAIN ListedNames : ListedNames[i] # t
    BY <2>1 DEF Range, ListedNames
  <2>4. refs' = [refs EXCEPT ![t] = c]
    BY <1>2 DEF MakeTag
  <2> QED BY <1>1, <2>2, <2>3, <2>4
<1>3. ASSUME NEW t \in TagNames, DeleteTag(t)
      PROVE  \A u \in TagNames : refs'[u] \in {0, refs[u]}
  BY <1>1, <1>3 DEF DeleteTag
<1>4. CASE refs' = refs
  BY <1>4
<1> QED BY <1>2, <1>3, <1>4, <1>5 DEF TagsNext, CommitFile, SyncCompares, SyncLists, SyncInstalls

LEMMA TagsStep ==
  ASSUME NoReuse, TagsInv, TagsNext
  PROVE  TagsInv'
<1>1. /\ TagsTypeOK /\ TagsTypeOK'
      /\ \A k \in DOMAIN gitLog : k \in DOMAIN gitLog' /\ gitLog'[k] = gitLog[k]
  BY TagsTypeStep DEF TagsInv
<1>2. /\ \A i \in DOMAIN index.tags : refs'[index.tags[i]] \in {0, refs[index.tags[i]]}
      /\ \A i \in DOMAIN ListedNames : refs'[ListedNames[i]] \in {0, refs[ListedNames[i]]}
  BY NamesStay
<1>3. PICK c \in [DOMAIN index.tags -> DOMAIN gitLog] :
        StandsAt(index.tags, c) /\ index = Rebuilt(ListOf(index.tags, c))
  BY DEF TagsInv, IndexStands
<1>4. PICK d \in [DOMAIN ListedNames -> DOMAIN gitLog] :
        StandsAt(ListedNames, d) /\ syncing.list = ListOf(ListedNames, d)
  BY DEF TagsInv, ListStands
<1>5. ASSUME syncing' = Idle \/ syncing'.list = << >> PROVE ListStands'
  <2>1. syncing'.list = << >>
    BY <1>5 DEF Idle
  <2>2. ListedNames' = << >>
    BY <2>1 DEF ListedNames
  <2>3. << >> \in [DOMAIN << >> -> DOMAIN gitLog']
    OBVIOUS
  <2>4. StandsAt(<< >>, << >>)' /\ ListOf(<< >>, << >>)' = << >>
    BY <2>3 DEF StandsAt, ListOf
  <2> QED BY <2>1, <2>2, <2>3, <2>4 DEF ListStands
<1>6. ASSUME index' = index PROVE IndexStands'
  <2>1. PICK names : names = index.tags
    OBVIOUS
  <2>2. PICK list : list = ListOf(names, c)
    OBVIOUS
  <2>3. /\ StandsAt(names, c)' /\ c \in [DOMAIN names -> DOMAIN gitLog']
        /\ ListOf(names, c)' = ListOf(names, c)
    BY <1>1, <1>2, <1>3, <2>1, StandsOn
  <2>4. index'.tags = names /\ index' = Rebuilt(list) /\ list = ListOf(names, c)'
    BY <1>3, <1>6, <2>1, <2>2, <2>3
  <2>5. IndexStands' <=> \E e \in [DOMAIN index'.tags -> DOMAIN gitLog'] :
                            StandsAt(index.tags, e)' /\ index' = Rebuilt(ListOf(index.tags, e)')
    BY DEF IndexStands, Rebuilt, Walk, Walked, Introduced
  <2> QED BY <2>3, <2>4 DEF IndexStands
<1>7. ASSUME syncing' = syncing PROVE ListStands'
  <2>1. PICK names : names = ListedNames
    OBVIOUS
  <2>2. /\ StandsAt(names, d)' /\ d \in [DOMAIN names -> DOMAIN gitLog']
        /\ ListOf(names, d)' = ListOf(names, d)
    BY <1>1, <1>2, <1>4, <2>1, StandsOn
  <2>3. ListedNames' = names
    BY <1>7, <2>1 DEF ListedNames
  <2> QED BY <1>4, <1>7, <2>1, <2>2, <2>3 DEF ListStands
<1>8. CASE \E f \in Files, b \in {NoFile} \cup Bytes : CommitFile(f, b)
  <2>1. UNCHANGED <<refs, armed, syncing, index>>
    BY <1>8 DEF CommitFile
  <2>2. SameNames' = SameNames /\ Tagged' = Tagged /\ ListedNames' = ListedNames
    <3>1. Tagged' = Tagged
      BY <2>1 DEF Tagged
    <3> QED BY <2>1, <3>1 DEF SameNames, ListedNames
  <2>3. NamesSettled
    BY DEF TagsInv
  <2>4. NamesSettled'
    BY <2>1, <2>2, <2>3 DEF NamesSettled
  <2> QED BY <1>1, <1>6, <1>7, <2>1, <2>4 DEF TagsInv
<1>9. CASE \/ \E t \in TagNames, e \in DOMAIN gitLog : MakeTag(t, e)
           \/ \E t \in TagNames : DeleteTag(t)
  <2>1. armed' = TRUE /\ UNCHANGED <<syncing, index>>
    BY <1>9 DEF MakeTag, DeleteTag, TagsWritten
  <2> QED BY <1>1, <1>6, <1>7, <2>1 DEF TagsInv, NamesSettled
<1>10. CASE SyncCompares
  <2>1. /\ syncing = Idle /\ UNCHANGED <<gitLog, refs, index>>
        /\ syncing' = IF SameNames THEN Idle ELSE [Idle EXCEPT !.at = "changed"]
    BY <1>10 DEF SyncCompares
  <2>2. syncing'.list = << >> /\ (syncing'.at = "idle" => SameNames) /\ syncing'.at # "listed"
    BY <2>1 DEF Idle
  <2>3. NamesSettled'
    BY <2>1, <2>2 DEF NamesSettled, SameNames, Tagged
  <2> QED BY <1>1, <1>5, <1>6, <2>1, <2>2, <2>3 DEF TagsInv
<1>11. CASE SyncLists
  <2>1. /\ syncing.at = "changed" /\ UNCHANGED <<gitLog, refs, armed, index>>
        /\ syncing' = [at |-> "listed", list |-> ListTagsNewestFirst]
    BY <1>11 DEF SyncLists
  <2>2. PICK e \in [DOMAIN NamesNewestFirst -> DOMAIN gitLog] :
           /\ StandsAt(NamesNewestFirst, e)
           /\ ListTagsNewestFirst = ListOf(NamesNewestFirst, e)
           /\ Tagged = {NamesNewestFirst[i] : i \in DOMAIN NamesNewestFirst}
    BY <1>1, ListedStands
  <2>3. PICK names : names = NamesNewestFirst
    OBVIOUS
  <2>4. ListedNames' = names
    <3>1. DOMAIN ListOf(names, e) = DOMAIN names /\ \A i \in DOMAIN names : ListOf(names, e)[i].name = names[i]
      BY DEF ListOf
    <3>2. ListedNames' = [i \in DOMAIN ListOf(names, e) |-> ListOf(names, e)[i].name]
      BY <2>1, <2>2, <2>3 DEF ListedNames
    <3>3. ListedNames' = [i \in DOMAIN names |-> names[i]]
      BY <3>1, <3>2
    <3>4. names = [i \in DOMAIN names |-> names[i]]
      <4>1. names \in Seq(TagNames)
        BY <2>2, <2>3 DEF StandsAt
      <4> QED BY <4>1
    <3> QED BY <3>3, <3>4
  <2>5. StandsAt(names, e)' /\ ListOf(names, e)' = ListOf(names, e)
    BY <2>1, <2>2, <2>3 DEF StandsAt, ListOf
  <2>6. ListStands'
    BY <2>1, <2>2, <2>3, <2>4, <2>5 DEF ListStands
  <2>7. Tagged' = {names[i] : i \in DOMAIN names}
    BY <2>1, <2>2, <2>3 DEF Tagged
  <2>8. NamesSettled'
    BY <2>1, <2>4, <2>7 DEF NamesSettled
  <2> QED BY <1>1, <1>6, <2>1, <2>6, <2>8 DEF TagsInv
<1>12. CASE SyncInstalls
  <2>1. /\ syncing.at = "listed" /\ UNCHANGED <<gitLog, refs, armed>>
        /\ index' = Rebuilt(syncing.list) /\ syncing' = Idle
    BY <1>12 DEF SyncInstalls
  <2>2. PICK names : names = ListedNames
    OBVIOUS
  <2>3. index'.tags = names
    BY <2>1, <2>2 DEF Rebuilt, ListedNames
  <2>4. StandsAt(names, d)' /\ ListOf(names, d)' = ListOf(names, d)
    BY <1>4, <2>1, <2>2 DEF StandsAt, ListOf
  <2>5. IndexStands'
    BY <1>4, <2>1, <2>2, <2>3, <2>4 DEF IndexStands
  <2>6. NamesSettled'
    <3>1. ~armed => Tagged = {names[i] : i \in DOMAIN names}
      BY <2>1, <2>2 DEF TagsInv, NamesSettled
    <3>2. Tagged' = Tagged
      BY <2>1 DEF Tagged
    <3> QED BY <2>1, <2>3, <3>1, <3>2 DEF NamesSettled, SameNames, Idle
  <2> QED BY <1>1, <1>5, <2>1, <2>5, <2>6 DEF TagsInv
<1> QED BY <1>8, <1>9, <1>10, <1>11, <1>12 DEF TagsNext

LEMMA TagsStart == TagsInit => TagsInv
<1> SUFFICES ASSUME TagsInit PROVE TagsInv
  OBVIOUS
<1>1. /\ gitLog = <<[tree |-> [f \in Files |-> NoFile], second |-> 1]>>
      /\ refs = [t \in TagNames |-> 0] /\ armed = FALSE
      /\ syncing = [at |-> "idle", list |-> << >>] /\ index = Rebuilt(<< >>)
  BY DEF TagsInit, Idle
<1>2. Tagged = {} /\ IsFiniteSet(Tagged)
  BY <1>1, FS_EmptySet DEF Tagged
<1>3. gitLog \in Seq(TreeCommits) /\ gitLog # << >> /\ Len(gitLog) = 1
  <2>1. [tree |-> [f \in Files |-> NoFile], second |-> 1] \in TreeCommits
    BY DEF TreeCommits, FileTreesAt
  <2> QED BY <1>1, <2>1
<1>4. TagsTypeOK
  <2>1. refs \in [TagNames -> 0 .. Len(gitLog)]
    BY <1>1, <1>3
  <2>2. syncing = [at |-> syncing.at, list |-> syncing.list] /\ syncing.at = "idle" /\ syncing.list = << >>
    BY <1>1
  <2>3. armed \in BOOLEAN
    BY <1>1
  <2> QED BY <1>2, <1>3, <2>1, <2>2, <2>3 DEF TagsTypeOK
<1>5. << >> \in [DOMAIN << >> -> DOMAIN gitLog] /\ StandsAt(<< >>, << >>) /\ ListOf(<< >>, << >>) = << >>
  BY DEF StandsAt, ListOf
<1>6. index.tags = << >> /\ ListedNames = << >>
  BY <1>1 DEF Rebuilt, ListedNames
<1>7. IndexStands /\ ListStands
  BY <1>1, <1>5, <1>6 DEF IndexStands, ListStands
<1>8. NamesSettled
  BY <1>1, <1>2, <1>6 DEF NamesSettled, SameNames
<1> QED BY <1>4, <1>7, <1>8 DEF TagsInv

\* When no name of a deleted tag is taken again before the index is synced, the
\* index is what rebuild makes of a list of tags, each of which is gone or still
\* where the list has it; and with nothing under way, that is every tag there is.
THEOREM TagsInvariant ==
  ASSUME NoReuse
  PROVE  TagsSpec => []TagsInv
<1>1. TagsInv /\ [TagsNext]_tagVars => TagsInv'
  <2> SUFFICES ASSUME TagsInv, [TagsNext]_tagVars PROVE TagsInv'
    OBVIOUS
  <2>1. CASE TagsNext
    BY <2>1, TagsStep
  <2>2. CASE UNCHANGED tagVars
    <3>1. UNCHANGED <<gitLog, refs, armed, syncing, index>>
      BY <2>2 DEF tagVars
    <3>2. Tagged' = Tagged /\ ListedNames' = ListedNames
      BY <3>1 DEF Tagged, ListedNames
    <3>3. SameNames' = SameNames
      BY <3>1, <3>2 DEF SameNames
    <3>4. TagsTypeOK'
      BY <3>1, <3>2 DEF TagsInv, TagsTypeOK
    <3>5. \A names, c : StandsAt(names, c)' = StandsAt(names, c) /\ ListOf(names, c)' = ListOf(names, c)
      BY <3>1 DEF StandsAt, ListOf
    <3>6. IndexStands'
      <4>1. PICK c \in [DOMAIN index.tags -> DOMAIN gitLog] :
              StandsAt(index.tags, c) /\ index = Rebuilt(ListOf(index.tags, c))
        BY DEF TagsInv, IndexStands
      <4>2. PICK names : names = index.tags
        OBVIOUS
      <4>3. PICK list : list = ListOf(names, c)
        OBVIOUS
      <4>4. /\ index'.tags = names /\ c \in [DOMAIN index'.tags -> DOMAIN gitLog']
            /\ StandsAt(names, c)' /\ index' = Rebuilt(list) /\ list = ListOf(names, c)'
        BY <3>1, <3>5, <4>1, <4>2, <4>3
      <4>5. IndexStands' <=> \E e \in [DOMAIN index'.tags -> DOMAIN gitLog'] :
                                StandsAt(index.tags, e)' /\ index' = Rebuilt(ListOf(index.tags, e)')
        BY DEF IndexStands, Rebuilt, Walk, Walked, Introduced
      <4> QED BY <4>4, <4>5 DEF StandsAt
    <3>7. ListStands'
      BY <3>1, <3>2, <3>5 DEF TagsInv, ListStands
    <3>8. NamesSettled'
      BY <3>1, <3>2, <3>3 DEF TagsInv, NamesSettled
    <3> QED BY <3>4, <3>6, <3>7, <3>8 DEF TagsInv
  <2> QED BY <2>1, <2>2
<1> QED BY <1>1, TagsStart, PTL DEF TagsSpec

\* Under that condition, once the index is synced, a page under a tag is the one
\* of the tag's tree, at the address that ResolveAtTag gives it, and the switcher
\* marks the tags as their trees say, for any number of tags and commits.
THEOREM TaggedPagesAreFound ==
  ASSUME NoReuse
  PROVE  TagsSpec => []TaggedPagesFound
<1>1. TagsInv => TaggedPagesFound
  <2> SUFFICES ASSUME TagsInv, ~armed, syncing = Idle PROVE TaggedPagesFound
    BY DEF TaggedPagesFound
  <2>1. TagsTypeOK /\ SameNames
    BY DEF TagsInv, NamesSettled, Idle
  <2>2. PICK c \in [DOMAIN index.tags -> DOMAIN gitLog] :
          StandsAt(index.tags, c) /\ index = Rebuilt(ListOf(index.tags, c))
    BY DEF TagsInv, IndexStands
  <2>3. PICK names : names = index.tags
    OBVIOUS
  <2>4. Tagged = {names[i] : i \in DOMAIN names}
    BY <2>1, <2>3 DEF SameNames
  <2> DEFINE list == ListTagsNewestFirst
  <2>5. /\ list = ListOf(names, c)
        /\ \A i \in DOMAIN names : refs[names[i]] # 0 /\ TreeOf(names[i]) = gitLog[c[i]].tree
    BY <2>1, <2>2, <2>3, <2>4, StandingIsListed
  <2>6. /\ list \in TagLists /\ Distinct(list) /\ index = Rebuilt(list)
        /\ Len(names) \in Nat /\ DOMAIN names = 1 .. Len(names) /\ Len(list) = Len(names)
        /\ \A i \in 1 .. Len(names) : list[i] = [name |-> names[i], tree |-> gitLog[c[i]].tree]
    BY <2>1, <2>2, <2>3, <2>5, StandingList
  <2>7. DOMAIN list = 1 .. Len(list)
    BY <2>6, TagListEntries
  <2>8. \A i \in 1 .. Len(list) : refs[list[i].name] # 0 /\ TreeOf(list[i].name) = list[i].tree
    <3> TAKE i \in 1 .. Len(list)
    <3>1. i \in DOMAIN names /\ list[i] = [name |-> names[i], tree |-> gitLog[c[i]].tree]
      BY <2>6
    <3>2. list[i].name = names[i] /\ list[i].tree = gitLog[c[i]].tree
      BY <3>1
    <3> QED BY <2>5, <3>1, <3>2
  <2> HIDE DEF list
  <2>9. ASSUME \A f \in Files : Unbroken(list, f),
               NEW i \in DOMAIN list, NEW sub \in DOMAIN NoteAt \cup Files \cup {"x/"}
        PROVE  TaggedPage(list[i].name, sub) = PageOf(list[i].tree, sub)
    <3>1. i \in 1 .. Len(list)
      BY <2>7
    <3>2. refs[list[i].name] # 0 /\ TreeOf(list[i].name) = list[i].tree
      BY <2>8, <3>1
    <3> QED BY <2>6, <2>9, <3>1, <3>2, PageFound
  <2>10. ASSUME NEW mode \in Modes, NEW f \in Files, Unbroken(list, f)
         PROVE  BuildVersionEntries(mode, f) =
                  [n \in DOMAIN Places(EntryPlaces(list, mode)) |->
                     [name |-> list[Places(EntryPlaces(list, mode))[n]].name, to |-> f,
                      marker |-> Mark(list, Places(EntryPlaces(list, mode))[n], f)]]
    BY <2>6, <2>10, EntriesMarked
  <2> QED BY <2>9, <2>10 DEF TaggedPagesFound, list, EntryPlaces, Modes
<1> QED BY <1>1, TagsInvariant, PTL
=============================================================================
