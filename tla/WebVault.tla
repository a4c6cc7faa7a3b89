------------------------------ MODULE WebVault ------------------------------
(***************************************************************************)
(* One vault behind the web gateway (internal/web): page p, which links to *)
(* page q, served to browsers while the vault changes on disk.             *)
(*                                                                         *)
(* What a page shows comes from its bytes, read for every request, and     *)
(* from the PageDeps, built from web.yaml, webignore, the names of the     *)
(* vault's files and the git tags.  The file watcher's goroutine builds    *)
(* new PageDeps after an event, a SIGHUP does so on its own; timers sync   *)
(* the tag index and the search index in place.  Pages are cached under    *)
(* an epoch that is bumped when PageDeps are replaced; browsers keep them  *)
(* under an ETag made of the epoch and the hash of the bytes.              *)
(*                                                                         *)
(* Left out: what a page embeds of other files, versions in the URL, the   *)
(* themes, and that a browser keeps a page rendered before a login.        *)
(***************************************************************************)
EXTENDS Integers, SequencesExt, FiniteSetsExt

CONSTANTS
  Guests, Members,  \* browsers; a member's holds a token
  Contents,         \* what p may hold
  None,             \* nothing: no file, no copy, no process
  Risks,            \* the known defects that are let loose
  MaxEdits,         \* bound: changes of the vault on disk, and SIGHUPs
  MaxRequests       \* bound: requests served at once

ASSUME RisksAssumption == Risks \subseteq {"request", "ignore", "reload", "slow"}

VARIABLES
  disk,      \* what the vault is: [p, q, yaml, hidden, tags, granted]
  events,    \* file system events the watcher has not dispatched
  builder,   \* who builds PageDeps, and what it has read
  deps,      \* the PageDeps installed; deps.tags is its tag index
  grant,     \* the access file in memory: members have a role
  epoch, cache,
  tagTimer, sync,      \* debounced tag events; the SyncTags under way
  writeTimer, writer,  \* debounced write event of p; the onVaultWrite under way
  search, walk,        \* the search index of deps; the walk that builds it
  request, browser,    \* by browser: its request; the copy it keeps
  edits

source == <<disk, events, edits>>
pages == <<deps, epoch, cache>>
timers == <<tagTimer, sync, writeTimer, writer>>
index == <<search, walk>>
clients == <<request, browser>>
vars == <<source, builder, pages, grant, timers, index, clients>>

Browsers == Guests \cup Members
Builders == {"watcher", "reload"}
Settings == {"head", "latest", "broken"}  \* versions.default of web.yaml

Parts == <<"yaml", "hidden", "q", "tags">>  \* in the order buildVaultDeps reads them

Init ==
  /\ \E y \in {"head", "latest"} :
       disk = [p |-> CHOOSE c \in Contents : TRUE, q |-> FALSE, yaml |-> y, hidden |-> FALSE,
               tags |-> << >>, granted |-> TRUE]
  /\ events = << >> /\ edits = 0
  /\ builder = [w \in Builders |-> None]
  /\ deps = [k \in Range(Parts) |-> disk[k]]
  /\ grant = TRUE
  /\ epoch = 0 /\ cache = [c \in Contents |-> None]
  /\ tagTimer = FALSE /\ sync = None /\ writeTimer = FALSE /\ writer = None
  /\ search = None /\ walk = None
  /\ request = [b \in Browsers |-> None] /\ browser = [b \in Browsers |-> None]

\* Nothing that concerns pages is on its way from the disk to the server.
AtRest ==
  /\ events = << >> /\ \A w \in Builders : builder[w] = None
  /\ ~tagTimer /\ sync = None

\* The PageDeps a request holds: those installed, until they are replaced.
Held(b) == IF request[b].old = None THEN deps ELSE request[b].old

Names(tags) == [i \in DOMAIN tags |-> tags[i].name]
-----------------------------------------------------------------------------
(***************************************************************************)
(* The vault on disk: its files (the sync server and editors), its tags.   *)
(* The guards keep the hazards out that README.md lists; each is lifted by *)
(* a member of Risks.                                                      *)
(***************************************************************************)
TagsPending == tagTimer \/ sync # None \/ "tags" \in Range(events)

IgnorePending ==
  \/ "webignore" \in Range(events)
  \/ builder["watcher"] # None /\ builder["watcher"].kind = "webignore"

\* The requests under way may be answered as the vault was when they began.
Edit(kind) ==
  /\ edits < MaxEdits /\ edits' = edits + 1
  /\ "reload" \in Risks \/ kind = "write" \/ builder["reload"] = None
  /\ events' = Append(events, kind)
  /\ request' = [b \in Browsers |-> IF request[b] = None THEN None
                                    ELSE [request[b] EXCEPT !.quiet = FALSE]]
  /\ UNCHANGED <<builder, pages, grant, timers, index, browser>>

\* In place: only the search index is told.
WriteInPlace ==
  /\ disk.p # None
  /\ \E c \in Contents \ {disk.p} : disk' = [disk EXCEPT !.p = c]
  /\ Edit("write")

\* A file renamed over p, or p removed.
Replace ==
  /\ \E c \in (Contents \cup {None}) \ {disk.p} : disk' = [disk EXCEPT !.p = c]
  /\ Edit("content")

Link == disk' = [disk EXCEPT !.q = ~@] /\ Edit("content")

EditYaml ==
  /\ \E y \in Settings \ {disk.yaml} : disk' = [disk EXCEPT !.yaml = y]
  /\ Edit("web_yaml")

EditIgnore ==
  /\ "ignore" \in Risks \/ ~TagsPending
  /\ disk' = [disk EXCEPT !.hidden = ~@] /\ Edit("webignore")

\* Newest first; a name is not used again.
Tag ==
  /\ "ignore" \in Risks \/ ~IgnorePending
  /\ disk' = [disk EXCEPT !.tags = <<[name |-> edits, p |-> disk.p]>> \o @]
  /\ Edit("tags")

Untag ==
  /\ "ignore" \in Risks \/ ~IgnorePending
  /\ \E i \in DOMAIN disk.tags : disk' = [disk EXCEPT !.tags = RemoveAt(@, i)]
  /\ Edit("tags")

EditAccess == disk' = [disk EXCEPT !.granted = ~@] /\ Edit("access")
-----------------------------------------------------------------------------
(***************************************************************************)
(* The watcher's goroutine, and ReloadConfig on another                    *)
(***************************************************************************)
StartBuild(w, kind) ==
  builder' = [builder EXCEPT ![w] = [kind |-> kind, read |-> << >>]]

\* Faulty: a tag event during a sync arms no timer.
ArmUnlessSyncing == tagTimer' = (tagTimer \/ sync = None)

\* scheduleTagSync
Arm == tagTimer' = TRUE

\* Watcher.dispatch and onVaultControlPlane, which returns when it is done.
Dispatch ==
  /\ events # << >> /\ builder["watcher"] = None
  /\ events' = Tail(events)
  /\ \/ /\ Head(events) = "write" /\ writeTimer' = TRUE
        /\ UNCHANGED <<tagTimer, grant, builder>>
     \/ /\ Head(events) = "tags" /\ Arm
        /\ UNCHANGED <<writeTimer, grant, builder>>
     \/ /\ Head(events) = "access" /\ grant' = disk.granted
        /\ UNCHANGED <<writeTimer, tagTimer, builder>>
     \/ /\ Head(events) \in {"content", "web_yaml", "webignore"}
        /\ StartBuild("watcher", Head(events))
        /\ UNCHANGED <<writeTimer, tagTimer, grant>>
  /\ UNCHANGED <<disk, edits, pages, sync, writer, index, clients>>

\* SIGHUP.
ReloadConfig ==
  /\ builder["reload"] = None
  /\ "reload" \in Risks \/ AtRest
  /\ edits < MaxEdits /\ edits' = edits + 1
  /\ StartBuild("reload", "config")
  /\ UNCHANGED <<disk, events, pages, grant, timers, index, clients>>

Part(w) == Parts[Len(builder[w].read) + 1]
Built(w) == builder[w] # None /\ Len(builder[w].read) = Len(Parts)

\* buildVaultDeps, one source after the other; without a web.yaml it can read
\* it fails and the old PageDeps stay.
Build(w) ==
  /\ builder[w] # None /\ ~Built(w)
  /\ builder' = [builder EXCEPT ![w] =
       IF Part(w) = "yaml" /\ disk.yaml = "broken" THEN None
       ELSE [builder[w] EXCEPT !.read = Append(builder[w].read, disk[Part(w)])]]
  /\ UNCHANGED <<source, pages, grant, timers, index, clients>>

Early(b) == request[b] # None /\ request[b].at # "keyed"

\* An epoch in which nothing is cached yet.
Bump == epoch' = epoch + 1 /\ cache' = [c \in Contents |-> None]

\* Faulty: a file that comes or goes does not bump the epoch either.
KeepsEpochOfNames(kind) == kind \in {"webignore", "content"}

KeepsEpoch(kind) == kind = "webignore"

\* The swap.  The index and the search of the old PageDeps go with them: what
\* still runs on them has no effect on the new ones.
Install(w) ==
  /\ Built(w)
  /\ "request" \in Risks \/ \A b \in Browsers : ~Early(b)
  /\ deps' = [k \in Range(Parts) |->
       builder[w].read[CHOOSE i \in DOMAIN Parts : Parts[i] = k]]
  /\ IF KeepsEpoch(builder[w].kind) THEN UNCHANGED <<epoch, cache>> ELSE Bump
  /\ builder' = [builder EXCEPT ![w] = None]
  /\ search' = None /\ walk' = None
  /\ sync' = IF sync = None THEN None ELSE [sync EXCEPT !.live = FALSE]
  /\ writer' = IF writer = None THEN None ELSE [writer EXCEPT !.live = FALSE]
  /\ request' = [b \in Browsers |-> IF request[b] = None THEN None
                                    ELSE [request[b] EXCEPT !.old = Held(b)]]
  /\ UNCHANGED <<source, grant, tagTimer, writeTimer, browser>>
-----------------------------------------------------------------------------
(***************************************************************************)
(* The timers' goroutines                                                  *)
(***************************************************************************)
\* 200 ms without a tag event.
TagFire ==
  /\ tagTimer /\ ("slow" \in Risks \/ sync = None)
  /\ tagTimer' = FALSE
  /\ sync' = [at |-> "fired", live |-> TRUE, tags |-> << >>]
  /\ UNCHANGED <<source, builder, pages, grant, writeTimer, writer, index, clients>>

\* SyncTags: nothing to do if the index has the names that are on disk; else
\* rebuild reads the tags.
TagRead ==
  /\ sync # None /\ sync.at = "fired"
  /\ \/ /\ sync.live => ToSet(Names(disk.tags)) = ToSet(Names(deps.tags))
        /\ sync' = None
     \/ /\ sync.live => ToSet(Names(disk.tags)) # ToSet(Names(deps.tags))
        /\ sync' = [sync EXCEPT !.at = "read", !.tags = disk.tags]
  /\ UNCHANGED <<source, builder, pages, grant, tagTimer, writeTimer, writer, index, clients>>

TagSet ==
  /\ sync # None /\ sync.at = "read"
  /\ deps' = IF sync.live THEN [deps EXCEPT !.tags = sync.tags] ELSE deps
  /\ sync' = [sync EXCEPT !.at = "set", !.tags = << >>]
  /\ UNCHANGED <<source, builder, epoch, cache, grant, tagTimer, writeTimer, writer, index, clients>>

TagBump ==
  /\ sync # None /\ sync.at = "set"
  /\ Bump /\ sync' = None
  /\ UNCHANGED <<source, builder, deps, grant, tagTimer, writeTimer, writer, index, clients>>

\* 300 ms without a write of p.
WriteFire ==
  /\ writeTimer /\ ("slow" \in Risks \/ writer = None)
  /\ writeTimer' = FALSE
  /\ writer' = [at |-> "fired", live |-> TRUE, data |-> None]
  /\ UNCHANGED <<source, builder, pages, grant, tagTimer, sync, index, clients>>

\* The walk that builds the index holds the lock of VaultSearch.
Unlocked == walk = None

\* IsBuilt takes the lock; then the file is read.
WriteRead ==
  /\ writer # None /\ writer.at = "fired"
  /\ writer.live => Unlocked
  /\ writer' = IF writer.live /\ search = None THEN None
               ELSE [writer EXCEPT !.at = "read", !.data = disk.p]
  /\ UNCHANGED <<source, builder, pages, grant, tagTimer, sync, writeTimer, index, clients>>

\* UpdateFile, or RemoveFile of what is gone or hidden.
WriteUpdate ==
  /\ writer # None /\ writer.at = "read"
  /\ search' = IF ~writer.live THEN search
               ELSE [search EXCEPT !.p = IF deps.hidden THEN None ELSE writer.data]
  /\ writer' = None
  /\ UNCHANGED <<source, builder, pages, grant, tagTimer, sync, writeTimer, walk, clients>>
-----------------------------------------------------------------------------
(***************************************************************************)
(* A search: the first one walks the vault with the lock of VaultSearch.   *)
(***************************************************************************)
SearchWalk ==
  /\ search = None /\ walk = None
  /\ walk' = [p |-> IF deps.hidden THEN None ELSE disk.p]
  /\ UNCHANGED <<source, builder, pages, grant, timers, search, clients>>

SearchBuilt ==
  /\ walk # None
  /\ search' = [p |-> walk.p, q |-> disk.q] /\ walk' = None
  /\ UNCHANGED <<source, builder, pages, grant, timers, clients>>
-----------------------------------------------------------------------------
(***************************************************************************)
(* A request for p without a version in its URL                            *)
(***************************************************************************)
Rendered(body, d, reader) ==
  [p |-> body, q |-> d.q, yaml |-> d.yaml, tags |-> Names(d.tags), reader |-> reader]

LoggedIn(b) == b \in Members /\ grant

Step(b, next) ==
  /\ request' = [request EXCEPT ![b] = next]
  /\ UNCHANGED <<source, builder, deps, epoch, grant, timers, index>>

\* quiet: the vault is served as it is on disk, and stays so.
Start(b) ==
  /\ request[b] = None
  /\ Cardinality({c \in Browsers : request[c] # None}) < MaxRequests
  /\ "request" \in Risks \/ \A w \in Builders : ~Built(w)
  /\ Step(b, [at |-> "started", old |-> None, quiet |-> AtRest /\ disk.yaml # "broken",
              body |-> None, epoch |-> 0, key |-> 0, reader |-> "guest"])
  /\ UNCHANGED <<cache, browser>>

\* resolveSource: the newest tag the index knows, if that is the default, or the
\* working tree.
AtTag(d) == d.yaml = "latest" /\ d.tags # << >>

\* What the URL leads to: nothing that webignore hides or that is not there;
\* at a tag both the index and the repository must have it.
Body(d) ==
  IF d.hidden THEN None
  ELSE IF ~AtTag(d) THEN disk.p
  ELSE IF d.tags[1] \in ToSet(disk.tags) THEN d.tags[1].p ELSE None

Read(b) ==
  /\ request[b] # None /\ request[b].at = "started"
  /\ LET body == Body(Held(b))
     IN \/ /\ body = None
           /\ Step(b, None) /\ browser' = [browser EXCEPT ![b] = None]
        \/ /\ body # None
           /\ Step(b, [request[b] EXCEPT !.at = "read", !.body = body])
           /\ UNCHANGED browser
  /\ UNCHANGED cache

\* The ETag: 304 if it is that of the browser's copy.
Revalidate(b) ==
  /\ request[b] # None /\ request[b].at = "read"
  /\ LET matches == /\ browser[b] # None
                    /\ browser[b].epoch = epoch /\ browser[b].body = request[b].body
     IN \/ matches /\ Step(b, None)
        \/ ~matches /\ Step(b, [request[b] EXCEPT !.at = "tagged", !.epoch = epoch])
  /\ UNCHANGED <<cache, browser>>

Answer(b, page) ==
  /\ Step(b, None)
  /\ browser' = [browser EXCEPT ![b] =
       [epoch |-> request[b].epoch, body |-> request[b].body, page |-> page]]

\* The cache, for guests.  The key takes the epoch anew.
Lookup(b) ==
  /\ request[b] # None /\ request[b].at = "tagged"
  /\ LET hit == ~LoggedIn(b) /\ cache[request[b].body] # None
     IN \/ hit /\ Answer(b, cache[request[b].body])
        \/ /\ ~hit
           /\ Step(b, [request[b] EXCEPT !.at = "keyed", !.key = epoch,
                                         !.reader = IF LoggedIn(b) THEN b ELSE "guest"])
           /\ UNCHANGED browser
  /\ UNCHANGED cache

\* Faulty: whatever is rendered is put into the cache.
StorableAnyway(b) == request[b].key = epoch

\* useCache; and a key of an older epoch is one that nobody looks up again.
Storable(b) == request[b].reader = "guest" /\ request[b].key = epoch

\* The page.  (What the LRU drops is rendered again, as for a member.)
Render(b) ==
  LET page == Rendered(request[b].body, Held(b), request[b].reader)
  IN /\ request[b] # None /\ request[b].at = "keyed"
     /\ Answer(b, page)
     /\ cache' = IF Storable(b)
                 THEN [cache EXCEPT ![request[b].body] = page] ELSE cache
-----------------------------------------------------------------------------
Change ==
  \/ WriteInPlace \/ Replace \/ Link \/ EditYaml \/ EditIgnore
  \/ Tag \/ Untag \/ EditAccess
Rebuild == \E w \in Builders : Build(w) \/ Install(w)
Timers ==
  \/ TagFire \/ TagRead \/ TagSet \/ TagBump
  \/ WriteFire \/ WriteRead \/ WriteUpdate
Serve(b) == Read(b) \/ Revalidate(b) \/ Lookup(b) \/ Render(b)

Next ==
  \/ Change \/ ReloadConfig
  \/ Dispatch \/ Rebuild \/ Timers
  \/ SearchWalk \/ SearchBuilt
  \/ \E b \in Browsers : Start(b) \/ Serve(b)

Spec == Init /\ [][Next]_vars

\* Goroutines run and timers fire.
Fairness ==
  /\ WF_vars(Dispatch) /\ WF_vars(Rebuild) /\ WF_vars(SearchBuilt)
  /\ WF_vars(TagFire) /\ WF_vars(TagRead \/ TagSet \/ TagBump)
  /\ WF_vars(WriteFire) /\ WF_vars(WriteRead \/ WriteUpdate)
  /\ \A b \in Browsers : WF_vars(Serve(b))

FairSpec == Spec /\ Fairness
-----------------------------------------------------------------------------
(***************************************************************************)
(* Properties                                                              *)
(***************************************************************************)
\* A request that begins when the server is done with every change, and during
\* which the vault does not change, is answered with the vault as it is: from
\* the cache, by a 304 or by a new rendering (onVaultControlPlane, runTagSync,
\* PageHandler; watch.go:9-11, etag.go:18-20).
AnswersCurrent ==
  [][\A b \in Browsers :
       request[b] # None /\ request'[b] = None /\ request[b].quiet =>
         IF Body(disk) = None THEN browser'[b] = None
         ELSE /\ browser'[b] # None
              /\ browser'[b].page = Rendered(Body(disk), disk, browser'[b].page.reader)]_vars

\* What was rendered for a member, with a name and roles, is never shown to
\* another browser, although access changes between the two looks a request
\* takes at it (handler_page.go:377-383).
OwnPage ==
  \A b \in Browsers : browser[b] # None => browser[b].page.reader \in {b, "guest"}

\* When the vault does not change any more, the server has no work left in the
\* end, and its PageDeps, tag index included, are those of the vault, unless
\* web.yaml cannot be read (buildVaultDeps, scheduleTagSync, runTagSync).  The
\* search index, once there is one, is that of the vault whenever events, timers
\* and walks are done, whichever overtook which (EnsureBuilt, onVaultWrite).
Searched ==
  disk.yaml = "broken" \/ writeTimer \/ writer # None \/ search = None
    \/ search = [p |-> IF disk.hidden THEN None ELSE disk.p, q |-> disk.q]
Settles ==
  /\ <>[](AtRest /\ (disk.yaml # "broken" => \A k \in Range(Parts) : deps[k] = disk[k]))
  /\ [](AtRest => Searched)
-----------------------------------------------------------------------------
(***************************************************************************)
(* Why: WebInv is the inductive invariant                                  *)
(***************************************************************************)
Kinds == {"write", "content", "web_yaml", "webignore", "tags", "access"}
Bumping == {"content", "web_yaml"}

TagRecords == [name : Nat, p : Contents \cup {None}]
Vaults == [p : Contents \cup {None}, q : BOOLEAN, yaml : Settings, hidden : BOOLEAN,
           tags : Seq(TagRecords), granted : BOOLEAN]
PageDeps == [yaml : Settings, hidden : BOOLEAN, q : BOOLEAN, tags : Seq(TagRecords)]
Builds == [kind : Kinds \cup {"config"}, read : Seq(Seq(TagRecords) \cup Settings \cup BOOLEAN)]
Syncs == [at : {"fired", "read", "set"}, live : BOOLEAN, tags : Seq(TagRecords)]
RenderedPages == [p : Contents, q : BOOLEAN, yaml : Settings, tags : Seq(Nat),
                  reader : Browsers \cup {"guest"}]
Copies == [epoch : Nat, body : Contents, page : RenderedPages]
Requests == [at : {"started", "read", "tagged", "keyed"}, old : PageDeps \cup {None},
             quiet : BOOLEAN, body : Contents \cup {None}, epoch : Nat, key : Nat,
             reader : Browsers \cup {"guest"}]

ASSUME ContentsAssumption == Contents # {}
ASSUME NoneAssumption ==
  None \notin Contents \cup PageDeps \cup Builds \cup Syncs \cup Copies \cup Requests

PartType(k) ==
  IF k = "yaml" THEN Settings ELSE IF k = "tags" THEN Seq(TagRecords) ELSE BOOLEAN

SourceTypeOK ==
  /\ disk \in Vaults /\ events \in Seq(Kinds) /\ edits \in Nat
  /\ builder \in [Builders -> Builds \cup {None}]
  /\ \A w \in Builders : builder[w] # None =>
       /\ Len(builder[w].read) <= Len(Parts)
       /\ \A i \in DOMAIN builder[w].read : builder[w].read[i] \in PartType(Parts[i])
  /\ deps \in PageDeps /\ tagTimer \in BOOLEAN /\ sync \in Syncs \cup {None}
ServedTypeOK ==
  /\ epoch \in Nat /\ cache \in [Contents -> RenderedPages \cup {None}]
  /\ request \in [Browsers -> Requests \cup {None}]
  /\ browser \in [Browsers -> Copies \cup {None}]

\* Why PageDeps may differ from the vault, and the cache from PageDeps: the next
\* build that installs anything bumps the epoch.
SettingsDue ==
  \/ disk.yaml = "broken" \/ Range(events) \cap Bumping # {}
  \/ builder["watcher"] # None /\ builder["watcher"].kind \in Bumping
RebuildDue ==
  disk.yaml = "broken" \/ "webignore" \in Range(events) \/ builder["watcher"] # None
    \/ Range(events) \cap Bumping # {}
TagsDue ==
  \/ "tags" \in Range(events) \/ tagTimer
  \/ sync # None /\ sync.live
       /\ (sync.at = "fired" \/ (sync.at = "read" /\ sync.tags = disk.tags))
BumpDue == SettingsDue \/ (sync # None /\ sync.at = "set")

DepsFollow ==
  /\ SettingsDue \/ (deps.yaml = disk.yaml /\ deps.q = disk.q)
  /\ RebuildDue \/ deps.hidden = disk.hidden
  /\ TagsDue \/ deps.tags = disk.tags
  /\ sync # None /\ sync.live /\ sync.at = "read" =>
       sync.tags = disk.tags \/ "tags" \in Range(events) \/ tagTimer

\* What a builder has read is what the vault has, or the watcher is yet to see
\* the event of that change; a SIGHUP has the vault for itself.
EventOf == [yaml |-> "web_yaml", hidden |-> "webignore", q |-> "content", tags |-> "tags"]
BuildsFollow ==
  /\ \A w \in Builders : builder[w] # None =>
       \A i \in DOMAIN builder[w].read :
         builder[w].read[i] = disk[Parts[i]] \/ EventOf[Parts[i]] \in Range(events)
  /\ builder["reload"] # None =>
       Range(events) \subseteq {"write"} /\ builder["watcher"] = None /\ ~tagTimer /\ sync = None
  /\ IgnorePending => ~TagsPending

\* A list of tags is known by the names on it.
TagLists ==
  {disk.tags, deps.tags} \cup (IF sync = None THEN {} ELSE {sync.tags})
    \cup {builder[w].read[4] : w \in {v \in Builders : Built(v)}}
TagsNamed ==
  \A s, t \in TagLists :
    /\ \A i, j \in DOMAIN s : i < j => s[i].name > s[j].name
    /\ \A i \in DOMAIN s, j \in DOMAIN t :
         s[i].name < edits /\ (s[i].name = t[j].name => s[i] = t[j])

\* What is kept under the epoch of now is what PageDeps make of it.
CacheFollows ==
  \A c \in Contents : cache[c] # None =>
    /\ cache[c].reader = "guest"
    /\ BumpDue \/ cache[c] = Rendered(c, deps, "guest")
BrowserFollows(b) ==
  LET copy == browser[b] IN
  copy # None =>
    /\ copy.epoch <= epoch
    /\ BumpDue \/ copy.epoch < epoch \/ copy.page = Rendered(copy.body, deps, copy.page.reader)

SameLook(d, e) == d.q = e.q /\ d.yaml = e.yaml /\ d.tags = e.tags

\* A request that renders with replaced PageDeps sees what those of now have, or
\* its key is one of the past; what a quiet one has seen is the vault.
RequestFollows(b) ==
  LET r == request[b] IN
  r # None =>
    /\ r.at # "keyed" => r.old = None
    /\ r.at \in {"tagged", "keyed"} => r.epoch <= epoch
    /\ r.at = "keyed" => /\ r.epoch <= r.key /\ r.key <= epoch /\ r.reader \in {b, "guest"}
                         /\ BumpDue \/ r.key < epoch \/ SameLook(Held(b), deps)
    /\ r.at # "started" => r.body \in Contents
    /\ r.quiet =>
         /\ events = << >> /\ builder["watcher"] = None /\ ~tagTimer /\ sync = None
         /\ disk.yaml # "broken"
         /\ Held(b).hidden = disk.hidden /\ SameLook(Held(b), disk)
         /\ r.at # "started" => r.body = Body(disk)

SourceInv == SourceTypeOK /\ DepsFollow /\ BuildsFollow /\ TagsNamed
ServedInv ==
  /\ ServedTypeOK /\ CacheFollows /\ OwnPage
  /\ \A b \in Browsers : BrowserFollows(b) /\ RequestFollows(b)
WebInv == SourceInv /\ ServedInv
=============================================================================
