------------------------------ MODULE TagIndex ------------------------------
(***************************************************************************)
(* The versions of a vault at the web gateway: the index of the files that *)
(* every tag holds (VaultIndex), which resolves "/@<tag>/<page>" and marks *)
(* the entries of the version switcher.                                    *)
(*                                                                         *)
(* The server commits, tags and untags; a watcher sees the tags change and *)
(* a debounced timer makes SyncTags compare their names with the index.    *)
(* The index keeps three facts of a file, its first and its last tag and   *)
(* the tags it changed at, and answers everything from them; the bytes of  *)
(* a page come from the repository as it is.                               *)
(*                                                                         *)
(* A note and a directory of the same name, x.md and x/index.md, stand for *)
(* the files.  Requests for the live files are in WebVault.                *)
(***************************************************************************)
EXTENDS Integers, SequencesExt, FiniteSetsExt

CONSTANTS
  NoFile,         \* what a tree has at a path without a file
  Bytes,          \* the contents of files
  TagNames,       \* numbers, for the order of the names
  Reviewed,       \* the names that begin with "reviewed-"
  NamesReused,    \* a tag is deleted and made anew before the index is synced
  MaxTrees,       \* bound: commits
  MaxTagCalls     \* bound: tags made and deleted

ASSUME TagNamesAssumption ==
  TagNames \subseteq Nat \ {0} /\ Reviewed \subseteq TagNames /\ NamesReused \in BOOLEAN

Files == {"x.md", "x/index.md"}

VARIABLES
  gitLog,     \* the commits: tree and second
  refs,       \* the commit of every tag, 0: no such tag
  tagCalls,
  armed,      \* the timer of the debounce runs
  syncing,    \* SyncTags: how far it is, and the tags a rebuild has listed
  index       \* VaultIndex: tags, newest first, and a record for every file

tagVars == <<gitLog, refs, tagCalls, armed, syncing, index>>

TreeOf(t) == gitLog[refs[t]].tree
-----------------------------------------------------------------------------
(***************************************************************************)
(* The rebuild                                                             *)
(***************************************************************************)
\* The members of a finite set in an order, which is given by its pairs.
Arranged(S, before) ==
  CHOOSE s \in [1 .. Cardinality(S) -> S] :
    \A i, j \in DOMAIN s : i < j => <<s[i], s[j]>> \in before

\* By the second of the commit, then by name, newest first.
Newer(t, u) ==
  LET at(v) == gitLog[refs[v]].second
  IN at(t) > at(u) \/ (at(t) = at(u) /\ t > u)
Tagged == {t \in TagNames : refs[t] # 0}
NamesNewestFirst == Arranged(Tagged, {p \in Tagged \X Tagged : Newer(p[1], p[2])})
ListTagsNewestFirst ==
  [i \in DOMAIN NamesNewestFirst |->
     [name |-> NamesNewestFirst[i], tree |-> TreeOf(NamesNewestFirst[i])]]

NoHistory == [FirstTag |-> 0, LastTag |-> 0, ChangedAt |-> {}]

\* Faulty: the last tag is noted when the file is at the newest tag, too.
LastTagAnyway(list, f, fh, i) ==
  LET here == list[i].tree[f]
  IN IF here = NoFile THEN fh
     ELSE [FirstTag |-> list[i].name,
           LastTag |-> IF fh.LastTag = 0 THEN list[i].name ELSE fh.LastTag,
           ChangedAt |-> fh.ChangedAt]

\* One tag of the walk from the newest to the oldest.
Walked(list, f, fh, i) ==
  LET here == list[i].tree[f]
      newer == IF i = 1 THEN here ELSE list[i - 1].tree[f]
  IN IF here = NoFile THEN fh
     ELSE [FirstTag |-> list[i].name,
           LastTag |-> IF newer = NoFile /\ fh.LastTag = 0 THEN list[i].name ELSE fh.LastTag,
           ChangedAt |-> IF newer \notin {NoFile, here} THEN fh.ChangedAt \cup {list[i - 1].name}
                                                        ELSE fh.ChangedAt]

\* A file at the oldest tag was introduced there.
Introduced(list, f, fh) ==
  IF list # << >> /\ Last(list).tree[f] # NoFile
  THEN [fh EXCEPT !.ChangedAt = @ \cup {Last(list).name}] ELSE fh

\* The walk of a file.
Walk(list, f) ==
  LET walk[i \in 0 .. Len(list)] == IF i = 0 THEN NoHistory ELSE Walked(list, f, walk[i - 1], i)
  IN walk
Rebuilt(list) ==
  [tags |-> [i \in DOMAIN list |-> list[i].name],
   files |-> [f \in Files |-> Introduced(list, f, Walk(list, f)[Len(list)])]]

Idle == [at |-> "idle", list |-> << >>]

TagsInit ==
  /\ gitLog = <<[tree |-> [f \in Files |-> NoFile], second |-> 1]>>
  /\ refs = [t \in TagNames |-> 0]
  /\ tagCalls = 0
  /\ armed = FALSE /\ syncing = Idle
  /\ index = Rebuilt(<< >>)
-----------------------------------------------------------------------------
(***************************************************************************)
(* The server's commits and tags; the watcher sees the tags change         *)
(***************************************************************************)
CommitFile(f, b) ==
  /\ Len(gitLog) < MaxTrees
  /\ b # Last(gitLog).tree[f]
  /\ \E sooner \in {0, 1} :
       gitLog' = Append(gitLog, [tree |-> [Last(gitLog).tree EXCEPT ![f] = b],
                                 second |-> Last(gitLog).second + sooner])
  /\ UNCHANGED <<refs, tagCalls, armed, syncing, index>>

TagsWritten ==
  /\ tagCalls < MaxTagCalls /\ tagCalls' = tagCalls + 1
  /\ armed' = TRUE
  /\ UNCHANGED <<gitLog, syncing, index>>

MakeTag(t, c) ==
  /\ refs[t] = 0
  /\ NamesReused \/ t \notin Range(index.tags) \cup {x.name : x \in Range(syncing.list)}
  /\ refs' = [refs EXCEPT ![t] = c]
  /\ TagsWritten

DeleteTag(t) ==
  /\ refs[t] # 0
  /\ refs' = [refs EXCEPT ![t] = 0]
  /\ TagsWritten
-----------------------------------------------------------------------------
(***************************************************************************)
(* runTagSync: the names are compared, the tags listed once more, and the  *)
(* new index is installed when every tree has been walked                  *)
(***************************************************************************)
SameNames == Tagged = {index.tags[i] : i \in DOMAIN index.tags}

SyncCompares ==
  /\ armed /\ syncing = Idle
  /\ armed' = FALSE
  /\ syncing' = IF SameNames THEN Idle ELSE [Idle EXCEPT !.at = "changed"]
  /\ UNCHANGED <<gitLog, refs, tagCalls, index>>

SyncLists ==
  /\ syncing.at = "changed"
  /\ syncing' = [at |-> "listed", list |-> ListTagsNewestFirst]
  /\ UNCHANGED <<gitLog, refs, tagCalls, armed, index>>

SyncInstalls ==
  /\ syncing.at = "listed"
  /\ index' = Rebuilt(syncing.list)
  /\ syncing' = Idle
  /\ UNCHANGED <<gitLog, refs, tagCalls, armed>>

TagsNext ==
  \/ \E f \in Files, b \in {NoFile} \cup Bytes : CommitFile(f, b)
  \/ \E t \in TagNames, c \in DOMAIN gitLog : MakeTag(t, c)
  \/ \E t \in TagNames : DeleteTag(t)
  \/ SyncCompares \/ SyncLists \/ SyncInstalls

TagsSpec == TagsInit /\ [][TagsNext]_tagVars
-----------------------------------------------------------------------------
(***************************************************************************)
(* What a request gets                                                     *)
(***************************************************************************)
IndexOfTag(t) ==
  LET at == {i \in DOMAIN index.tags : index.tags[i] = t}
  IN IF at = {} THEN -1 ELSE Min(at)

\* Between the first and the last tag of the file: smaller is newer.
HasFile(t, f) ==
  LET fh == index.files[f]
      at == IndexOfTag(t)
  IN /\ fh.FirstTag # 0 /\ at > 0
     /\ IndexOfTag(fh.FirstTag) >= at
     /\ fh.LastTag # 0 => at >= IndexOfTag(fh.LastTag)

\* The note of an address, the address of a note, the files of a directory.
NoteAt == [sub \in {"x", "x/index"} |-> IF sub = "x" THEN "x.md" ELSE "x/index.md"]
AddressOf == [f \in Files |-> IF f = "x.md" THEN "x" ELSE "x/index"]
Under == [sub \in {"x", "x/index"} |-> IF sub = "x" THEN {"x/index.md"} ELSE {}]

Serve(f) == [action |-> "serve", file |-> f]
RedirectTo(sub) == [action |-> "redirect", sub |-> sub]
NotFound == [action |-> "notFound"]

ResolveAtTag(t, sub) ==
  IF sub = "x/"
  THEN IF HasFile(t, "x/index.md") THEN Serve("x/index.md") ELSE NotFound
  ELSE IF sub \in DOMAIN AddressOf THEN RedirectTo(AddressOf[sub])
  ELSE IF HasFile(t, NoteAt[sub]) THEN Serve(NoteAt[sub])
  ELSE IF \E f \in Under[sub] : HasFile(t, f) THEN RedirectTo("x/")
  ELSE NotFound

\* The page handler: the tag is one of the index, its bytes are the repository's.
TaggedPage(t, sub) ==
  LET d == ResolveAtTag(t, sub)
  IN IF IndexOfTag(t) = -1 THEN NotFound
     ELSE IF d.action # "serve" THEN d
     ELSE IF refs[t] = 0 \/ TreeOf(t)[d.file] = NoFile THEN NotFound
     ELSE d @@ [bytes |-> TreeOf(t)[d.file]]

\* The switcher of the page of f.
VersionMarker(t, f) ==
  LET fh == index.files[f]
  IN IF fh.FirstTag = 0 THEN "default"
     ELSE IF HasFile(t, f) THEN IF t \in fh.ChangedAt THEN "changed_here" ELSE "default"
     ELSE IF IndexOfTag(t) > IndexOfTag(fh.FirstTag) THEN "not_yet" ELSE "deleted"

\* Some places of a sequence, in their order.
Places(S) == Arranged(S, {p \in S \X S : p[1] < p[2]})

FilterTagsByMode(mode) ==
  LET listed(t) == CASE mode = "only_reviewed" -> t \in Reviewed
                     [] mode = "only_versioned" -> t \notin Reviewed
                     [] OTHER -> TRUE
      at == Places({i \in DOMAIN index.tags : listed(index.tags[i])})
  IN [n \in DOMAIN at |-> index.tags[at[n]]]

BuildVersionEntries(mode, f) ==
  LET tags == FilterTagsByMode(mode)
  IN [i \in DOMAIN tags |-> [name |-> tags[i], to |-> f, marker |-> VersionMarker(tags[i], f)]]
-----------------------------------------------------------------------------
(***************************************************************************)
(* Properties                                                              *)
(***************************************************************************)
\* A file that went and came back is beyond what the index can say of it: it is
\* not found at the tags after the gap (index.go:33-35 and 103-109).
Unbroken(list, f) ==
  \A i, j, k \in DOMAIN list :
    i < j /\ j < k /\ list[i].tree[f] # NoFile /\ list[k].tree[f] # NoFile
      => list[j].tree[f] # NoFile

\* What a tree has at an address.
PageOf(tree, sub) ==
  LET found(f) == Serve(f) @@ [bytes |-> tree[f]]
  IN CASE sub \in DOMAIN AddressOf -> RedirectTo(AddressOf[sub])
       [] sub = "x/" /\ tree["x/index.md"] # NoFile -> found("x/index.md")
       [] sub \in DOMAIN NoteAt /\ tree[NoteAt[sub]] # NoFile -> found(NoteAt[sub])
       [] sub = "x" /\ tree["x.md"] = NoFile /\ tree["x/index.md"] # NoFile -> RedirectTo("x/")
       [] OTHER -> NotFound

\* What the switcher says of a tag, told from the trees alone.
Mark(list, i, f) ==
  LET has(j) == list[j].tree[f] # NoFile
  IN IF \A j \in DOMAIN list : ~has(j) THEN "default"
     ELSE IF ~has(i) THEN IF \E j \in i + 1 .. Len(list) : has(j) THEN "deleted" ELSE "not_yet"
     ELSE IF i = Len(list) \/ (has(i + 1) /\ list[i + 1].tree[f] # list[i].tree[f])
     THEN "changed_here" ELSE "default"

\* Once the timer has fired and the sync is done, a page under a tag is what the
\* tag's tree has at that address, and the switcher of every mode marks each of
\* its tags as the trees of that tag and the one before it say (SyncTags, rebuild,
\* ResolveAtTag, versionMarker).
TaggedPagesFound ==
  ~armed /\ syncing = Idle =>
    LET list == ListTagsNewestFirst
        whole == {f \in Files : Unbroken(list, f)}
        pages(i) == \A sub \in DOMAIN NoteAt \cup Files \cup {"x/"} :
                      TaggedPage(list[i].name, sub) = PageOf(list[i].tree, sub)
        entries(mode) == Places({i \in DOMAIN list : mode = "only_tags"
                                   \/ (list[i].name \in Reviewed <=> mode = "only_reviewed")})
    IN /\ whole = Files => \A i \in DOMAIN list : pages(i)
       /\ \A mode \in {"only_reviewed", "only_versioned", "only_tags"}, f \in whole :
            BuildVersionEntries(mode, f) =
              [n \in DOMAIN entries(mode) |->
                 [name |-> list[entries(mode)[n]].name, to |-> f,
                  marker |-> Mark(list, entries(mode)[n], f)]]
-----------------------------------------------------------------------------
(***************************************************************************)
(* Why: TagsInv is inductive when no name is used again                    *)
(***************************************************************************)
FileTreesAt == [Files -> Bytes \cup {NoFile}]
TreeCommits == [tree : FileTreesAt, second : Nat]
Histories == [FirstTag : Nat, LastTag : Nat, ChangedAt : SUBSET Nat]
TagsTypeOK ==
  /\ gitLog \in Seq(TreeCommits) /\ gitLog # << >>
  /\ refs \in [TagNames -> 0 .. Len(gitLog)] /\ IsFiniteSet(Tagged)
  /\ armed \in BOOLEAN
  /\ syncing.at \in {"idle", "changed", "listed"}
  /\ syncing.at # "listed" => syncing.list = << >>
  /\ syncing = [at |-> syncing.at, list |-> syncing.list]

\* The list of the tags when names[i] was at the commit c[i].
ListOf(names, c) == [i \in DOMAIN names |-> [name |-> names[i], tree |-> gitLog[c[i]].tree]]

\* Each of the names is there no more, or is where it was; newest first.
StandsAt(names, c) ==
  /\ names \in Seq(TagNames) /\ c \in [DOMAIN names -> DOMAIN gitLog]
  /\ \A i \in DOMAIN names : refs[names[i]] \in {0, c[i]}
  /\ \A i, j \in DOMAIN names :
       i < j => /\ names[i] # names[j]
                /\ \/ gitLog[c[i]].second > gitLog[c[j]].second
                   \/ gitLog[c[i]].second = gitLog[c[j]].second /\ names[i] > names[j]

IndexStands ==
  \E c \in [DOMAIN index.tags -> DOMAIN gitLog] :
    StandsAt(index.tags, c) /\ index = Rebuilt(ListOf(index.tags, c))

ListedNames == [i \in DOMAIN syncing.list |-> syncing.list[i].name]
ListStands ==
  \E c \in [DOMAIN ListedNames -> DOMAIN gitLog] :
    StandsAt(ListedNames, c) /\ syncing.list = ListOf(ListedNames, c)

\* Nothing has changed since the names were compared, or listed.
NamesSettled ==
  ~armed => CASE syncing.at = "idle" -> SameNames
              [] syncing.at = "listed" -> Tagged = {ListedNames[i] : i \in DOMAIN ListedNames}
              [] OTHER -> TRUE

TagsInv == TagsTypeOK /\ IndexStands /\ ListStands /\ NamesSettled
=============================================================================
