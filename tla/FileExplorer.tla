---------------------------- MODULE FileExplorer ----------------------------
(***************************************************************************)
(* The shared storage as the host's file explorer panel changes it         *)
(* (src/ui/panels/FileExplorerPanel.cpp) while guests upload to it and     *)
(* join (src/network/Server.cpp), and what each of them is shown of it.    *)
(*                                                                         *)
(* The panel is one object for two threads: the UI thread executes the     *)
(* user's operations, the io thread stores uploads, sends the tree to      *)
(* newcomers and, being the host's client too, replaces rootNode_ by the   *)
(* host's copy of every broadcast.  Nothing is locked, so the threads      *)
(* interleave between any two accesses to the file system or to rootNode_, *)
(* and accesses that race may leave a tree that is like none.  A session   *)
(* delivers in order (SessionChannel).                                     *)
(***************************************************************************)
EXTENDS Naturals, Sequences, SequencesExt

CONSTANTS
  Guests,      \* the clients that are not the host
  FileName,    \* a file the storage has from before
  FolderName,  \* an empty folder it has from before
  MaxJobs      \* bound: operations of the user and uploads

ASSUME BoundsAssumption == MaxJobs \in Nat /\ FileName # FolderName

Names == {FileName, FolderName}

\* Paths relative to the storage, <<>> itself; bound: two levels, and one name below.
Paths == {<<n>> : n \in Names} \union {<<n, FileName>> : n \in Names}
Parent(p) == Front(p)

\* Bound: what is dropped and uploaded bears the file's name.
FilePaths == {p \in Paths : Last(p) = FileName}

\* What is at a path: a folder, or a file, which is known by its content.
Folder == 0
Contents == 1..(MaxJobs + 1)

\* The tree of a race, or of a scan that a change has overtaken, which is like none, and
\* that of a panel that has not got one.
Torn == [p \in {<<>>} |-> Folder]
NoTree == [p \in {} |-> Folder]

Host == "host"

\* The host's own client is not one of the guests.
ASSUME ClientsAssumption == Host \notin Guests

Threads == {"ui", "io"}
Other(t) == CHOOSE u \in Threads : u # t

VARIABLES
  disk,     \* the storage: a function from the paths there are
  tree,     \* rootNode_ of the panel in the host's process
  shown,    \* of each guest: rootNode_ of the panel in its process
  ready,    \* guests whose handshake is complete
  wire,     \* of each client: the trees on their way to it
  mode,     \* "browse", "deleting" (the popup is open), "moving" or "renaming"
  item,     \* itemToDeletePath_, itemToMovePath_ or itemToRenamePath_; <<>> if cleared
  job,      \* of each thread: what it has yet to do of its handler
  sending,  \* of each thread: the tree its handler has serialised
  began,    \* of each thread: the storage when the scan began that it does next, if it does
  jobs,     \* counted against MaxJobs
  made,     \* files there have been
  seen,     \* history: made, when the UI thread checked that its target is free
  found,    \* history: what the last refresh has found
  crossed   \* history: another tree than found has been sent, a race has spoilt the
            \* panel's own, or a deletion has failed halfway

panel == <<mode, item>>
views == <<tree, shown, ready, wire>>
vars == <<disk, views, panel, job, sending, began, jobs, made, seen, found, crossed>>

Exists(p) == p \in DOMAIN disk
IsFolder(p) == p = <<>> \/ (Exists(p) /\ disk[p] = Folder)
Below(p) == {q \in DOMAIN disk : IsPrefix(p, q)}

TreeShaped(f) ==
  \A p \in DOMAIN f : Len(p) > 1 => (Parent(p) \in DOMAIN f /\ f[Parent(p)] = Folder)

TypeOK ==
  /\ DOMAIN disk \subseteq Paths /\ TreeShaped(disk)
  /\ \A p \in DOMAIN disk : disk[p] \in {Folder} \union Contents
  /\ ready \subseteq Guests
  /\ DOMAIN shown = Guests /\ DOMAIN wire = Guests \union {Host}
  /\ mode \in {"browse", "deleting", "moving", "renaming"}
  /\ item \in Paths \union {<<>>}
  /\ DOMAIN job = Threads /\ DOMAIN sending = Threads /\ DOMAIN began = Threads
  /\ jobs \in 0..MaxJobs /\ made \in 0..(MaxJobs + 1) /\ seen \in 0..made
  /\ crossed \in BOOLEAN

Init ==
  /\ disk = [p \in {<<FileName>>, <<FolderName>>} |-> IF p = <<FileName>> THEN 1 ELSE Folder]
  /\ tree = disk
  /\ shown = [g \in Guests |-> NoTree] /\ ready = {}
  /\ wire = [c \in Guests \union {Host} |-> <<>>]
  /\ mode = "browse" /\ item = <<>>
  /\ job = [t \in Threads |-> <<>>] /\ sending = [t \in Threads |-> NoTree]
  /\ began = [t \in Threads |-> disk]
  /\ jobs = 0 /\ made = 1 /\ seen = 1
  /\ found = disk /\ crossed = FALSE
-----------------------------------------------------------------------------
(* What a handler has yet to do *)

Access(do, p, q) == [do |-> do, from |-> p, to |-> q, whom |-> {}]
Step(do, W) == [do |-> do, from |-> <<>>, to |-> <<>>, whom |-> W]

Idle(t) == job[t] = <<>>
NextStep(t) == IF Idle(t) THEN "nothing" ELSE Head(job[t]).do

\* A refresh nobody else is told of.
UpdateUnsent == <<Step("scan", {})>>

\* RefreshView() and BroadcastFileSystemUpdate(), which serialises rootNode_ and sends
\* it to everybody.
Update == <<Step("scan", {}), Step("read", {}), Step("send", Guests \union {Host})>>

\* The UI thread has nothing to do but drawing frames.
Clickable == Idle("ui") /\ jobs < MaxJobs

UiDoes(steps) ==
  /\ job' = [job EXCEPT !["ui"] = steps]
  /\ jobs' = jobs + 1
  /\ seen' = made
  /\ UNCHANGED <<disk, views, sending, began, made, found, crossed>>
-----------------------------------------------------------------------------
(* The host's panel *)

Refresh ==
  /\ Clickable /\ mode = "browse"
  /\ UiDoes(Update)
  /\ UNCHANGED panel

\* In the selected folder, or in the storage itself if that is not there any more.
HandleCreateFolder(p) ==
  /\ Clickable /\ mode = "browse" /\ IsFolder(Parent(p))
  /\ UiDoes(<<Access("mkdir", p, p)>> \o Update)
  /\ UNCHANGED panel

HandleCreateFile(p) ==
  /\ Clickable /\ mode = "browse" /\ IsFolder(Parent(p)) /\ ~ Exists(p)
  /\ UiDoes(<<Access("create", p, p)>> \o Update)
  /\ UNCHANGED panel

\* A file is made in a folder that is made first, if nothing is there.
MakeWithFolder(p) == <<Access("mkdirs", p, p), Access("write", p, p)>> \o Update

\* A file is copied to where it was dropped, whatever is there; a folder is copied with
\* what it holds, which is one file (bound).
HandleExternalFileDrop(p) ==
  /\ Clickable
  /\ \/ IsFolder(Parent(p)) /\ UiDoes(<<Access("write", p, p)>> \o Update)
     \/ Parent(p) # <<>> /\ UiDoes(MakeWithFolder(p))
  /\ UNCHANGED panel

\* Delete (which opens the popup), Move or Rename of what is selected.
Initiate(m, p) ==
  /\ Clickable /\ mode = "browse"
  /\ tree # Torn /\ p \in DOMAIN tree
  /\ mode' = m /\ item' = p
  /\ UNCHANGED <<disk, views, job, sending, began, jobs, made, seen, found, crossed>>

Cancel ==
  /\ Idle("ui") /\ mode # "browse"
  /\ mode' = "browse" /\ item' = <<>>
  /\ UNCHANGED <<disk, views, job, sending, began, jobs, made, seen, found, crossed>>

\* Yes, Delete; a refresh may have cleared what to delete.
HandleDeleteSelected ==
  /\ Clickable /\ mode = "deleting"
  /\ UiDoes(IF Exists(item) THEN <<Access("remove", item, item)>> \o Update ELSE Update)
  /\ mode' = "browse" /\ item' = <<>>

\* A move without a look at what is at the target.
MoveBlindly(d) ==
  LET q == Append(d, Last(item))
  IN  /\ IsFolder(d) /\ ~ IsPrefix(item, d) /\ Parent(item) # d
      /\ UiDoes(<<Access("rename", item, q)>> \o Update)

\* A folder is not moved into itself, nothing to where it is or to where something is.
MoveTo(d) ==
  LET q == Append(d, Last(item))
  IN  /\ IsFolder(d) /\ ~ IsPrefix(item, d) /\ Parent(item) # d /\ ~ Exists(q)
      /\ UiDoes(<<Access("rename", item, q)>> \o Update)

\* A confirmed move that is refused does what Cancel does.
HandleConfirmMove(d) ==
  /\ Clickable /\ mode = "moving"
  /\ \/ ~ Exists(item) /\ UiDoes(Update)
     \/ Exists(item) /\ Append(d, Last(item)) \in Paths /\ MoveTo(d)
  /\ mode' = "browse" /\ item' = <<>>

HandleConfirmRename(n) ==
  LET q == Append(Parent(item), n)
  IN  /\ Clickable /\ mode = "renaming"
      /\ q \in Paths
      /\ \/ ~ Exists(item) /\ UiDoes(Update)
         \/ Exists(item) /\ (~ Exists(q) \/ q = item)
            /\ UiDoes(<<Access("rename", item, q)>> \o Update)
      /\ mode' = "browse" /\ item' = <<>>
-----------------------------------------------------------------------------
(* The io thread's handlers *)

IoDoes(steps) ==
  /\ job' = [job EXCEPT !["io"] = steps]
  /\ UNCHANGED <<disk, tree, shown, wire, panel, sending, began, made, seen, found>>

\* A guest has uploaded a file to a folder its panel shows, or has shown.
ProcessFileUpload(p) ==
  /\ Idle("io") /\ jobs < MaxJobs /\ ready # {}
  /\ IoDoes(MakeWithFolder(p))
  /\ jobs' = jobs + 1
  /\ UNCHANGED <<ready, crossed>>

\* The end of the handshake: the guest is ready for broadcasts, and gets the tree.
ProcessHandshake(g) ==
  /\ Idle("io") /\ g \notin ready
  /\ ready' = ready \union {g}
  /\ IoDoes(<<Step("read", {}), Step("send", {g})>>)
  /\ UNCHANGED <<jobs, crossed>>

\* Which of them write rootNode_ next, and which use it.
Echoes(t) == t = "io" /\ Idle(t) /\ wire[Host] # <<>>
WritesTree(t) == NextStep(t) = "scan" \/ Echoes(t)
UsesTree(t) == NextStep(t) = "read" \/ WritesTree(t)

\* SetRootNode() by the host's client.  It ends a move or a rename and clears what the
\* popup is about.
SetRootNode ==
  /\ Echoes("io")
  /\ tree' \in {Head(wire[Host])} \union (IF UsesTree("ui") THEN {Torn} ELSE {})
  /\ wire' = [wire EXCEPT ![Host] = Tail(@)]
  /\ mode' = IF mode = "deleting" THEN mode ELSE "browse"
  /\ item' = <<>>
  /\ crossed' = (crossed \/ tree' = Torn)
  /\ UNCHANGED <<disk, shown, ready, job, sending, began, jobs, made, seen, found>>

\* ... and by a guest's.
GuestSetsRootNode(g) ==
  /\ wire[g] # <<>>
  /\ shown' = [shown EXCEPT ![g] = Head(wire[g])]
  /\ wire' = [wire EXCEPT ![g] = Tail(@)]
  /\ UNCHANGED <<disk, tree, ready, panel, job, sending, began, jobs, made, seen, found,
                 crossed>>
-----------------------------------------------------------------------------
(* Steps of either thread *)

Does(t, do) == NextStep(t) = do

\* The handler goes on, or it ends here because of an error.
GoesOn(t) == job' = [job EXCEPT ![t] = Tail(@)]
GivesUp(t) == job' = [job EXCEPT ![t] = <<>>]

\* A step of t on the storage: a scan of the other thread goes on while it happens.
Overtakes(t) ==
  began' = [u \in Threads |-> IF u # t /\ Does(u, "scan") THEN began[u] ELSE disk']

With(f, p, c) == [q \in DOMAIN f \union {p} |-> IF q = p THEN c ELSE f[q]]
Without(f, S) == [q \in DOMAIN f \ S |-> f[q]]

\* create_directory()
MakeFolder(t) ==
  LET p == Head(job[t]).to
  IN  /\ Does(t, "mkdir")
      /\ IF IsFolder(Parent(p)) /\ ~ Exists(p)
         THEN disk' = With(disk, p, Folder) /\ GoesOn(t)
         ELSE GivesUp(t) /\ UNCHANGED disk
      /\ Overtakes(t)
      /\ UNCHANGED <<views, panel, sending, jobs, made, seen, found, crossed>>

\* create_directories() of an upload's folder, or copy() of one, if nothing is there.
MakeFolders(t) ==
  LET d == Parent(Head(job[t]).to)
  IN  /\ Does(t, "mkdirs")
      /\ disk' = IF d = <<>> \/ Exists(d) THEN disk ELSE With(disk, d, Folder)
      /\ GoesOn(t)
      /\ Overtakes(t)
      /\ UNCHANGED <<views, panel, sending, jobs, made, seen, found, crossed>>

\* A file is created or replaced.
WriteFile(t) ==
  LET p == Head(job[t]).to
  IN  /\ Does(t, "write") \/ Does(t, "create")
      /\ IF IsFolder(Parent(p)) /\ ~ IsFolder(p)
         THEN disk' = With(disk, p, made + 1) /\ made' = made + 1 /\ GoesOn(t)
         ELSE GivesUp(t) /\ UNCHANGED <<disk, made>>
      /\ Overtakes(t)
      /\ UNCHANGED <<views, panel, sending, jobs, seen, found, crossed>>

\* remove_all(), which may fail halfway.
RemoveItem(t) ==
  LET B == Below(Head(job[t]).from)
  IN  /\ Does(t, "remove")
      /\ \/ disk' = Without(disk, B) /\ GoesOn(t) /\ UNCHANGED crossed
         \/ \E S \in SUBSET B :
              /\ S # B /\ TreeShaped(Without(disk, S))
              /\ disk' = Without(disk, S) /\ GivesUp(t)
              /\ crossed' = (crossed \/ S # {})
      /\ Overtakes(t)
      /\ UNCHANGED <<views, panel, sending, jobs, made, seen, found>>

\* Only the entry itself gets its new name.
RenamedAlone(p, q) == With(Without(disk, {p}), q, disk[p])

\* The disk after rename(p, q): all that is below p follows, a file at q is replaced.
Renamed(p, q) ==
  LET Suffix(r) == SubSeq(r, Len(p) + 1, Len(r))
      Moved == {q \o Suffix(r) : r \in Below(p)}
  IN  [r \in (DOMAIN disk \ (Below(p) \union {q})) \union Moved |->
         IF r \in Moved THEN disk[p \o SubSeq(r, Len(q) + 1, Len(r))] ELSE disk[r]]

\* rename() replaces a file by a file and an empty folder by a folder.
CanRename(p, q) ==
  /\ Exists(p) /\ IsFolder(Parent(q))
  /\ Exists(q) => (IsFolder(p) <=> IsFolder(q)) /\ (p = q \/ Below(q) = {q})

RenameItem(t) ==
  LET p == Head(job[t]).from
      q == Head(job[t]).to
  IN  /\ Does(t, "rename")
      /\ CanRename(p, q) => DOMAIN Renamed(p, q) \subseteq Paths  \* bound: the levels of Paths
      /\ IF CanRename(p, q)
         THEN disk' = Renamed(p, q) /\ GoesOn(t)
         ELSE GivesUp(t) /\ UNCHANGED disk
      /\ Overtakes(t)
      /\ UNCHANGED <<views, panel, sending, jobs, made, seen, found, crossed>>

\* ScanDirectoryRecursive() reads entry by entry: of what has changed since it began, it
\* has found all, nothing, or something.
Listings(t) == IF began[t] = disk THEN {disk} ELSE {disk, began[t], Torn}

\* RefreshView() clears what the popup is about.  A refresh with no other update under
\* way makes good what is spoilt.  Of two scans at once either spoils the other, or one
\* begins when the other ends.
Scan(t) ==
  /\ Does(t, "scan")
  /\ \E spoilt \in IF UsesTree(Other(t)) THEN BOOLEAN ELSE {FALSE} :
       /\ tree' \in IF spoilt THEN {Torn} ELSE Listings(t)
       /\ crossed' = \/ spoilt
                     \/ crossed /\ ~ (/\ Idle(Other(t)) /\ began[t] = disk
                                      /\ \A c \in DOMAIN wire : wire[c] = <<>>)
  /\ item' = IF mode = "deleting" THEN <<>> ELSE item
  /\ found' = tree'
  /\ began' = [u \in Threads |-> disk]
  /\ GoesOn(t)
  /\ UNCHANGED <<disk, shown, ready, wire, mode, sending, jobs, made, seen>>

Read(t) ==
  /\ Does(t, "read")
  /\ \E v \in {tree} \union (IF WritesTree(Other(t)) THEN {Torn} ELSE {}) :
       sending' = [sending EXCEPT ![t] = v]
  /\ GoesOn(t)
  /\ UNCHANGED <<disk, views, panel, began, jobs, made, seen, found, crossed>>

\* send() to the newcomer, or broadcast() to all who are ready, the host included.
SendTree(t) ==
  /\ Does(t, "send")
  /\ wire' = [c \in DOMAIN wire |->
                IF c \in Head(job[t]).whom \intersect (ready \union {Host})
                THEN Append(wire[c], sending[t]) ELSE wire[c]]
  /\ GoesOn(t)
  /\ sending' = [sending EXCEPT ![t] = NoTree]
  /\ crossed' = (crossed \/ sending[t] # found)
  /\ UNCHANGED <<disk, tree, shown, ready, panel, began, jobs, made, seen, found>>
-----------------------------------------------------------------------------
Click ==
  \/ Refresh \/ Cancel \/ HandleDeleteSelected
  \/ \E p \in Paths : HandleCreateFolder(p) \/ HandleCreateFile(p)
  \/ \E p \in FilePaths : HandleExternalFileDrop(p)
  \/ \E m \in {"deleting", "moving", "renaming"}, p \in Paths : Initiate(m, p)
  \/ \E d \in {<<>>} \union {<<n>> : n \in Names} : HandleConfirmMove(d)
  \/ \E n \in Names : HandleConfirmRename(n)

Thread(t) ==
  \/ MakeFolder(t) \/ MakeFolders(t) \/ WriteFile(t) \/ RemoveItem(t) \/ RenameItem(t)
  \/ Scan(t) \/ Read(t) \/ SendTree(t)

Next ==
  \/ Click
  \/ \E p \in FilePaths : ProcessFileUpload(p)
  \/ \E g \in Guests : ProcessHandshake(g) \/ GuestSetsRootNode(g)
  \/ SetRootNode
  \/ \E t \in Threads : Thread(t)

Spec == Init /\ [][Next]_vars
-----------------------------------------------------------------------------
(* Properties *)

Files(f) == {f[p] : p \in DOMAIN f} \ {Folder}

Quiet == (\A t \in Threads : Idle(t)) /\ (\A c \in DOMAIN wire : wire[c] = <<>>)

\* When nothing is under way, every panel shows the storage as it is, unless a tree has
\* been sent that was not the last refresh's, a race has spoilt the panel's own, or a
\* deletion has failed halfway, and no refresh has run alone since
\* (FileExplorerPanel.cpp:119, :146, Server.cpp:443, :612, Client.cpp:784).
ViewsAgree ==
  (Quiet /\ ~ crossed) => (tree = disk /\ \A g \in ready : shown[g] = disk)

\* No move, rename or new file destroys a file that was there when its target was found
\* free (FileExplorerPanel.cpp:727, :846, :915).
NothingReplaced ==
  [][ (NextStep("ui") \in {"rename", "create"} /\ job'["ui"] # job["ui"])
        => Files(disk) \intersect (1..seen) \subseteq Files(disk') ]_vars
=============================================================================
