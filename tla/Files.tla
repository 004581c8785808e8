------------------------------- MODULE Files -------------------------------
(***************************************************************************)
(* The file API: internal/api/handlers/files.go over                       *)
(* internal/filesystem/manager.go, for the data directory of one server,   *)
(* together with the create and delete handlers of servers.go, which make  *)
(* and remove that directory.  Every request runs in a goroutine of its    *)
(* own and nothing is locked: one action is one call to the operating      *)
(* system.                                                                 *)
(*                                                                         *)
(* A path is the sequence of the names below the data directory, <<>>      *)
(* being the directory itself.  A file is an inode: it keeps its contents, *)
(* a sequence of blocks, while a request holds it open, whatever happens   *)
(* to its name.  UUIDs are of one length, so that the prefix test of       *)
(* SafePath separates the directories of different servers.                *)
(***************************************************************************)
EXTENDS Naturals, SequencesExt

CONSTANTS
  Paths,     \* the paths considered, with their parents
  Outside,   \* a path SafePath refuses
  Contents,  \* what requests write: sequences of blocks
  Inodes, Reqs,
  Absent, Dir, Null,
  Ops,       \* what the panel may ask for
  Batch,     \* bound: the longest delete or rename batch
  Faults     \* TRUE when calls to the operating system may fail

OpNames == {"create", "drop", "list", "read", "download", "write", "delete",
            "rename", "folder"}

ASSUME FilesAssumption ==
  /\ <<>> \in Paths
  /\ \A p \in Paths : p \in Seq(ToSet(p)) /\ (p # <<>> => Front(p) \in Paths)
  /\ \A c \in Contents : c \in Seq(ToSet(c))
  /\ Outside \notin Paths /\ Null \notin Inodes
  /\ {Absent, Dir} \cap Inodes = {} /\ Absent # Dir
  /\ Ops \subseteq OpNames /\ Batch \in Nat

VARIABLES
  registered,  \* is the server in the registry?
  tree,        \* path -> Absent, Dir or an inode
  data,        \* inode -> its blocks
  req          \* request goroutine -> its pc and local variables

vars == <<registered, tree, data, req>>

\* items: the paths of the request, pairs of them for a rename; `done' of them
\* are dealt with.  made: how much of a chain of directories is there.
\* seen, found: directory entries read, and those of them returned.
\* hit: a call to the operating system has failed.  pc "ok" is a 2xx answer.
Idle == [pc |-> "idle", op |-> "none", items |-> <<>>, done |-> 0, made |-> 0,
         ino |-> Null, buf |-> <<>>, seen |-> {}, found |-> {}, hit |-> FALSE]

Pcs == {"idle", "mkdir", "make", "open_write", "write", "remove", "removing",
        "rename", "open", "copy", "list", "info", "add", "entry", "ok",
        "failed"}

Init ==
  /\ registered = FALSE
  /\ tree = [p \in Paths |-> Absent]
  /\ data = [i \in Inodes |-> <<>>]
  /\ req = [r \in Reqs |-> Idle]

-----------------------------------------------------------------------------
(* The file system                                                         *)

\* The paths at and below a path, and those strictly above it.
Below == [p \in Paths |-> {q \in Paths : IsPrefix(p, q)}]

Above == [p \in Paths |-> {q \in Paths : IsStrictPrefix(q, p)}]

Present(p) == tree[p] # Absent

\* The directory a path is in; the one that holds the data directories of all
\* servers is always there.
InDir(p) == p = <<>> \/ tree[Front(p)] = Dir

Children == [p \in Paths |-> {q \in Below[p] : Len(q) = Len(p) + 1}]

\* Some name on the way to p is a file.
Blocked(p) == \E q \in Above[p] : tree[q] \in Inodes

FreeInode(i) ==
  /\ \A p \in Paths : tree[p] # i
  /\ \A r \in Reqs : req[r].ino # i

\* write(2) at offset 0 of a file that may hold blocks already.
Overlay(old, new) ==
  [i \in 1 .. (IF Len(old) > Len(new) THEN Len(old) ELSE Len(new)) |->
     IF i \in DOMAIN new THEN new[i] ELSE old[i]]

\* os.Rename refuses a target that is a directory, and the kernel a directory
\* over a file or into itself.
CanRename(from, to) ==
  /\ Present(from) /\ tree[to] # Dir /\ InDir(to)
  /\ ~IsStrictPrefix(from, to)
  /\ tree[from] = Dir => tree[to] = Absent

\* Mutant: the old name stays.
Moved_Copy(t, from, to) ==
  [q \in Paths |->
     IF IsPrefix(to, q)
       THEN LET o == from \o SubSeq(q, Len(to) + 1, Len(q)) IN
            IF o \in Paths THEN t[o] ELSE Absent
       ELSE t[q]]

\* Where q's present content comes from when `from' is moved to `to'.
Moved(t, from, to) ==
  [q \in Paths |->
     IF IsPrefix(to, q)
       THEN LET o == from \o SubSeq(q, Len(to) + 1, Len(q)) IN
            IF o \in Paths THEN t[o] ELSE Absent
       ELSE IF IsPrefix(from, q) THEN Absent ELSE t[q]]

\* Bound: wherever `from' may hold something, there is room for it at `to'.
Fits(from, to) ==
  \/ Outside \in {from, to} \/ to = <<>> \/ IsPrefix(from, to)
  \/ \A q \in Below[from] : to \o SubSeq(q, Len(from) + 1, Len(q)) \in Paths

-----------------------------------------------------------------------------
(* Requests                                                                *)

At(r, pc) == req[r].pc = pc

Goto(r, pc) == req' = [req EXCEPT ![r].pc = pc]

Item(r) == req[r].items[req[r].done + 1]

\* One item of the batch is done: on to the next one or to the answer.
ItemDone(r, next) ==
  req' = [req EXCEPT ![r].done = @ + 1,
                     ![r].seen = {},
                     ![r].pc = IF req[r].done + 1 = Len(req[r].items)
                                 THEN "ok" ELSE next]

RenameItems ==
  {i \in (Paths \cup {Outside}) \X (Paths \cup {Outside}) : Fits(i[1], i[2])}

Items(op) ==
  CASE op = "delete" -> UNION {[1..n -> Paths \cup {Outside}] : n \in 1..Batch}
    [] op = "rename" -> UNION {[1..n -> RenameItems] : n \in 1..Batch}
    [] op \in {"create", "drop"} -> {<< <<>> >>}
    [] OTHER -> {<<p>> : p \in Paths \cup {Outside}}

FirstPc(op) ==
  CASE op \in {"create", "write", "folder"} -> "mkdir"
    [] op \in {"drop", "delete"} -> "remove"
    [] op = "rename" -> "rename"
    [] op \in {"read", "download"} -> "open"
    [] op = "list" -> "list"

\* getFileManager and getServer look the server up, CreateServer its absence;
\* nobody looks again.
Request(r, op) ==
  /\ At(r, "idle") /\ op \in Ops
  /\ registered = (op # "create")
  /\ \E items \in Items(op), c \in IF op = "write" THEN Contents ELSE {<<>>} :
       req' = [req EXCEPT ![r] = [Idle EXCEPT !.pc = FirstPc(op), !.op = op,
                                              !.items = items, !.buf = c]]
  /\ UNCHANGED <<registered, tree, data>>

\* SafePath comes before any call, for each item in turn.
Escapes(r) ==
  \/ req[r].pc \in {"mkdir", "remove", "open", "list"} /\ Item(r) = Outside
  \/ req[r].pc = "rename" /\ Outside \in {Item(r)[1], Item(r)[2]}

\* Where an error takes a request.  DeleteServer does not look; DownloadFile
\* returns, and the status is 200, for it has not set another.
OnError(r) ==
  CASE req[r].op = "drop" -> "entry"
    [] req[r].op = "download" -> "ok"
    [] OTHER -> "failed"

Refused(r) ==
  /\ Escapes(r)
  /\ Goto(r, OnError(r))
  /\ UNCHANGED <<registered, tree, data>>

\* Mutant: a read that stops half-way is answered with what there is.
CallFails_ReadIgnored(r) ==
  /\ Faults /\ ~Escapes(r)
  /\ req[r].pc \in {"make", "open_write", "removing", "rename", "open", "copy", "list"}
  /\ req' = [req EXCEPT ![r].hit = TRUE,
       ![r].pc = IF At(r, "copy") THEN "ok" ELSE OnError(r)]
  /\ UNCHANGED <<registered, tree, data>>

\* A call to the operating system fails.
CallFails(r) ==
  /\ Faults /\ ~Escapes(r)
  /\ req[r].pc \in {"make", "open_write", "removing", "rename", "open", "copy", "list"}
  /\ req' = [req EXCEPT ![r].hit = TRUE, ![r].pc = OnError(r)]
  /\ UNCHANGED <<registered, tree, data>>

\* The Info of an entry fails: ListDir leaves the entry out, and nobody is told.
InfoFails(r) ==
  /\ Faults /\ At(r, "info")
  /\ \E q \in req[r].seen :
       req' = [req EXCEPT ![r].seen = @ \ {q}, ![r].hit = TRUE]
  /\ UNCHANGED <<registered, tree, data>>

Reply(r) ==
  /\ req[r].pc \in {"ok", "failed"}
  /\ req' = [req EXCEPT ![r] = Idle]
  /\ UNCHANGED <<registered, tree, data>>

-----------------------------------------------------------------------------
(* MkdirAll, for the folder asked for, the parents of a file to be written *)
(* and the data directory of a new server.  It looks for the deepest       *)
(* directory that is there and makes the others from there on.             *)

ChainLen(r) == IF req[r].op = "write" THEN Len(Item(r)) ELSE Len(Item(r)) + 1

Chain(r, k) == SubSeq(Item(r), 1, k - 1)

\* Mutant: the parents of a file to be written are taken to be there.
Mkdir_NotForFiles(r) ==
  /\ At(r, "mkdir") /\ Item(r) # Outside
  /\ LET there == {k \in 1 .. ChainLen(r) : tree[Chain(r, k)] = Dir} IN
     IF \E k \in 1 .. ChainLen(r) : tree[Chain(r, k)] \in Inodes
       THEN Goto(r, "failed")
       ELSE req' = [req EXCEPT ![r].pc = "make",
              ![r].made = IF req[r].op = "write" THEN ChainLen(r)
                                                 ELSE Max(there \cup {0})]
  /\ UNCHANGED <<registered, tree, data>>

Mkdir(r) ==
  /\ At(r, "mkdir") /\ Item(r) # Outside
  /\ LET there == {k \in 1 .. ChainLen(r) : tree[Chain(r, k)] = Dir} IN
     IF \E k \in 1 .. ChainLen(r) : tree[Chain(r, k)] \in Inodes
       THEN Goto(r, "failed")
       ELSE req' = [req EXCEPT ![r].pc = "make", ![r].made = Max(there \cup {0})]
  /\ UNCHANGED <<registered, tree, data>>

\* Mutant: a directory another request has just made is an error.
Make_Exists(r) ==
  /\ At(r, "make") /\ req[r].made < ChainLen(r)
  /\ LET p == Chain(r, req[r].made + 1) IN
     \/ /\ tree[p] = Absent /\ InDir(p)
        /\ tree' = [tree EXCEPT ![p] = Dir]
        /\ req' = [req EXCEPT ![r].made = @ + 1]
     \/ /\ tree[p] # Absent \/ ~InDir(p)
        /\ Goto(r, "failed")
        /\ UNCHANGED tree
  /\ UNCHANGED <<registered, data>>

Make(r) ==
  /\ At(r, "make") /\ req[r].made < ChainLen(r)
  /\ LET p == Chain(r, req[r].made + 1) IN
     \/ /\ tree[p] = Dir
        /\ req' = [req EXCEPT ![r].made = @ + 1]
        /\ UNCHANGED tree
     \/ /\ tree[p] = Absent /\ InDir(p)
        /\ tree' = [tree EXCEPT ![p] = Dir]
        /\ req' = [req EXCEPT ![r].made = @ + 1]
     \/ /\ tree[p] \in Inodes \/ ~InDir(p)
        /\ Goto(r, "failed")
        /\ UNCHANGED tree
  /\ UNCHANGED <<registered, data>>

Made(r) ==
  /\ At(r, "make") /\ req[r].made = ChainLen(r)
  /\ Goto(r, CASE req[r].op = "write" -> "open_write"
               [] req[r].op = "folder" -> "ok"
               [] req[r].op = "create" -> "add")
  /\ UNCHANGED <<registered, tree, data>>

-----------------------------------------------------------------------------
(* os.WriteFile: open and truncate, then write                             *)

OpenWrite(r) ==
  /\ At(r, "open_write")
  /\ LET p == Item(r) IN
     IF InDir(p) /\ tree[p] # Dir
       THEN \E i \in Inodes :
              /\ IF tree[p] \in Inodes THEN i = tree[p] ELSE FreeInode(i)
              /\ tree' = [tree EXCEPT ![p] = i]
              /\ data' = [data EXCEPT ![i] = <<>>]
              /\ req' = [req EXCEPT ![r].pc = "write", ![r].ino = i]
       ELSE Goto(r, "failed") /\ UNCHANGED <<tree, data>>
  /\ UNCHANGED registered

\* Mutant: a short write is answered as if it were whole.
Write_Short(r) ==
  /\ At(r, "write")
  /\ \E n \in 0 .. Len(req[r].buf) :
       /\ n < Len(req[r].buf) => Faults
       /\ data' = [data EXCEPT ![req[r].ino] =
                     Overlay(@, SubSeq(req[r].buf, 1, n))]
       /\ Goto(r, "ok")
  /\ UNCHANGED <<registered, tree>>

\* The disk may be full after some of the blocks.
Write(r) ==
  /\ At(r, "write")
  /\ \E n \in 0 .. Len(req[r].buf) :
       /\ n < Len(req[r].buf) => Faults
       /\ data' = [data EXCEPT ![req[r].ino] =
                     Overlay(@, SubSeq(req[r].buf, 1, n))]
       /\ IF n = Len(req[r].buf)
            THEN Goto(r, "ok")
            ELSE req' = [req EXCEPT ![r].pc = "failed", ![r].hit = TRUE]
  /\ UNCHANGED <<registered, tree>>

-----------------------------------------------------------------------------
(* os.RemoveAll, for a batch of paths or for the data directory            *)

RemoveAll(r) ==
  /\ At(r, "remove") /\ Item(r) # Outside
  /\ IF Blocked(Item(r))
       THEN Goto(r, "failed")
       ELSE req' = [req EXCEPT ![r].pc = "removing",
                               ![r].seen = {q \in Below[Item(r)] : Present(q)}]
  /\ UNCHANGED <<registered, tree, data>>

\* Depth first, one name after another.
RemoveName(r) ==
  /\ At(r, "removing")
  /\ \E q \in Below[Item(r)] :
       /\ Present(q) /\ \A d \in Children[q] : ~Present(d)
       /\ tree' = [tree EXCEPT ![q] = Absent]
  /\ UNCHANGED <<registered, data, req>>

\* Mutant: nobody looks whether the directory itself could be removed.
Removed_Early(r) ==
  /\ At(r, "removing")
  /\ IF req[r].op = "drop" THEN Goto(r, "entry") ELSE ItemDone(r, "remove")
  /\ UNCHANGED <<registered, tree, data>>

Removed(r) ==
  /\ At(r, "removing") /\ ~Present(Item(r))
  /\ IF req[r].op = "drop" THEN Goto(r, "entry") ELSE ItemDone(r, "remove")
  /\ UNCHANGED <<registered, tree, data>>

\* A name that came after its directory was read stays, and with it the
\* directory.
RemoveFails(r) ==
  /\ At(r, "removing")
  /\ \E q \in Below[Item(r)] : Present(q) /\ q \notin req[r].seen
  /\ Goto(r, OnError(r))
  /\ UNCHANGED <<registered, tree, data>>

-----------------------------------------------------------------------------
(* Rename, read, download and list                                         *)

Rename(r) ==
  /\ At(r, "rename") /\ Outside \notin {Item(r)[1], Item(r)[2]}
  /\ LET from == Item(r)[1]  to == Item(r)[2] IN
     \/ /\ CanRename(from, to) /\ from # to
        /\ tree' = Moved(tree, from, to)
        /\ ItemDone(r, "rename")
     \/ /\ CanRename(from, to) /\ from = to
        /\ ItemDone(r, "rename")
        /\ UNCHANGED tree
     \/ /\ ~CanRename(from, to)
        /\ Goto(r, "failed")
        /\ UNCHANGED tree
  /\ UNCHANGED <<registered, data>>

Open(r) ==
  /\ At(r, "open") /\ Item(r) # Outside
  /\ IF tree[Item(r)] \in Inodes
       THEN req' = [req EXCEPT ![r].pc = "copy", ![r].ino = tree[Item(r)]]
       ELSE Goto(r, OnError(r))
  /\ UNCHANGED <<registered, tree, data>>

\* Mutant: the last block is not read.
Copy_Short(r) ==
  /\ At(r, "copy")
  /\ LET blocks == data[req[r].ino]  n == Len(req[r].buf) IN
     IF n + 1 < Len(blocks)
       THEN req' = [req EXCEPT ![r].buf = Append(@, blocks[n + 1])]
       ELSE Goto(r, "ok")
  /\ UNCHANGED <<registered, tree, data>>

\* One block after another until the end of the file; a download sends each.
Copy(r) ==
  /\ At(r, "copy")
  /\ LET blocks == data[req[r].ino]  n == Len(req[r].buf) IN
     IF n < Len(blocks)
       THEN req' = [req EXCEPT ![r].buf = Append(@, blocks[n + 1])]
       ELSE Goto(r, "ok")
  /\ UNCHANGED <<registered, tree, data>>

List(r) ==
  /\ At(r, "list") /\ Item(r) # Outside
  /\ IF tree[Item(r)] = Dir
       THEN req' = [req EXCEPT ![r].pc = "info",
              ![r].seen = {q \in Children[Item(r)] : Present(q)}]
       ELSE Goto(r, "failed")
  /\ UNCHANGED <<registered, tree, data>>

\* DirEntry.Info of each entry; those that are gone by now are left out.
Info(r) ==
  /\ At(r, "info")
  /\ IF req[r].seen = {}
       THEN Goto(r, "ok")
       ELSE \E q \in req[r].seen :
              req' = [req EXCEPT ![r].seen = @ \ {q},
                                 ![r].found = IF Present(q) THEN @ \cup {q} ELSE @]
  /\ UNCHANGED <<registered, tree, data>>

-----------------------------------------------------------------------------
(* The ends of CreateServer and DeleteServer                               *)

AddServer(r) ==
  /\ At(r, "add")
  /\ registered' = TRUE
  /\ Goto(r, IF registered THEN "failed" ELSE "ok")
  /\ UNCHANGED <<tree, data>>

RemoveServer(r) ==
  /\ At(r, "entry")
  /\ registered' = FALSE
  /\ Goto(r, "ok")
  /\ UNCHANGED <<tree, data>>

Handler(r) ==
  \/ Refused(r) \/ Mkdir(r) \/ Make(r) \/ Made(r) \/ OpenWrite(r) \/ Write(r)
  \/ RemoveAll(r) \/ RemoveName(r) \/ Removed(r) \/ RemoveFails(r)
  \/ Rename(r) \/ Open(r) \/ Copy(r) \/ List(r) \/ Info(r) \/ InfoFails(r)
  \/ AddServer(r) \/ RemoveServer(r) \/ Reply(r)

Next ==
  \E r \in Reqs :
    CallFails(r) \/ Handler(r) \/ \E op \in Ops : Request(r, op)

Spec == Init /\ [][Next]_vars

=============================================================================
