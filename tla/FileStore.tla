----------------------------- MODULE FileStore -----------------------------
(***************************************************************************)
(* What the file API promises: `store' is the tree the answered requests   *)
(* leave behind when they are taken one after another, each at once, in    *)
(* the order of their answers.  Files must agree with it wherever no       *)
(* request is under way, and its answers must be the ones `store' gives.   *)
(*                                                                         *)
(* Requests whose paths overlap in time promise nothing of these paths:    *)
(* what they leave is Unknown until a later request settles it.            *)
(***************************************************************************)
EXTENDS Files

CONSTANT Unknown

\* What a path may hold can be told apart.
ASSUME StoreAssumption ==
  /\ {Absent, Dir, Unknown} \cap Seq(UNION {ToSet(c) : c \in Contents}) = {}
  /\ Unknown \notin {Absent, Dir}

VARIABLES
  store,  \* path -> Absent, Dir, Unknown, or the contents of a file
  clash   \* the requests under way that another one overlaps

storeVars == <<vars, store, clash>>

Targets(q) ==
  (IF q.op = "rename" THEN UNION {{i[1], i[2]} : i \in ToSet(q.items)}
                      ELSE ToSet(q.items)) \ {Outside}

\* What a request may change or look at ...
Region(q) == UNION {Below[t] : t \in Targets(q)}

\* ... and the directories it makes, or needs to be there.
Needs(q) == UNION {Above[t] : t \in Targets(q)}

Reads(q) == q.op \in {"list", "read", "download"}

Conflict(a, b) ==
  /\ a.pc # "idle" /\ b.pc # "idle" /\ ~(Reads(a) /\ Reads(b))
  /\ \/ Region(a) \cap (Region(b) \cup Needs(b)) # {}
     \/ Region(b) \cap Needs(a) # {}

-----------------------------------------------------------------------------
(* The requests on a tree of contents                                      *)

Makes(t, p) == [q \in Paths |-> IF IsPrefix(q, p) THEN Dir ELSE t[q]]

Writes(t, p, c) ==
  [q \in Paths |-> CASE q = p -> c
                     [] IsStrictPrefix(q, p) -> Dir
                     [] IsStrictPrefix(p, q) -> Absent
                     [] OTHER -> t[q]]

Deletes(t, p) == [q \in Paths |-> IF IsPrefix(p, q) THEN Absent ELSE t[q]]

Forgets(t, paths) == [q \in Paths |-> IF q \in paths THEN Unknown ELSE t[q]]

OneDone(t, q, item) ==
  CASE q.op \in {"folder", "create"} -> Makes(t, item)
    [] q.op = "write" -> Writes(t, item, q.buf)
    [] q.op = "delete" -> Deletes(t, item)
    [] q.op = "rename" -> IF item[1] = item[2] THEN t
                          ELSE Moved(t, item[1], item[2])
    [] OTHER -> t

\* A batch takes effect item by item, up to the one that failed.
BatchDone(t, q, n) == FoldLeft(LAMBDA u, item : OneDone(u, q, item), t,
                               SubSeq(q.items, 1, n))

DoneItems(q) ==
  IF q.op \in {"write", "folder", "create"} /\ q.pc = "ok" THEN 1 ELSE q.done

\* A call that failed leaves the paths of a request in any state, whatever the
\* answer (a deletion of the server does not look at errors), unless it reads.
Settled(t, q) ==
  IF q.hit /\ ~Reads(q) THEN Forgets(t, Region(q) \cup Needs(q))
           ELSE IF q.op = "drop" THEN Deletes(t, <<>>)
                                 ELSE BatchDone(t, q, DoneItems(q))

View == [p \in Paths |-> IF tree[p] \in Inodes THEN data[tree[p]] ELSE tree[p]]

StoreInit == Init /\ store = View /\ clash = {}

Busy == {r \in Reqs : req[r].pc # "idle"}

\* The requests that overlap another one, `now' being the requests.  A write
\* among them may hold a file that has got another name, so that everything
\* beside it counts as well.
Clashing(now) ==
  LET busy == {r \in Reqs : now[r].pc # "idle"}
      met == {r \in busy : r \in clash \/
                \E s \in busy \ {r} : Conflict(now[r], now[s])}
  IN IF \E r \in met : now[r].op = "write" THEN busy ELSE met

Touched(r) ==
  IF r \in clash /\ req[r].op = "write" THEN Paths
                                       ELSE Region(req[r]) \cup Needs(req[r])

\* The history: a request that overlaps another one is no longer accounted
\* for, nor is the other one; an answer settles the store.
History ==
  /\ clash' = Clashing(req')
  /\ store' =
       IF Busy \subseteq Busy' THEN store
       ELSE LET r == CHOOSE r \in Busy : r \notin Busy' IN
            IF r \in clash /\ ~Reads(req[r]) THEN Forgets(store, Touched(r))
                                            ELSE Settled(store, req[r])

StoreNext == Next /\ History

StoreSpec == StoreInit /\ [][StoreNext]_storeVars

-----------------------------------------------------------------------------

\* The values tree and request variables take.  No inode has two names, and
\* what is present is in a directory.
TypeOK ==
  /\ registered \in BOOLEAN
  /\ tree \in [Paths -> Inodes \cup {Absent, Dir}]
  /\ \A p, q \in Paths : tree[p] \in Inodes /\ tree[p] = tree[q] => p = q
  /\ \A p \in Paths : Present(p) => InDir(p)
  /\ \A r \in Reqs :
       /\ req[r].pc \in Pcs /\ req[r].ino \in Inodes \cup {Null}
       /\ req[r].done <= Len(req[r].items)

\* Requests that do not overlap others take effect whole, in the order of
\* their answers, and touch nothing else: a batch up to the item that failed
\* and no further (manager.go:93-104, files.go:135-142), a write with the
\* directories above it (lines 81-90).  No request changes a path that is not
\* its own, however the calls of requests on other paths interleave.
TakesEffect ==
  \A p \in Paths :
    store[p] # Unknown /\ (\A r \in Busy : p \notin Touched(r))
      => View[p] = store[p]

\* What a read, a download or a listing that nothing overlaps is answered with
\* is what the requests answered before it left there (manager.go:43-78,
\* 129-141, files.go:178-198).  A listing may leave entries out, and a download
\* of a file end early, only when a call has failed, and even then they hold
\* nothing else; a download of what is no file is empty, but a 200 as well.
AnswersTrue ==
  \A r \in Reqs \ clash :
    At(r, "ok") /\ Reads(req[r]) =>
      LET p == Item(r) IN
      CASE req[r].op = "list" ->
             \A q \in Children[p] : store[q] # Unknown =>
               /\ q \in req[r].found => store[q] # Absent
               /\ store[q] # Absent => q \in req[r].found \/ req[r].hit
        [] req[r].op = "read" ->
             store[p] # Unknown => req[r].buf = store[p]
        [] req[r].op = "download" ->
             IF p = Outside THEN req[r].buf = <<>>
             ELSE CASE store[p] = Unknown -> TRUE
                    [] store[p] \in {Absent, Dir} -> req[r].buf = <<>>
                    [] OTHER -> /\ IsPrefix(req[r].buf, store[p])
                                /\ ~req[r].hit => req[r].buf = store[p]

\* Why a request fails: a path that is refused, or one the tree of answered
\* requests does not admit.
Cause(r) ==
  LET t == BatchDone(store, req[r], req[r].done)
      on == IF req[r].op = "rename" THEN {Item(r)[1], Item(r)[2]}
                                    ELSE {Item(r)}
      known(p) == \A q \in Paths : IsPrefix(q, p) => t[q] # Unknown
      isFile(p) == p \in Paths /\ t[p] \notin {Absent, Dir, Unknown}
      under(p) == \E q \in Above[p] : isFile(q)
  IN
  \/ Outside \in on
  \/ \E p \in on : ~known(p) \/ under(p)
  \/ CASE req[r].op = "folder" -> isFile(Item(r))
       [] req[r].op = "write" -> t[Item(r)] = Dir
       [] req[r].op = "read" -> ~isFile(Item(r))
       [] req[r].op = "list" -> t[Item(r)] # Dir
       [] req[r].op = "rename" ->
            LET from == Item(r)[1]  to == Item(r)[2] IN
            \/ t[from] = Absent \/ t[to] = Dir \/ IsPrefix(from, to)
            \/ to # <<>> /\ t[Front(to)] # Dir
            \/ t[from] = Dir /\ t[to] # Absent
       [] OTHER -> FALSE

\* A request that nothing overlaps, and all of whose calls to the operating
\* system could be carried out, fails only for a reason its sender can know by
\* then.  Later the reason may be gone: a directory that was missing may be
\* made for another request before this one is answered.
FailsForCause ==
  [][\A r \in Reqs \ clash :
       (/\ req[r].pc # "failed" /\ req'[r].pc = "failed"
        /\ ~req'[r].hit /\ req[r].op # "create") => Cause(r)]_storeVars

=============================================================================
