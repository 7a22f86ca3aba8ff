---------------------------- MODULE StaticFiles -----------------------------
(***************************************************************************)
(* The static files of sparc/detail/static_file.cpp: the cache of one      *)
(* worker, its descriptors among those of the connections, and a client    *)
(* that asks again with If-Modified-Since.                                 *)
(*                                                                         *)
(* Other processes write the files.  What a file holds is the number of    *)
(* its version; its mtime has the clock's resolution of a second, so that  *)
(* a version written in the second of another has its mtime.               *)
(***************************************************************************)
EXTENDS Integers, Sequences, FiniteSets, FiniteSetsExt

CONSTANTS Paths,
          Html,        \* the files that are sent without Last-Modified
          MaxVersion,  \* bound: versions of a file
          MaxFd,       \* bound: descriptors
          MaxSecond    \* bound: the clock

ASSUME FilesAssumption == {"other", "leaked"} \cap Paths = {} /\ MaxFd \in Nat

VARIABLES second,
          disk,     \* each file: ver (0: not there), mtime, the versions that had it, the last one made,
                    \* and whether it has minimumMapped_ bytes and will be mapped
          cache,    \* files_: each path's entry, 0 or 1 of them
          fds,      \* the owner of each descriptor that is open: a path, "other" or "leaked"
          got,      \* the client's copy of each file: ver and Last-Modified
          asked,    \* the find in progress, between its stat and its open: the path and the stat
          foreign   \* a descriptor of a connection was closed here

fvars == <<second, disk, cache, fds, got, asked, foreign>>

None == [ver |-> 0, mtime |-> 0, fd |-> 0, mapped |-> FALSE]

InitFiles == /\ second = 1
             /\ disk = [p \in Paths |-> [ver |-> 1, mtime |-> 1, vers |-> {1}, last |-> 1, large |-> FALSE]]
             /\ cache = [p \in Paths |-> None]
             /\ fds = [d \in {} |-> "other"]
             /\ got = [p \in Paths |-> [ver |-> 0, mtime |-> 0]]
             /\ asked = {}
             /\ foreign = FALSE

\* Another process makes a version of a file, in place (a mapping of it sees that) or as
\* a new file, or removes it.  The mtime is that of the clock.
Change(p, ver, inPlace, large) ==
  /\ disk' = [disk EXCEPT ![p] = [ver |-> ver, mtime |-> second,
                                  vers |-> (IF @.mtime = second THEN @.vers ELSE {}) \cup {ver},
                                  last |-> IF ver = 0 THEN @.last ELSE ver, large |-> large]]
  /\ cache' = IF inPlace /\ cache[p].mapped
              THEN [cache EXCEPT ![p].ver = ver] ELSE cache
  /\ UNCHANGED <<second, fds, got, asked, foreign>>
WriteFile(p, inPlace, large) == /\ disk[p].last < MaxVersion
                                /\ inPlace => disk[p].ver # 0
                                /\ Change(p, disk[p].last + 1, inPlace, large)
RemoveFile(p) == disk[p].ver # 0 /\ Change(p, 0, FALSE, FALSE)

Tock == second < MaxSecond /\ second' = second + 1
        /\ UNCHANGED <<disk, cache, fds, got, asked, foreign>>

\* The lowest free descriptor is the one open returns.
NewFd(open) == Min(1 .. MaxFd + 1 \ open)

\* Between requests the worker accepts and closes connections.
Other == /\ asked = {}
         /\ \/ /\ NewFd(DOMAIN fds) <= MaxFd
               /\ fds' = [d \in DOMAIN fds \cup {NewFd(DOMAIN fds)} |-> IF d \in DOMAIN fds THEN fds[d] ELSE "other"]
            \/ \E d \in DOMAIN fds : fds[d] = "other" /\ fds' = [x \in DOMAIN fds \ {d} |-> fds[x]]
         /\ UNCHANGED <<second, disk, cache, got, asked, foreign>>

-----------------------------------------------------------------------------
\* StaticFilesRouter::find up to its stat.
Stat(p) == /\ asked = {}
           /\ disk[p].ver # 0
           /\ asked' = {[path |-> p, mtime |-> disk[p].mtime, large |-> disk[p].large]}
           /\ UNCHANGED <<second, disk, cache, fds, got, foreign>>

\* What close(fd) does: of an entry's own descriptor, of one that is not open any more,
\* or of somebody else's.
Close(fs, fd) == [d \in DOMAIN fs \ {fd} |-> fs[d]]
Foreign(fs, fd) == fd \in DOMAIN fs /\ fs[fd] = "other"

\* applyHeaders and the answer: the client's copy is good, or it gets the content.
Answer(p, e) == IF p \notin Html /\ got[p].mtime # 0 /\ got[p].mtime >= e.mtime THEN UNCHANGED got
                ELSE got' = [got EXCEPT ![p] = [ver |-> e.ver,
                                                mtime |-> IF p \in Html THEN 0 ELSE e.mtime]]

\* getFileContents succeeds: the content is what the file holds now, the mtime that of
\* the stat before.  The descriptor stays open.
Load(p, st, open) ==
  LET fd == NewFd(DOMAIN open)
      e == [ver |-> disk[p].ver, mtime |-> st.mtime, fd |-> fd, mapped |-> st.large]
  IN /\ disk[p].ver # 0 /\ fd <= MaxFd
     /\ cache' = [cache EXCEPT ![p] = e]
     /\ fds' = [d \in DOMAIN open \cup {fd} |-> IF d = fd THEN p ELSE open[d]]
     /\ Answer(p, e)

\* A file that is cached with the mtime of the stat is sent as it is.
Hit(p, st) == /\ cache[p] # None /\ cache[p].mtime = st.mtime
              /\ Answer(p, cache[p])
              /\ UNCHANGED <<cache, fds, foreign>>

\* loadFile, which may fail: open or mmap leave nothing, a failed read leaves the
\* descriptor open.
loadFile(p, st) ==
  /\ cache[p] = None
  /\ \/ Load(p, st, fds)
     \/ UNCHANGED <<cache, fds, got>>
     \/ /\ ~st.large /\ NewFd(DOMAIN fds) <= MaxFd
        /\ fds' = [d \in DOMAIN fds \cup {NewFd(DOMAIN fds)} |-> IF d \in DOMAIN fds THEN fds[d] ELSE "leaked"]
        /\ UNCHANGED <<cache, got>>
  /\ UNCHANGED foreign

\* Mutant: an entry that failed to reload stays in the table.
FailedKept(p, open) == cache' = cache /\ fds' = open /\ foreign' = foreign

\* The failed reload of find: the entry goes, and its destructor closes the descriptor
\* that reloadFile has closed already.
Failed(p, open) == /\ cache' = [cache EXCEPT ![p] = None]
                   /\ fds' = Close(open, cache[p].fd)
                   /\ foreign' = (foreign \/ Foreign(open, cache[p].fd))

\* reloadFile: the descriptor is closed, the file loaded again; open or mmap fail, or
\* read does and leaves the new descriptor open.
reloadFile(p, st) ==
  LET open == Close(fds, cache[p].fd)
      fd == NewFd(DOMAIN open)
  IN /\ cache[p] # None /\ cache[p].mtime # st.mtime
     /\ \/ Load(p, st, open) /\ foreign' = (foreign \/ Foreign(fds, cache[p].fd))
        \/ Failed(p, open) /\ UNCHANGED got
        \/ /\ ~st.large /\ fd <= MaxFd
           /\ Failed(p, [d \in DOMAIN open \cup {fd} |-> IF d = fd THEN "leaked" ELSE open[d]])
           /\ UNCHANGED got

\* find from its lookup on, and the answer of App::handle.
Serve == \E a \in asked :
           /\ Hit(a.path, a) \/ loadFile(a.path, a) \/ reloadFile(a.path, a)
           /\ asked' = {}
           /\ UNCHANGED <<second, disk>>

NextFiles == \/ Tock \/ Other \/ Serve
             \/ \E p \in Paths : \/ \E inPlace, large \in BOOLEAN : WriteFile(p, inPlace, large)
                                 \/ RemoveFile(p) \/ Stat(p)

-----------------------------------------------------------------------------
\* The cache, and a client that trusts Last-Modified, hold the file's content when they
\* hold its mtime, unless the file had several versions in that second; html files are
\* sent anew each time.  The descriptor a failed reload closes twice is never one of a
\* connection: no descriptor is opened in between but the cache's own.
FilesSound ==
  /\ \A p \in Paths : disk[p].ver # 0 =>
       /\ cache[p].mtime = disk[p].mtime => cache[p].ver \in disk[p].vers
       /\ got[p].mtime = disk[p].mtime => got[p].ver \in disk[p].vers
  /\ ~foreign
  /\ \A p \in Paths : cache[p] # None => cache[p].fd \in DOMAIN fds /\ fds[cache[p].fd] = p
=============================================================================
