----------------------------- MODULE FileWatcher -----------------------------
(***************************************************************************)
(* A FileWatcher (filewatcher.cpp): its map from watch descriptors to the  *)
(* paths they were added under, against the watches and the event queue    *)
(* that the kernel keeps for it.                                           *)
(*                                                                         *)
(* The kernel watches inodes, not paths; it gives one inode one watch,     *)
(* drops it by itself when the inode is deleted, never gives a number out  *)
(* again, and ends every watch with an event of its own (IN_IGNORED).      *)
(* Masks and names of events are left out.                                 *)
(***************************************************************************)
EXTENDS Integers, Sequences, Functions

CONSTANTS
  Paths, Inodes,
  Absent,      \* what a path names that does not exist
  MaxWatches,  \* bound: watches added
  MaxQueue,    \* the kernel's limit of queued events
  Room         \* bound: events that one read takes

Overflow == -1   \* wd of the event that stands for lost ones

ASSUME WatcherConstants ==
  /\ Absent \notin Inodes
  /\ MaxWatches \in Nat /\ MaxQueue \in Nat \ {0} /\ Room \in Nat \ {0}

VARIABLES
  inode,             \* what each path names
  watches,           \* kernel: the inode of each live watch
  added,             \* kernel: number of watches given out
  queue,             \* kernel: the watch of each queued event
  watchDescriptors,  \* the map: the path of each watch
  last,              \* what the last receiveEvent did
  removed,           \* history: watches that removeWatch removed
  dropped,           \* history: watches that the kernel dropped
  silent,            \* history: paths removed with success and not added since
  doubled            \* history: paths that were added while they had an entry

kernelVars == <<inode, watches, added, queue>>
vars == <<kernelVars, watchDescriptors, last, removed, dropped, silent, doubled>>

Quiet == [did |-> "nothing", wd |-> 0]

Init ==
  /\ inode \in [Paths -> Inodes \cup {Absent}]
  /\ watches = <<>> /\ added = 0 /\ queue = <<>>
  /\ watchDescriptors = <<>>
  /\ last = Quiet
  /\ removed = {} /\ dropped = {} /\ silent = {} /\ doubled = {}

-----------------------------------------------------------------------------
(* The kernel.                                                              *)

Without(f, x) == Restrict(f, DOMAIN f \ {x})
With(f, x, y) == [z \in DOMAIN f \cup {x} |-> IF z = x THEN y ELSE f[z]]

\* The queue with an event of watch wd, or with one overflow event at its limit.
Queued(wd) ==
  IF Len(queue) < MaxQueue THEN Append(queue, wd)
  ELSE IF Overflow \in Range(queue) THEN queue ELSE Append(queue, Overflow)

\* Something happens to a watched file, or to one in a watched directory.
Touched ==
  \E wd \in DOMAIN watches :
    /\ queue' = Queued(wd)
    /\ last' = Quiet
    /\ UNCHANGED <<inode, watches, added, watchDescriptors, removed, dropped, silent, doubled>>

\* A path is created, deleted, or made to name another inode; an inode that no
\* path names any more is gone, and its watch with it.
Replaced(p) ==
  \E i \in (Inodes \cup {Absent}) \ {inode[p]} :
    LET gone == {wd \in DOMAIN watches : watches[wd] = inode[p]
                   /\ \A q \in Paths \ {p} : inode[q] # inode[p]}
    IN  /\ inode' = [inode EXCEPT ![p] = i]
        /\ \/ /\ gone = {}
              /\ UNCHANGED <<watches, queue, dropped>>
           \/ \E wd \in gone :
                /\ watches' = Without(watches, wd)
                /\ queue' = Queued(wd)
                /\ dropped' = dropped \cup {wd}
        /\ last' = Quiet
        /\ UNCHANGED <<added, watchDescriptors, removed, silent, doubled>>

-----------------------------------------------------------------------------
(* The calls of Lua.                                                        *)

\* inotify_add_watch: the watch of the inode, or a new one.
WatchOf(i) ==
  IF \E wd \in DOMAIN watches : watches[wd] = i
  THEN CHOOSE wd \in DOMAIN watches : watches[wd] = i
  ELSE added + 1

\* emplace keeps the path of a watch that the map has already.
AddWatch(p) ==
  /\ inode[p] # Absent
  /\ LET wd == WatchOf(inode[p])
     IN  /\ wd <= MaxWatches
         /\ watches' = With(watches, wd, inode[p])
         /\ added' = IF wd > added THEN wd ELSE added
         /\ IF wd \in DOMAIN watchDescriptors THEN UNCHANGED <<watchDescriptors, doubled>>
            ELSE /\ watchDescriptors' = With(watchDescriptors, wd, p)
                 /\ doubled' = IF p \in Range(watchDescriptors) THEN doubled \cup {p} ELSE doubled
  /\ silent' = silent \ {p}
  /\ last' = Quiet
  /\ UNCHANGED <<inode, queue, removed, dropped>>

\* Faulty: the entry is erased before the kernel is asked.
RemoveWatchErasesFirst(p) ==
  \E wd \in DOMAIN watchDescriptors :
    /\ watchDescriptors[wd] = p
    /\ watchDescriptors' = Without(watchDescriptors, wd)
    /\ IF wd \in DOMAIN watches
       THEN /\ watches' = Without(watches, wd)
            /\ queue' = Queued(wd)
            /\ removed' = removed \cup {wd}
            /\ silent' = silent \cup {p}
       ELSE UNCHANGED <<watches, queue, removed, silent>>
    /\ last' = Quiet
    /\ UNCHANGED <<inode, added, dropped, doubled>>

\* Faulty: every entry of the path is erased.
RemoveWatchErasesAll(p) ==
  \E wd \in DOMAIN watchDescriptors :
    /\ watchDescriptors[wd] = p
    /\ wd \in DOMAIN watches
    /\ watches' = Without(watches, wd)
    /\ queue' = Queued(wd)
    /\ watchDescriptors' =
         Restrict(watchDescriptors, {w \in DOMAIN watchDescriptors : watchDescriptors[w] # p})
    /\ removed' = removed \cup {wd}
    /\ silent' = silent \cup {p}
    /\ last' = Quiet
    /\ UNCHANGED <<inode, added, dropped, doubled>>

\* Faulty: the entry is kept.
RemoveWatchKeepsEntry(p) ==
  \E wd \in DOMAIN watchDescriptors :
    /\ watchDescriptors[wd] = p
    /\ wd \in DOMAIN watches
    /\ watches' = Without(watches, wd)
    /\ queue' = Queued(wd)
    /\ removed' = removed \cup {wd}
    /\ silent' = silent \cup {p}
    /\ last' = Quiet
    /\ UNCHANGED <<inode, added, watchDescriptors, dropped, doubled>>

\* The first entry of the path in the map, in no known order.  If the kernel has
\* dropped that watch the call throws and the entry stays.
RemoveWatch(p) ==
  \E wd \in DOMAIN watchDescriptors :
    /\ watchDescriptors[wd] = p
    /\ wd \in DOMAIN watches
    /\ watches' = Without(watches, wd)
    /\ queue' = Queued(wd)
    /\ watchDescriptors' = Without(watchDescriptors, wd)
    /\ removed' = removed \cup {wd}
    /\ silent' = silent \cup {p}
    /\ last' = Quiet
    /\ UNCHANGED <<inode, added, dropped, doubled>>

\* A read takes all the events that fit; the first is reported, or not known in
\* the map, and the others are lost.
ReceiveEvent ==
  \E n \in 1..Room :
    /\ n <= Len(queue)
    /\ queue' = SubSeq(queue, n + 1, Len(queue))
    /\ last' = [did |-> IF Head(queue) \in DOMAIN watchDescriptors THEN "reported" ELSE "threw",
                wd  |-> Head(queue)]
    /\ UNCHANGED <<inode, watches, added, watchDescriptors, removed, dropped, silent, doubled>>

-----------------------------------------------------------------------------
Lua == ReceiveEvent \/ \E p \in Paths : AddWatch(p) \/ RemoveWatch(p)

Kernel == Touched \/ \E p \in Paths : Replaced(p)

Next == Lua \/ Kernel

Spec == Init /\ [][Next]_vars

-----------------------------------------------------------------------------
(* Properties.                                                              *)

\* The map has exactly the kernel's watches and those that the kernel dropped by
\* itself: these stay for ever, and removeWatch of their path may throw for ever.
MapMatchesKernel ==
  /\ DOMAIN watchDescriptors = DOMAIN watches \cup dropped
  /\ removed \cap DOMAIN watchDescriptors = {}

\* receiveEvent only throws about an event of a watch that removeWatch removed, of
\* which there is one for every removal, or when the kernel's queue overflowed.
ThrowsOnlyForRemoved == last.did = "threw" => last.wd \in removed \cup {Overflow}

\* After a removeWatch that returned true nothing is reported under its path until
\* it is added again, even if events were queued, unless the path was once added
\* for a second inode and had two entries.
NoReportAfterRemoval ==
  last.did = "reported" =>
    watchDescriptors[last.wd] \notin silent \ doubled

=============================================================================
