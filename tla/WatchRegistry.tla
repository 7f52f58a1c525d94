--------------------------- MODULE WatchRegistry ---------------------------
(***************************************************************************)
(* The scanner's registry of vnode watches (sm_scanner.c).  An entry is a  *)
(* subscription of one scan root to one directory; subscriptions to the    *)
(* same directory share a descriptor, which one of them owns and closes.   *)
(* The array is kept dense by moving its last entry into a hole, and the   *)
(* descriptor index names the array position of each owner.                *)
(*                                                                         *)
(* A directory is a model value with an identity (device and inode), even  *)
(* when nothing exists there, and new with every change.  Only the scanner *)
(* thread touches the registry, so an operation is one step; the order of  *)
(* a root's linked list is left out, and a removal takes the highest       *)
(* positions first.                                                        *)
(***************************************************************************)
EXTENDS Naturals, SequencesExt, FiniteSetsExt

CONSTANTS
    WatchRoots,     \* indices of the configured scan paths
    UsbIndex,       \* scan_root_index -1: the USB subscriptions
    OnUsb,          \* the roots under /mnt/usbN
    Tree,           \* per index, the directories a walk visits, its root first
    ParentDirs,     \* per scan root, its parents, nearest first
    MaxInode        \* bound on the identities a directory has over time

Dirs == UNION {ToSet(Tree[r]) : r \in DOMAIN Tree}
            \cup UNION {ToSet(ParentDirs[r]) : r \in WatchRoots}

VARIABLES
    registry,   \* entries, the descriptor index and the open descriptors
    inode       \* the file system: directory -> identity now at that path

registryVars == <<registry, inode>>

Exists(d) == inode[d] % 2 = 1

\* Function update over a changing domain.
Put(f, x, y) == [z \in DOMAIN f \cup {x} |-> IF z = x THEN y ELSE f[z]]
Drop(f, x) == [z \in DOMAIN f \ {x} |-> f[z]]

Owners(es) == {i \in DOMAIN es : es[i].owns}

rebuild_scanner_watch_fd_index(g) ==
    [g EXCEPT !.index = [fd \in {g.entries[i].fd : i \in Owners(g.entries)} |->
                            Min({i \in Owners(g.entries) : g.entries[i].fd = fd})]]

-----------------------------------------------------------------------------
(* Removing.                                                                *)

\* The last entry fills the hole.
WithoutEntry(es, i) == Front([es EXCEPT ![i] = Last(es)])
Closed(g, i) == IF g.entries[i].owns THEN Drop(g.fds, g.entries[i].fd) ELSE g.fds

RemoveWithoutHeir(g, i) ==
    LET heirs == {j \in DOMAIN g.entries \ {i} : g.entries[j].fd = g.entries[i].fd} IN
    [g EXCEPT !.fds = IF heirs = {} THEN Closed(g, i) ELSE @, !.entries = WithoutEntry(@, i)]

\* The entry's descriptor passes to another subscription of it, or is closed.
remove_scanner_watch_entry_at(g, i) ==
    LET heirs == {j \in DOMAIN g.entries \ {i} : g.entries[j].fd = g.entries[i].fd} IN
    IF g.entries[i].owns /\ heirs # {}
    THEN [g EXCEPT !.entries = WithoutEntry([@ EXCEPT ![Min(heirs)].owns = TRUE], i)]
    ELSE [g EXCEPT !.fds = Closed(g, i), !.entries = WithoutEntry(@, i)]

\* All entries of these roots, or those of them at one directory.
Removed(g, roots, dirs) ==
    FoldLeft(remove_scanner_watch_entry_at, g,
             Reverse(SetToSortSeq({i \in DOMAIN g.entries : /\ g.entries[i].root \in roots
                                                            /\ g.entries[i].dir \in dirs}, <)))

remove_scan_root_watch_entries(g, roots) ==
    rebuild_scanner_watch_fd_index(Removed(g, roots, Dirs))

-----------------------------------------------------------------------------
(* Registering.                                                             *)

FirstFree(g) == Min((1..(Cardinality(DOMAIN g.fds) + 1)) \ DOMAIN g.fds)

\* Subscriptions whose descriptor is still the directory at this path.
Shareable(g, d) == {i \in DOMAIN g.entries : /\ g.entries[i].share /\ g.entries[i].dir = d
                                             /\ g.fds[g.entries[i].fd] = inode[d]}
Subscription(fd, owns, r, d) ==
    [fd |-> fd, owns |-> owns, share |-> TRUE, root |-> r, dir |-> d]

append_scanner_watch_subscription(g, entry) == [g EXCEPT !.entries = Append(@, entry)]

register_scanner_watch_entry(g, r, d) ==
    LET same == Shareable(g, d) IN
    IF ~Exists(d) \/ (\E i \in same : g.entries[i].root = r) THEN g
    ELSE IF same # {}
    THEN append_scanner_watch_subscription(g, Subscription(g.entries[Min(same)].fd, FALSE, r, d))
    ELSE append_scanner_watch_subscription(
           [g EXCEPT !.fds = Put(@, FirstFree(g), inode[d]),
                     !.index = Put(@, FirstFree(g), Len(g.entries) + 1)],
           Subscription(FirstFree(g), TRUE, r, d))

Registered(g, r, dirs) ==
    FoldLeft(LAMBDA h, d : register_scanner_watch_entry(h, r, d), g, dirs)

resolve_existing_parent_directory_path(r) ==
    LET there == SelectSeq(ParentDirs[r], LAMBDA d : Exists(d))
    IN  IF there = <<>> THEN <<>> ELSE <<Head(there)>>

\* A root that exists is walked, and its nearest existing parent watched too;
\* one that does not leaves only the parent.
rebuild_scan_root_watch_tree(g, r) ==
    LET walk == IF ~Exists(Head(Tree[r])) THEN <<>> ELSE Tree[r]
    IN  Registered(remove_scan_root_watch_entries(g, {r}), r,
                   walk \o resolve_existing_parent_directory_path(r))

rebuild_scanner_usb_watches(g) ==
    Registered(remove_scan_root_watch_entries(g, {UsbIndex}), UsbIndex, Tree[UsbIndex])

rebuild_all_scan_root_watch_trees(g) ==
    rebuild_scanner_usb_watches(
        FoldLeft(rebuild_scan_root_watch_tree, g, SetToSeq(WatchRoots)))

\* Only the part of the tree from one directory down is registered again.
rebuild_scan_root_watch_subtree(g, r, i) ==
    Registered(rebuild_scanner_watch_fd_index(
                   Removed(g, {r}, ToSet(SubSeq(Tree[r], i, Len(Tree[r]))))),
               r, SubSeq(Tree[r], i, Len(Tree[r])))

suspend_usb_scan_root_watch_trees(g) ==
    rebuild_scanner_watch_fd_index(Removed(g, {UsbIndex} \cup OnUsb, Dirs))

clear_scanner_watch_entries(g) ==
    LET owned == {g.entries[i].fd : i \in Owners(g.entries)}
    IN  [entries |-> <<>>, index |-> <<>>,
         fds |-> [fd \in DOMAIN g.fds \ owned |-> g.fds[fd]]]

-----------------------------------------------------------------------------
EmptyRegistry == [entries |-> <<>>, index |-> <<>>, fds |-> <<>>]

RegistryInit ==
    /\ registry = EmptyRegistry
    /\ inode \in [Dirs -> {0, 1}]

Becomes(g) == registry' = g /\ UNCHANGED inode

\* A delete, rename or revoke event: no later subscription may share the
\* descriptor, which still names the directory that is gone.
TerminalEvent(fd) ==
    /\ registry.fds[fd] # inode[registry.entries[registry.index[fd]].dir]
    /\ Becomes([registry EXCEPT !.entries = [i \in DOMAIN @ |->
                  IF @[i].fd = fd THEN [@[i] EXCEPT !.share = FALSE] ELSE @[i]]])

DirectoryReplaced(d) ==
    /\ \E n \in (inode[d] + 1)..MaxInode : inode' = [inode EXCEPT ![d] = n]
    /\ UNCHANGED registry

RegistryNext ==
    \/ Becomes(rebuild_all_scan_root_watch_trees(registry))
    \/ \E r \in WatchRoots :
         \/ Becomes(rebuild_scan_root_watch_tree(registry, r))
         \/ \E i \in 2..Len(Tree[r]) : Becomes(rebuild_scan_root_watch_subtree(registry, r, i))
    \/ Becomes(rebuild_scanner_usb_watches(registry))
    \/ Becomes(suspend_usb_scan_root_watch_trees(registry))
    \/ Becomes(clear_scanner_watch_entries(registry))
    \/ \E fd \in DOMAIN registry.index : TerminalEvent(fd)
    \/ \E d \in Dirs : DirectoryReplaced(d)

RegistrySpec == RegistryInit /\ [][RegistryNext]_registryVars

-----------------------------------------------------------------------------
\* "Exactly one subscription closes each shared fd" (sm_scanner.c): every
\* descriptor a subscription uses is open and has one owner, no open
\* descriptor is without one, and the index finds it although removals move
\* entries, through any order of rebuilds, suspends and replaced directories.
OneOwnerPerFd ==
    LET es == registry.entries IN
    /\ \A i \in DOMAIN es : es[i].fd \in DOMAIN registry.fds
    /\ \A fd \in DOMAIN registry.fds :
         /\ Cardinality({i \in Owners(es) : es[i].fd = fd}) = 1
         /\ fd \in DOMAIN registry.index
         /\ registry.index[fd] \in DOMAIN es
         /\ es[registry.index[fd]].fd = fd

=============================================================================
