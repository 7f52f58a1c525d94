----------------------------- MODULE StateTables -----------------------------
(***************************************************************************)
(* The attempt tables of titles and paths (sm_title_state.c and            *)
(* sm_path_state.c): fixed rows found through an open-addressing hash of   *)
(* row numbers.  Both files have the same code but for their columns and   *)
(* for the row a full table gives up, so one table of either kind is       *)
(* modelled.                                                               *)
(*                                                                         *)
(* Columns: mount is mount_reg_attempts or image_mount_attempts, other is  *)
(* register_attempts or what else keeps a path's row worth having, manual  *)
(* is manual_missing_source_logged.                                        *)
(***************************************************************************)
EXTENDS Naturals, FiniteSetsExt

CONSTANTS
    StateKeys,          \* title ids or paths
    Fnv,                \* sm_fnv1a32 modulo the hash size
    CAPACITY,           \* TITLE_STATE_CAPACITY, PATH_STATE_CAPACITY
    STATE_HASH_SIZE,
    MAX_COUNT           \* UINT8_MAX, where a counter stops

VARIABLES
    kind,       \* "title" or "path"
    rows,       \* g_title_state or g_path_state
    hash,       \* g_title_state_hash or g_path_state_hash; 0 is an empty slot
    present     \* the paths that exist

tableVars == <<kind, rows, hash, present>>

NoKey == "none"
Blank == [key |-> NoKey, mount |-> 0, other |-> 0, manual |-> FALSE]
Valid(rs) == {k \in DOMAIN rs : rs[k].key # NoKey}
HashSlots == 0..(STATE_HASH_SIZE - 1)
Probe(key, i) == (Fnv[key] + i) % STATE_HASH_SIZE
EmptyHash == [s \in HashSlots |-> 0]

\* The first empty slot from the key's own on takes the row.
Entered(h, key, k) ==
    LET free == {i \in HashSlots : h[Probe(key, i)] = 0}
    IN  IF free = {} THEN h ELSE [h EXCEPT ![Probe(key, Min(free))] = k]

NoRebuild(rs) == hash

rebuild_state_hash(rs) ==
    LET upTo[k \in 0..CAPACITY] ==
          IF k = 0 THEN EmptyHash
          ELSE IF k \in Valid(rs) THEN Entered(upTo[k - 1], rs[k].key, k) ELSE upTo[k - 1]
    IN  upTo[CAPACITY]

\* The probe stops at an empty slot or at a valid row with this key; 0 is NULL.
find_state(key) ==
    LET Hit(i) == hash[Probe(key, i)] # 0 /\ rows[hash[Probe(key, i)]].key = key
        stops == {i \in HashSlots : hash[Probe(key, i)] = 0 \/ Hit(i)}
    IN  IF stops = {} \/ ~Hit(Min(stops)) THEN 0 ELSE hash[Probe(key, Min(stops))]

TableInit ==
    /\ kind \in {"title", "path"}
    /\ rows = [k \in 1..CAPACITY |-> Blank]
    /\ hash = EmptyHash
    /\ present = StateKeys

\* Which row a full table gives up.
FirstOf(A, B) == IF A # {} THEN Min(A) ELSE IF B # {} THEN Min(B) ELSE 1

Evicted ==
    LET idle == {k \in DOMAIN rows : rows[k].mount = 0 /\ rows[k].other = 0 /\ ~rows[k].manual}
    IN  IF kind = "title" THEN FirstOf(idle, {k \in DOMAIN rows : rows[k].mount = 0})
        ELSE FirstOf({k \in DOMAIN rows : rows[k].key \notin present /\ ~rows[k].manual}, idle)

\* What a caller writes into the row it got: a counter of the column goes up,
\* the flag is set; no column, no write.
Bumped(n) == IF n < MAX_COUNT THEN n + 1 ELSE n
Noted(r, column) ==
    CASE column = "manual" -> [r EXCEPT !.manual = TRUE]
      [] column \in {"mount", "other"} -> [r EXCEPT ![column] = Bumped(@)]
      [] OTHER -> r

\* create_title_state, create_path_state: a free row, else an evicted one and
\* a rebuilt hash.  Without a slot the row is given back and NULL returned.
create_state(key, column) ==
    LET full == Valid(rows) = DOMAIN rows
        k == IF full THEN Evicted ELSE Min(DOMAIN rows \ Valid(rows))
        cleared == IF full THEN rebuild_state_hash([rows EXCEPT ![k] = Blank]) ELSE hash
        entered == Entered(cleared, key, k)
    IN  IF entered = cleared
        THEN /\ rows' = [rows EXCEPT ![k] = Blank]
             /\ hash' = rebuild_state_hash([rows EXCEPT ![k] = Blank])
        ELSE /\ rows' = [rows EXCEPT ![k] = Noted([Blank EXCEPT !.key = key], column)]
             /\ hash' = entered

get_or_create_state(key, column) ==
    LET k == find_state(key) IN
    IF k = 0 THEN create_state(key, column)
    ELSE rows' = [rows EXCEPT ![k] = Noted(@, column)] /\ UNCHANGED hash

ClearIfFound(key, column) ==
    LET k == find_state(key) IN
    /\ k # 0
    /\ rows' = [rows EXCEPT ![k][column] = Blank[column]]
    /\ UNCHANGED hash

-----------------------------------------------------------------------------
bump_mount_attempts(key) ==
    /\ get_or_create_state(key, "mount")
    /\ UNCHANGED <<kind, present>>

\* mark_register_attempted; record_missing_param_failure, store_cached_game_info
\* and the other notes of a path.
note_other(key) ==
    /\ get_or_create_state(key, "other")
    /\ UNCHANGED <<kind, present>>

\* notify_duplicate_title_once keeps no column that eviction looks at.
note_unkept(key) ==
    /\ get_or_create_state(key, "none")
    /\ UNCHANGED <<kind, present>>

note_manual_missing_source_once(key) ==
    /\ kind = "path"
    /\ get_or_create_state(key, "manual")
    /\ UNCHANGED <<kind, present>>

clear_mount_attempts(key) ==
    /\ ClearIfFound(key, "mount")
    /\ UNCHANGED <<kind, present>>

clear_other(key) ==
    /\ ClearIfFound(key, "other")
    /\ UNCHANGED <<kind, present>>

clear_manual_missing_source(key) ==
    /\ kind = "path"
    /\ ClearIfFound(key, "manual")
    /\ UNCHANGED <<kind, present>>

reset_all_attempts ==
    /\ rows' = [k \in DOMAIN rows |->
                  [rows[k] EXCEPT !.mount = 0, !.other = IF kind = "title" THEN 0 ELSE @]]
    /\ UNCHANGED <<kind, hash, present>>

\* Rows of paths that are gone, of all roots or of one, are blanked.
prune_path_state(keys) ==
    LET gone == {k \in Valid(rows) : /\ rows[k].key \in keys \ present
                                     /\ ~rows[k].manual}
        kept == [k \in DOMAIN rows |-> IF k \in gone THEN Blank ELSE rows[k]]
    IN  /\ kind = "path" /\ gone # {}
        /\ rows' = kept
        /\ hash' = rebuild_state_hash(kept)
        /\ UNCHANGED <<kind, present>>

PathAppearsOrGoes(key) ==
    /\ kind = "path"
    /\ present' = IF key \in present THEN present \ {key} ELSE present \cup {key}
    /\ UNCHANGED <<kind, rows, hash>>

TableNext ==
    \/ \E key \in StateKeys :
         \/ bump_mount_attempts(key) \/ note_other(key) \/ note_unkept(key)
         \/ note_manual_missing_source_once(key)
         \/ clear_mount_attempts(key) \/ clear_other(key)
         \/ clear_manual_missing_source(key)
         \/ PathAppearsOrGoes(key)
    \/ reset_all_attempts
    \/ \E keys \in SUBSET StateKeys : prune_path_state(keys)

TableSpec == TableInit /\ [][TableNext]_tableVars

-----------------------------------------------------------------------------
\* Every row is found under its key and the hash holds no other slot, so that
\* creating a row never runs out of slots: the callers use the pointer
\* get_or_create returns without looking (bump_failed_mount_attempts,
\* record_missing_param_failure).  Evictions and prunes leave no stale slot.
TableFindsEntries ==
    /\ \A k \in Valid(rows) : find_state(rows[k].key) = k
    /\ Cardinality({s \in HashSlots : hash[s] # 0}) = Cardinality(Valid(rows))

=============================================================================
