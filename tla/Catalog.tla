------------------------------ MODULE Catalog ------------------------------
(***************************************************************************)
(* The catalog of a project: a root that lists chunks, chunks that list    *)
(* files, and a chain of blocks per file (synergos-net/src/catalog/        *)
(* manager.rs, catalog/types.rs, chain/file_chain.rs).                     *)
(*                                                                         *)
(* A CRC is the sequence of the values it is computed over.  Operations    *)
(* are suspended at root.read() and root.write(), and run on several       *)
(* threads between the accesses to the maps.                               *)
(***************************************************************************)
EXTENDS Naturals, Sequences, FiniteSets, SequencesExt

CONSTANTS Files,         \* FileIds
          Workers,       \* operations that may be under way
          MaxFiles,      \* chunk_max_files
          MaxDepth,      \* chain_max_depth
          MaxBlocks,     \* bound: blocks appended
          SameFile       \* may two updates of one file overlap?

VARIABLES root,     \* RootCatalog
          chunks,   \* chunks: files of each, by the order of creation
          chains,   \* chains: blocks and head of each file
          home,     \* file_to_chunk; 0 for a file not added
          work,       \* what each worker is doing
          blocks,   \* blocks made so far; they are numbered
          snap      \* history: catalog and chains at a quiet moment

catalogVars == <<root, chunks, chains, home, work, blocks, snap>>

Idle == [pc |-> "idle", kind |-> "none", file |-> 0, chunk |-> 0, crc |-> <<>>]
NoChain == [blocks |-> <<>>, head |-> 0]

Init ==
    /\ root = [update_count |-> 0, index |-> <<>>, crc |-> <<>>]
    /\ chunks = <<>>
    /\ chains = [f \in Files |-> NoChain]
    /\ home = [f \in Files |-> 0]
    /\ work = [w \in Workers |-> Idle]
    /\ blocks = 0
    /\ snap = [root |-> root, chunks |-> chunks, chains |-> chains]

At(w, pc) == work[w].pc = pc
Goto(w, pc) == work' = [work EXCEPT ![w].pc = pc]
Done(w) == work' = [work EXCEPT ![w] = Idle]

-----------------------------------------------------------------------------
(* Chunk and FileChain                                                     *)
is_full(chunk) == Len(chunk) >= MaxFiles
compute_crc(chunk) == [i \in DOMAIN chunk |-> chunk[i].crc]
head_crc(chain) == Last(chain.blocks).crc
Blocks(chain) == ToSet(chain.blocks)
find_block(chain, hash) == \E b \in Blocks(chain) : b.hash = hash

(* Mutant: the block goes to the front of the queue.                       *)
append_front(chain, b) ==
    [blocks |-> SubSeq(<<b>> \o chain.blocks, 1, IF Len(chain.blocks) < MaxDepth THEN Len(chain.blocks) + 1 ELSE MaxDepth),
     head |-> b.hash]

(* append: the block becomes the head; beyond max_depth the oldest go.     *)
append(chain, b) ==
    LET all == Append(chain.blocks, b)
    IN [blocks |-> SubSeq(all, IF Len(all) > MaxDepth THEN Len(all) - MaxDepth + 1 ELSE 1, Len(all)),
        head   |-> b.hash]

(* blocks_since: of a version; versions are the numbers of the blocks.     *)
blocks_since(chain, version) == SelectSeq(chain.blocks, LAMBDA b : b.hash > version)

(* find_common_ancestor: the newest local block the other chain has; 0 if  *)
(* there is none.                                                          *)
find_common_ancestor(chain, remote) ==
    LET common == {i \in DOMAIN chain.blocks : find_block(remote, chain.blocks[i].hash)}
    IN IF common = {} THEN 0
       ELSE chain.blocks[CHOOSE i \in common : \A j \in common : j <= i].hash

-----------------------------------------------------------------------------
(* update_chunk_index keeps a reference to the chunk until the root is     *)
(* written: nobody can change the chunk meanwhile.                         *)
Guarded(c) == \E w \in Workers : At(w, "write") /\ work[w].chunk = c

(* find_or_create_chunk, under root.read(): the last chunk of the root, if *)
(* it has room.  Otherwise a new one enters the map ...                    *)
add_file(w, f) ==
    /\ At(w, "idle") /\ home[f] = 0 /\ \A v \in Workers : work[v].file # f
    /\ LET last == IF root.index = <<>> THEN 0 ELSE Last(root.index).chunk IN
       IF last # 0 /\ ~is_full(chunks[last])
       THEN /\ work' = [work EXCEPT ![w] = [Idle EXCEPT !.pc = "push", !.kind = "add", !.file = f, !.chunk = last]]
            /\ UNCHANGED chunks
       ELSE /\ chunks' = Append(chunks, <<>>)
            /\ work' = [work EXCEPT ![w] = [Idle EXCEPT !.pc = "index", !.kind = "add", !.file = f,
                                                    !.chunk = Len(chunks) + 1]]
    /\ UNCHANGED <<root, chains, home, blocks, snap>>

(* ... and is listed in the root under root.write().                       *)
find_or_create_chunk(w) ==
    /\ At(w, "index") /\ Goto(w, "push")
    /\ root' = [root EXCEPT !.index = Append(@, [chunk |-> work[w].chunk, crc |-> <<>>])]
    /\ UNCHANGED <<chunks, chains, home, blocks, snap>>

(* The entry enters the chunk, and the file gets a chain and a place.      *)
push(w) ==
    /\ At(w, "push") /\ ~Guarded(work[w].chunk) /\ Goto(w, "crc")
    /\ chunks' = [chunks EXCEPT ![work[w].chunk] =
                    Append(@, [file |-> work[w].file, crc |-> 0, state |-> "Synced"])]
    /\ chains' = [chains EXCEPT ![work[w].file] = NoChain]
    /\ home' = [home EXCEPT ![work[w].file] = work[w].chunk]
    /\ UNCHANGED <<root, blocks, snap>>

(* update_chunk_index: the CRC of the chunk, ...                           *)
chunk_crc(w) ==
    /\ At(w, "crc")
    /\ work' = [work EXCEPT ![w].pc = "write", ![w].crc = compute_crc(chunks[work[w].chunk])]
    /\ UNCHANGED <<root, chunks, chains, home, blocks, snap>>

(* ... then the root's entry of it.                                        *)
update_chunk_index(w) ==
    /\ At(w, "write")
    /\ root' = [root EXCEPT !.index = [i \in DOMAIN @ |->
                  IF @[i].chunk = work[w].chunk THEN [@[i] EXCEPT !.crc = work[w].crc] ELSE @[i]]]
    /\ Goto(w, IF work[w].kind = "add" THEN "root" ELSE "count")
    /\ UNCHANGED <<chunks, chains, home, blocks, snap>>

recompute_catalog_crc(w) ==
    /\ At(w, "root") /\ Done(w)
    /\ root' = [root EXCEPT !.crc = [i \in DOMAIN root.index |-> root.index[i].crc]]
    /\ UNCHANGED <<chunks, chains, home, blocks, snap>>

(* record_update: a block whose prev_hash is not the head is a fork and is *)
(* refused.  A caller builds it on the head, or on one it read earlier.    *)
record_update(w, f, prev) ==
    /\ At(w, "idle") /\ home[f] # 0 /\ blocks < MaxBlocks
    /\ SameFile \/ \A v \in Workers : work[v].file # f
    /\ blocks' = blocks + 1
    /\ IF prev # chains[f].head
       THEN UNCHANGED <<chains, work>>
       ELSE LET b == [hash |-> blocks', prev |-> prev, crc |-> blocks'] IN
            /\ chains' = [chains EXCEPT ![f] = append(@, b)]
            /\ work' = [work EXCEPT ![w] = [pc |-> "entry", kind |-> "update", file |-> f,
                                        chunk |-> home[f], crc |-> <<head_crc(chains'[f])>>]]
    /\ UNCHANGED <<root, chunks, home, snap>>

SetEntry(chunk, f, field, value) ==
    [i \in DOMAIN chunk |-> IF chunk[i].file = f THEN [chunk[i] EXCEPT ![field] = value] ELSE chunk[i]]

(* The entry takes the CRC of the head it read.                            *)
update_entry(w) ==
    /\ At(w, "entry") /\ ~Guarded(work[w].chunk) /\ Goto(w, "crc")
    /\ chunks' = [chunks EXCEPT ![work[w].chunk] =
                    SetEntry(SetEntry(@, work[w].file, "crc", work[w].crc[1]), work[w].file, "state", "Synced")]
    /\ UNCHANGED <<root, chains, home, blocks, snap>>

update_count(w) ==
    /\ At(w, "count") /\ Goto(w, "root")
    /\ root' = [root EXCEPT !.update_count = @ + 1]
    /\ UNCHANGED <<chunks, chains, home, blocks, snap>>

set_file_state(f) ==
    /\ home[f] # 0 /\ ~Guarded(home[f])
    /\ chunks' = [chunks EXCEPT ![home[f]] = SetEntry(@, f, "state", "LocalModified")]
    /\ UNCHANGED <<root, chains, home, work, blocks, snap>>

Quiet == \A w \in Workers : At(w, "idle")

(* root_catalog, read by another node at a quiet moment.                   *)
root_catalog ==
    /\ Quiet /\ snap' = [root |-> root, chunks |-> chunks, chains |-> chains]
    /\ UNCHANGED <<root, chunks, chains, home, work, blocks>>

(* diff_catalog: the chunks of the other root that differ, and what its    *)
(* files need.                                                             *)
diff_chunk_files(c) ==
    [conflicts |-> {chunks[c][i].file : i \in {j \in DOMAIN chunks[c] : chunks[c][j].state = "LocalModified"}},
     updates   |-> {chunks[c][i].file : i \in {j \in DOMAIN chunks[c] : chunks[c][j].state # "LocalModified"}}]

diff_catalog(remote) ==
    LET Same(r)  == \E i \in DOMAIN root.index : root.index[i] = r
        Known(r) == \E i \in DOMAIN root.index : root.index[i].chunk = r.chunk
        changed  == IF root.update_count = remote.update_count /\ root.crc = remote.crc THEN {}
                    ELSE {r \in ToSet(remote.index) : ~Same(r)}
        local    == {r.chunk : r \in {s \in changed : Known(s)}}
    IN [changed_chunks |-> {r.chunk : r \in changed},
        conflicts |-> UNION {diff_chunk_files(c).conflicts : c \in local},
        updates   |-> UNION {diff_chunk_files(c).updates : c \in local}]

Next ==
    \/ \E w \in Workers :
         \/ find_or_create_chunk(w) \/ push(w) \/ chunk_crc(w) \/ update_chunk_index(w)
         \/ recompute_catalog_crc(w) \/ update_entry(w) \/ update_count(w)
         \/ \E f \in Files : add_file(w, f) \/ \E prev \in {0, chains[f].head} : record_update(w, f, prev)
    \/ \E f \in Files : set_file_state(f)
    \/ root_catalog

-----------------------------------------------------------------------------
Placed(f) == {c \in DOMAIN chunks : \E i \in DOMAIN chunks[c] : chunks[c][i].file = f}

(* When no operation is under way the catalog describes its contents: the  *)
(* CRCs of the root are those of the chunks, every file is in the one      *)
(* chunk the map names, with the CRC of its chain's head, and a chain is   *)
(* linked.  A diff against an earlier root then names exactly the chunks   *)
(* that changed since, the ancestor shared with an earlier chain is that   *)
(* chain's head while it is kept, and the blocks since that head are the   *)
(* ones the earlier chain lacks (CatalogManager, FileChain).               *)
CatalogCoherent == Quiet =>
    /\ root.crc = [i \in DOMAIN root.index |-> root.index[i].crc]
    /\ \A i \in DOMAIN root.index : root.index[i].crc = compute_crc(chunks[root.index[i].chunk])
    /\ \A f \in Files : Placed(f) = {home[f]} \ {0}
    /\ \A c \in DOMAIN chunks : \A i \in DOMAIN chunks[c] : LET chain == chains[chunks[c][i].file] IN
         /\ chunks[c][i].crc = (IF chain.blocks = <<>> THEN 0 ELSE head_crc(chain))
         /\ \A j \in DOMAIN chain.blocks \ {1} : chain.blocks[j].prev = chain.blocks[j - 1].hash
    /\ diff_catalog(snap.root).changed_chunks =
         {c \in DOMAIN snap.chunks : compute_crc(chunks[c]) # compute_crc(snap.chunks[c])}
    /\ \A f \in Files : LET old == snap.chains[f] IN
         /\ find_common_ancestor(chains[f], old) = (IF find_block(chains[f], old.head) THEN old.head ELSE 0)
         /\ ToSet(blocks_since(chains[f], old.head)) = Blocks(chains[f]) \ Blocks(old)
=============================================================================
