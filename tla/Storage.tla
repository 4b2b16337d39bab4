------------------------------ MODULE Storage -------------------------------
(***************************************************************************)
(* The database file of a node as the programs that open it see it         *)
(* (internal/storage, migrations): its schema, the settings it records,    *)
(* and the two indexes that are derived from the retrieval units, one for  *)
(* words (FTS5) and one for vectors (sqlite-vec).  Every program runs the  *)
(* migrations with its own settings when it starts; the index worker       *)
(* (internal/indexer) fills the vector index afterwards.                   *)
(*                                                                         *)
(* memory_fts and memory_embedding_vectors follow memory_nodes the way     *)
(* their retrieval_ counterparts follow retrieval_units: one of each is    *)
(* modelled.  Node composes this module with the programs.                 *)
(***************************************************************************)
EXTENDS Naturals, FiniteSets

CONSTANTS
    Units,     \* retrieval units
    Settings   \* what programs may be started with: the number of files in the
               \* migrations directory, cfg.Search.FTSTokenizer and
               \* cfg.Embedding.Dimension

ASSUME SettingsAssumption ==
    \A o \in Settings : DOMAIN o = {"migrations", "tokenizer", "dim"} /\ o.migrations \in Nat \ {0}

VARIABLES
    schema,    \* the number of rows of schema_migrations, 0 in a new file
    meta,      \* the settings written to app_metadata
    units,     \* the rows of retrieval_units, and of retrieval_fts
    fts,       \* retrieval_fts_index: its tokenizer and its rows
    vec,       \* retrieval_embedding_vectors: its dimension and its rows
    emb,       \* retrieval_embeddings: the dimension a unit was embedded with
    rqueue     \* the units with a pending row of retrieval_index_queue

storage == <<schema, meta, units, fts, vec, emb, rqueue>>

NoMeta == [migrations |-> 0]

AppliesNew(o) == o.migrations > schema

\* shouldBackfillFTSIndexes
RebuildsFTS(o) == AppliesNew(o) \/ meta.tokenizer # o.tokenizer

\* The index is dropped with the other tokenizer and filled by the triggers.
EnsureFTS_NoBackfill(o) ==
    IF RebuildsFTS(o) THEN [tokenizer |-> o.tokenizer, rows |-> {}] ELSE fts

\* ensureFTSIndexes: a rebuilt index is filled from retrieval_fts.
EnsureFTS(o) == IF RebuildsFTS(o) THEN [tokenizer |-> o.tokenizer, rows |-> units] ELSE fts

\* shouldRebuildVectorIndexes
RebuildsVectors(o) == AppliesNew(o) \/ meta.dim # o.dim

\* The embeddings go with the vectors they were made for.
Migrate_DropsEmbeddings(o) ==
    /\ schema' = IF AppliesNew(o) THEN o.migrations ELSE schema
    /\ fts' = EnsureFTS(o)
    /\ vec' = IF RebuildsVectors(o) THEN [dim |-> o.dim, rows |-> {}] ELSE vec
    /\ emb' = IF RebuildsVectors(o) THEN <<>> ELSE emb
    /\ meta' = o
    /\ UNCHANGED <<units, rqueue>>

\* RunMigrationsWithOptions: one transaction.  A rebuilt vector index is empty;
\* the embeddings and the queue stay as they are.
Migrate(o) ==
    /\ schema' = IF AppliesNew(o) THEN o.migrations ELSE schema
    /\ fts' = EnsureFTS(o)
    /\ vec' = IF RebuildsVectors(o) THEN [dim |-> o.dim, rows |-> {}] ELSE vec
    /\ meta' = o
    /\ UNCHANGED <<units, emb, rqueue>>

\* A unit is stored, by a transaction like IndexQueue's Store; triggers of the
\* database bring it into retrieval_fts and the word index.
InsertUnit(u) ==
    /\ u \notin units
    /\ units' = units \cup {u}
    /\ fts' = [fts EXCEPT !.rows = @ \cup {u}]
    /\ rqueue' = rqueue \cup {u}
    /\ UNCHANGED <<schema, meta, vec, emb>>

\* The vector is committed before the embedding and the queue row.
Embed_TwoTransactions(u, dim) ==
    /\ u \in rqueue
    /\ dim = vec.dim
    /\ vec' = [vec EXCEPT !.rows = @ \cup {u}]
    /\ \/ /\ emb' = [v \in DOMAIN emb \cup {u} |-> IF v = u THEN dim ELSE emb[v]]
          /\ rqueue' = rqueue \ {u}
       \/ UNCHANGED <<emb, rqueue>>
    /\ UNCHANGED <<schema, meta, units, fts>>

\* processRetrievalItem of a worker whose embeddings have the given dimension:
\* a vector that does not fit the table is refused and everything rolled back.
Embed(u, dim) ==
    /\ u \in rqueue
    /\ dim = vec.dim
    /\ emb' = [v \in DOMAIN emb \cup {u} |-> IF v = u THEN dim ELSE emb[v]]
    /\ vec' = [vec EXCEPT !.rows = @ \cup {u}]
    /\ rqueue' = rqueue \ {u}
    /\ UNCHANGED <<schema, meta, units, fts>>

StorageInit ==
    /\ schema = 0 /\ meta = NoMeta
    /\ units = {} /\ emb = <<>> /\ rqueue = {}
    /\ fts = [tokenizer |-> "none", rows |-> {}]
    /\ vec = [dim |-> 0, rows |-> {}]

\* The file is deleted; the next program to open it makes a new one.
StorageRemoved ==
    /\ schema' = 0 /\ meta' = NoMeta
    /\ units' = {} /\ emb' = <<>> /\ rqueue' = {}
    /\ fts' = [tokenizer |-> "none", rows |-> {}]
    /\ vec' = [dim |-> 0, rows |-> {}]

(***************************************************************************)
(* Properties.                                                             *)
(***************************************************************************)
StorageTypeOK ==
    /\ schema \in Nat
    /\ meta \in Settings \cup {NoMeta}
    /\ units \subseteq Units /\ rqueue \subseteq units
    /\ fts.rows \subseteq Units /\ vec.rows \subseteq DOMAIN emb /\ DOMAIN emb \subseteq units

\* Whatever programs with whatever settings have opened the file since: the
\* word index has every unit and the tokenizer the metadata names, and the
\* vectors that a search compares all have the dimension the metadata names.
IndexesFollowSettings ==
    schema > 0 =>
        /\ fts = [tokenizer |-> meta.tokenizer, rows |-> units]
        /\ vec.dim = meta.dim
        /\ \A u \in vec.rows : emb[u] = vec.dim

\* Every unit was embedded once or is still to be.
NothingForgotten == \A u \in units : u \in rqueue \/ u \in DOMAIN emb

\* Every unit can be found by its vector or is still to be embedded.
VectorsRecomputed == \A u \in units : u \in rqueue \/ u \in vec.rows
=============================================================================
