---------------------------- MODULE OffloadCache ----------------------------
(***************************************************************************)
(* One layer's OffloadKVCache (engine/src/kv/offload.rs) as functions on   *)
(* its state: a backing store, and an attention buffer that may be ahead   *)
(* of it (deferred writes) or behind it (not loaded).                      *)
(*                                                                         *)
(* A row is one token's K and V bytes; row 0 is a zeroed one. K and V, the *)
(* GPU copies and the reusable output buffers carry the same rows and are  *)
(* not told apart.                                                         *)
(***************************************************************************)
EXTENDS Integers, Sequences

CONSTANT MaxSeq     \* max_seq_len, in tokens

ASSUME MaxSeqAssumption == MaxSeq \in Nat \ {0}

Zeroed == [p \in 1 .. MaxSeq |-> 0]

\* attn is <<>> while attn_k_buf and attn_v_buf are None.
EmptyCache ==
    [pos |-> 0, store |-> <<>>, attn |-> <<>>, preloaded |-> FALSE, behind |-> 0]

HasBuf(c) == c.attn # <<>>

\* get_or_insert_with(|| vec![0u8; max_bytes])
Alloc(c) == IF HasBuf(c) THEN c ELSE [c EXCEPT !.attn = Zeroed]

\* load_into: the store's rows over the front of the buffer.
Load(c) ==
    [c EXCEPT !.attn = [p \in 1 .. MaxSeq |->
                           IF p <= Len(c.store) THEN c.store[p] ELSE @[p]]]

\* The rows that are in the buffer and not yet in the store.
Deferred(c) == SubSeq(c.attn, c.pos - c.behind + 1, c.pos)

FlushDeferred(c) ==
    IF c.behind = 0 THEN c
    ELSE [c EXCEPT !.store = @ \o Deferred(c), !.behind = 0]

Preload(c) ==
    IF c.preloaded THEN c
    ELSE IF c.pos = 0 THEN [FlushDeferred(c) EXCEPT !.preloaded = TRUE]
    ELSE [Load(Alloc(FlushDeferred(c))) EXCEPT !.preloaded = TRUE]

\* Mutant: the buffers are dropped with the deferred rows in them.
ReleaseUnflushed(c) ==
    [c EXCEPT !.attn = <<>>, !.preloaded = FALSE, !.behind = 0]

ReleaseBuffers(c) ==
    [FlushDeferred(c) EXCEPT !.attn = <<>>, !.preloaded = FALSE]

RetainPreload(c) == IF HasBuf(c) THEN [c EXCEPT !.preloaded = TRUE] ELSE c

ResetSession(c) == EmptyCache

\* update with one row: deferred into a preloaded buffer, else appended to the store.
UpdateOne(c, row) ==
    IF c.preloaded /\ HasBuf(c)
    THEN [c EXCEPT !.attn[c.pos + 1] = row, !.behind = @ + 1, !.pos = @ + 1]
    ELSE [c EXCEPT !.store = Append(@, row), !.pos = @ + 1]

\* update with several rows: to the store, replacing it when the cache is empty.
UpdateMany(c, rows) ==
    [c EXCEPT !.store = IF c.pos = 0 THEN rows ELSE @ \o rows,
              !.pos = @ + Len(rows)]

\* The caller has checked that the rows fit.
Update(c, rows) == IF Len(rows) = 1 THEN UpdateOne(c, rows[1]) ELSE UpdateMany(c, rows)

\* get_view has to read the store: the buffer is not marked loaded, and holds no
\* deferred rows that would make it the newer one.
NeedsLoad(c) == c.pos > 0 /\ ~c.preloaded /\ c.behind = 0

\* The cache while get_view copies its buffer out.  loaded is whether load_into,
\* where it is needed, succeeds: an error is logged and leaves the buffer.
Viewed(c, loaded) ==
    IF NeedsLoad(c) THEN (IF loaded THEN Load(Alloc(c)) ELSE Alloc(c))
    ELSE Alloc(IF c.preloaded THEN c ELSE FlushDeferred(c))

Unread(c, loaded) == NeedsLoad(c) /\ ~loaded

\* The rows get_view hands out: none from an empty cache or after a failed load.
View(c, loaded) ==
    IF c.pos = 0 \/ Unread(c, loaded) THEN <<>>
    ELSE SubSeq(Viewed(c, loaded).attn, 1, c.pos)

\* What get_view leaves behind; both of its early returns leave preloaded alone.
AfterView(c, loaded) ==
    IF c.pos = 0 THEN c
    ELSE IF Unread(c, loaded) THEN Viewed(c, loaded)
    ELSE [Viewed(c, loaded) EXCEPT !.preloaded = FALSE]

\* What a cache holds, wherever the rows are.
Contents(c) == c.store \o (IF c.behind = 0 THEN <<>> ELSE Deferred(c))
=============================================================================
