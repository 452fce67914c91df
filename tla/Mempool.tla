------------------------------- MODULE Mempool -------------------------------
(***************************************************************************)
(* The transaction pool of mempool.rs: a vector of transactions with three *)
(* redundant indexes (the ids, the id of each sender and nonce, and the    *)
(* total size in bytes), a count limit and a byte limit.                   *)
(*                                                                         *)
(* A transaction stands for its own id, which is the hash of its contents. *)
(* The pool is a record, so that the modules that hold one use the same    *)
(* operators.                                                              *)
(***************************************************************************)
EXTENDS Naturals, Sequences, FiniteSets, SequencesExt

CONSTANTS
    Transactions,     \* records with fields from, nonce, fee and size
    MaxTransactions,  \* max_transactions
    MaxBytes,         \* max_bytes
    U128Max           \* u128::MAX, where saturating_add stops

\* A transaction's fee is at most U128Max and its size not zero.

VARIABLE pool

EmptyPool == [transactions |-> <<>>, ids |-> {}, sender_nonce |-> <<>>,
              total_bytes |-> 0]

Key(t) == <<t.from, t.nonce>>

NoKey(f, k) == [x \in DOMAIN f \ {k} |-> f[x]]

SetKey(f, k, v) == [x \in DOMAIN f \cup {k} |-> IF x = k THEN v ELSE f[x]]

SaturatingSub(a, b) == IF a < b THEN 0 ELSE a - b

-----------------------------------------------------------------------------

\* remove_at: the transaction leaves the vector and every index.
RemoveTransaction(p, t) ==
    [p EXCEPT !.transactions = RemoveFirst(@, t),
              !.ids = @ \ {t},
              !.sender_nonce = NoKey(@, Key(t)),
              !.total_bytes = SaturatingSub(@, t.size)]

\* min_by_key: the first of the transactions with the lowest fee.
Cheapest(p) ==
    LET s == p.transactions
        first == CHOOSE i \in DOMAIN s : \A j \in DOMAIN s :
                     s[i].fee < s[j].fee \/ (s[i].fee = s[j].fee /\ i <= j)
    IN  s[first]

Fits(p, size) ==
    Len(p.transactions) < MaxTransactions /\ p.total_bytes + size <= MaxBytes

\* The eviction loop of add.
MakeRoom(p, size) ==
    LET room[n \in 0..Len(p.transactions)] ==
            IF n = 0 THEN p
            ELSE IF Fits(room[n - 1], size) THEN room[n - 1]
            ELSE RemoveTransaction(room[n - 1], Cheapest(room[n - 1]))
    IN  room[Len(p.transactions)]

\* What a transaction with the same sender and nonce must pay.
MinimumFee(previous) ==
    Min({previous.fee + Max({previous.fee \div 10, 1}), U128Max})

Replaces(p, t) == Key(t) \in DOMAIN p.sender_nonce

\* The early returns of add.
Accepts(p, t) ==
    /\ t \notin p.ids
    /\ t.size <= MaxBytes
    /\ Replaces(p, t) =>
           LET previous == p.sender_nonce[Key(t)]
           IN  /\ Contains(p.transactions, previous)
               /\ t.fee >= MinimumFee(previous)

\* The replaced transaction keeps its place in sender_nonce, which the
\* insertion at the end of add overwrites.
WithoutReplaced(p, t) ==
    IF Replaces(p, t)
    THEN LET previous == p.sender_nonce[Key(t)]
         IN  [p EXCEPT !.transactions = RemoveFirst(@, previous),
                       !.ids = @ \ {previous},
                       !.total_bytes = SaturatingSub(@, previous.size)]
    ELSE p

Added(p, t) ==
    LET room == MakeRoom(WithoutReplaced(p, t), t.size)
    IN  [transactions |-> Append(room.transactions, t),
         ids |-> room.ids \cup {t},
         sender_nonce |-> SetKey(room.sender_nonce, Key(t), t),
         total_bytes |-> room.total_bytes + t.size]

\* The callers that drop the Result of add.
AddOrIgnore(p, t) == IF Accepts(p, t) THEN Added(p, t) ELSE p

AddAll(p, ts) == FoldLeft(AddOrIgnore, p, ts)

\* The stable sort of drain: fee first, then the lower nonce.
Precedes(s, i, j) ==
    \/ s[i].fee > s[j].fee
    \/ s[i].fee = s[j].fee /\ s[i].nonce < s[j].nonce
    \/ s[i].fee = s[j].fee /\ s[i].nonce = s[j].nonce /\ i < j

SortedForDrain(p) ==
    LET s == p.transactions
        order == SetToSortSeq(DOMAIN s, LAMBDA i, j : Precedes(s, i, j))
    IN  [n \in DOMAIN s |-> s[order[n]]]

Selected(p, count) ==
    SubSeq(SortedForDrain(p), 1, Min({count, Len(p.transactions)}))

\* drain: what stays in the pool keeps the sorted order.
Drained(p, count) ==
    FoldLeft(RemoveTransaction, [p EXCEPT !.transactions = SortedForDrain(p)],
             Selected(p, count))

\* retain_valid: the pool is emptied and the valid transactions added again.
RetainValid(p, valid) ==
    AddAll(EmptyPool, SelectSeq(p.transactions, LAMBDA t : t \in valid))

-----------------------------------------------------------------------------
Init == pool = EmptyPool

Add(t) == Accepts(pool, t) /\ pool' = Added(pool, t)

Drain(count) == pool.transactions # <<>> /\ pool' = Drained(pool, count)

Retain(valid) == pool' = RetainValid(pool, valid)

Next ==
    \/ \E t \in Transactions : Add(t)
    \/ \E count \in 1..MaxTransactions : Drain(count)
    \/ \E valid \in SUBSET ToSet(pool.transactions) : Retain(valid)

Spec == Init /\ [][Next]_pool

-----------------------------------------------------------------------------
SizeOf(S) == FoldSet(LAMBDA t, sum : t.size + sum, 0, S)

(* The three indexes always describe the vector: no transaction is known    *)
(* but absent (it would be refused for ever), none is present but unknown,  *)
(* no sender has two transactions of one nonce, and the byte count is the   *)
(* sum of the sizes whatever mixture of add, replacement, eviction, drain   *)
(* and retain_valid led here.                                               *)
IndexesAgree ==
    LET held == ToSet(pool.transactions)
    IN  /\ Len(pool.transactions) = Cardinality(held)
        /\ pool.ids = held
        /\ DOMAIN pool.sender_nonce = {Key(t) : t \in held}
        /\ \A t \in held : pool.sender_nonce[Key(t)] = t
        /\ pool.total_bytes = SizeOf(held)

(* Neither limit is exceeded after any operation (the eviction loop of      *)
(* add stops only when the new transaction fits).                           *)
WithinLimits ==
    /\ Len(pool.transactions) <= MaxTransactions
    /\ pool.total_bytes <= MaxBytes

(* A transaction gives way to another of the same sender and nonce only     *)
(* when the other pays strictly more, by a tenth when a tenth is at least   *)
(* one unit: replacing the same transaction again and again is never free.  *)
ReplacementPays ==
    [][\A t \in ToSet(pool.transactions) :
           \A u \in ToSet(pool'.transactions) \ ToSet(pool.transactions) :
               Key(u) = Key(t) => /\ u.fee > t.fee
                                  /\ 10 * (u.fee + 1) > 11 * t.fee]_pool

(* retain_valid, which rebuilds the pool with add and ignores its errors,   *)
(* keeps exactly the valid transactions, in their order.                    *)
RetainKeepsValid ==
    \A valid \in SUBSET ToSet(pool.transactions) :
        RetainValid(pool, valid).transactions
            = SelectSeq(pool.transactions, LAMBDA t : t \in valid)
=============================================================================
