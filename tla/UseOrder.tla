------------------------------ MODULE UseOrder ------------------------------
(***************************************************************************)
(* An OrderedDict that is kept in the order in which its keys were used,   *)
(* as InMemoryRateLimitMiddleware and InMemoryTTLCache keep theirs: its    *)
(* keys, the least recently used one first.                                *)
(***************************************************************************)
EXTENDS Integers, SequencesExt

\* OrderedDict.pop(key, None).
Drop(o, k) ==
    IF Contains(o, k) THEN RemoveAt(o, CHOOSE i \in DOMAIN o : o[i] = k) ELSE o

\* OrderedDict.move_to_end; a key that is not there is added.
MoveToEnd(o, k) == Append(Drop(o, k), k)

\* The last n elements, which is what remains of an order when keys are popped
\* from its front until there are no more than n.
Latest(s, n) == SubSeq(s, Max({1, Len(s) - n + 1}), Len(s))

=============================================================================
